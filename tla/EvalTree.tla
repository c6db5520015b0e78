------------------------------ MODULE EvalTree ------------------------------
(***************************************************************************)
(* The evaluation of a stream by a tree of leaves, SEQ nodes and AND nodes *)
(* (TreeBasedEvaluationMechanism.eval, Node, LeafNode, BinaryNode,         *)
(* InternalNode, SeqNode, AndNode, MultiPatternTree.get_matches).          *)
(*                                                                         *)
(* The code is a depth-first recursion: adding a partial match to a node   *)
(* notifies each parent in turn, a parent joins the new match with the     *)
(* matches of its other subtree, and every join it accepts is added (and   *)
(* propagated all the way up) before the next candidate is looked at.  The *)
(* recursion is an explicit stack of frames here, one step per call.       *)
(*                                                                         *)
(* A storage is a set: NoDuplicateAdd says that the lists of the code hold *)
(* no match twice, and every order in which a join may walk its candidates *)
(* (arrival order, key order) is a behaviour of CreateMatch and            *)
(* RejectCandidate.  The hand-over queues between child and parent         *)
(* (_parent_to_unhandled_queue_dict) are filled and emptied in one step    *)
(* and are not represented.                                                *)
(***************************************************************************)
EXTENDS TreeTopology

CONSTANTS
    CleanUpInterval,    \* additions to a storage between two cleanups of it
    MaxEvents,          \* bound: events in the stream
    MaxGap              \* bound: time between consecutive events

ASSUME BoundAssumption ==
    /\ CleanUpInterval \in Nat \ {0}
    /\ MaxEvents \in Nat
    /\ MaxGap \in Nat

VARIABLES
    stream,     \* the events read so far
    phase,      \* "idle", "playing" (an event is in the tree) or "closed"
    playing,    \* the leaves the current event has not been played on yet
    stack,      \* the recursion: a sequence of frames, the innermost last
    store,      \* [Node -> set of partial matches], _partial_matches
    access,     \* [Node -> Nat], _access_count: additions since a cleanup
    filtered,   \* [Node -> set of events], _filtered_events
    freezers,   \* __active_freezers
    unreported, \* [OutputNode -> Seq(partial match)], _unreported_matches
    matches     \* the output stream: a sequence of [pm, node, ids]

vars == <<stream, phase, playing, stack, store, access, filtered, freezers,
          unreported, matches>>

Now == stream[Len(stream)]

Top == stack[Len(stack)]

Pop == SubSeq(stack, 1, Len(stack) - 1)

\* The call on top goes on as frame f; it goes on as f after calling g.
Continue(f) == Append(Pop, f)

Call(f, g) == Append(Continue(f), g)

\* Fault: a parent registered twice (add_parent without its membership test).
AddFrameTwice(n, pm) ==
    [op |-> "add", node |-> n, pm |-> pm, next |-> Parents[n] \o Parents[n],
     todo |-> {}]

\* A call of _add_partial_match that still has to notify the parents in next.
AddFrame(n, pm) ==
    [op |-> "add", node |-> n, pm |-> pm, next |-> Parents[n], todo |-> {}]

\* A call of _try_create_new_matches: pm is still to be joined with todo.
JoinFrame(n, pm, candidates) ==
    [op |-> "join", node |-> n, pm |-> pm, next |-> <<>>, todo |-> candidates]

Init ==
    /\ stream = <<>>
    /\ phase = "idle"
    /\ playing = {}
    /\ stack = <<>>
    /\ store = [n \in Node |-> {}]
    /\ access = [n \in Node |-> 0]
    /\ filtered = [n \in Node |-> {}]
    /\ freezers = {}
    /\ unreported = [n \in OutputNode |-> <<>>]
    /\ matches = <<>>

-----------------------------------------------------------------------------
(* Node: storage, cleanup, consumption policy *)

\* Does clean_expired_partial_matches find enough additions to clean node n?
CleanupDue(n) == access[n] >= CleanUpInterval

\* Fault: matches whose first event is exactly one window old are dropped.
CleanedStrict(n, last) ==
    IF CleanupDue(n)
    THEN {pm \in store[n] : NotBefore(stream, pm, last - Window[n] + 1)}
    ELSE store[n]

\* Fault: a shared node cleaned by the window of its most restrictive pattern.
CleanedNarrow(n, last) ==
    IF CleanupDue(n)
    THEN {pm \in store[n] : \A p \in PatternsOver(n) :
                                NotBefore(stream, pm, last - PatternWindow[p])}
    ELSE store[n]

Cleaned(n, last) ==
    IF CleanupDue(n)
    THEN {pm \in store[n] : NotBefore(stream, pm, last - Window[n])}
    ELSE store[n]

\* Fault: an event exactly one window old may be consumed again.
CleanedFilteredStrict(n, last) ==
    IF SingleTypesOf(n) = {} THEN filtered[n]
    ELSE {e \in filtered[n] : stream[e].ts > last - Window[n]}

\* Filtered events are cleaned on every call, whatever the access count.
CleanedFiltered(n, last) ==
    IF SingleTypesOf(n) = {} THEN filtered[n]
    ELSE {e \in filtered[n] : stream[e].ts >= last - Window[n]}

\* Node.clean_expired_partial_matches(last) on every node of ns
CleanStores(ns, last) ==
    [n \in Node |-> IF n \in ns THEN Cleaned(n, last) ELSE store[n]]

CleanAccess(ns) ==
    [n \in Node |-> IF n \in ns /\ CleanupDue(n) THEN 0 ELSE access[n]]

CleanFiltered(ns, last) ==
    [n \in Node |-> IF n \in ns THEN CleanedFiltered(n, last) ELSE filtered[n]]

\* Fault: the policy applied to the events of every type.
SingleEventsOfAnyType(n, pm) == IF SingleTypesOf(n) = {} THEN {} ELSE Range(pm)

\* The events of pm that node n may pass upwards only once.
SingleEvents(n, pm) == {e \in Range(pm) : stream[e].type \in SingleTypesOf(n)}

\* Node.__can_add_partial_match, with flt the filtered events of the node
CanAdd(n, pm, flt) == SingleEvents(n, pm) \cap flt = {}

\* Stores as they are after node n has taken pm in, on top of sts.
AddedTo(sts, n, pm) == [sts EXCEPT ![n] = @ \cup {pm}]

-----------------------------------------------------------------------------
(* TreeBasedEvaluationMechanism.eval: reading the stream *)

\* The stamps the next event may carry: the stream is ordered in time.
NextStamps == IF stream = <<>> THEN {0} ELSE Now.ts..(Now.ts + MaxGap)

\* An event no leaf listens to is numbered and dropped.
SkipEvent(e) ==
    /\ Listeners(e.type) = {}
    /\ UNCHANGED <<phase, playing, freezers>>

\* Fault: a freezer exactly one window old is retired.
AcceptEventEarly(e) ==
    /\ Listeners(e.type) # {}
    /\ phase' = "playing"
    /\ playing' = Listeners(e.type)
    /\ freezers' = {f \in freezers :
                        \A p \in Pattern : e.ts - stream[f].ts < PatternWindow[p]}

\* An event with listeners first retires the expired freezers.
AcceptEvent(e) ==
    /\ Listeners(e.type) # {}
    /\ phase' = "playing"
    /\ playing' = Listeners(e.type)
    /\ freezers' = {f \in freezers :
                        \A p \in Pattern : e.ts - stream[f].ts <= PatternWindow[p]}

ReadEvent ==
    /\ phase = "idle"
    /\ Len(stream) < MaxEvents
    /\ \E t \in EventType, ts \in NextStamps, v \in Val :
        LET e == [type |-> t, ts |-> ts, val |-> v]
        IN  /\ stream' = Append(stream, e)
            /\ SkipEvent(e) \/ AcceptEvent(e)
    /\ UNCHANGED <<stack, store, access, filtered, unreported, matches>>

-----------------------------------------------------------------------------
(* TreeBasedEvaluationMechanism._play_new_event and LeafNode.handle_event *)

\* The leaf is closed by a freezer that is neither matched nor expired.
Frozen(l) ==
    \E f \in freezers : \E g \in FreezeMap :
        TypeOf[g] = stream[f].type /\ l \in FrozenBy(g)

IgnoreEvent(l) ==
    /\ stack = <<>>
    /\ l \in playing
    /\ Frozen(l)
    /\ playing' = playing \ {l}
    /\ UNCHANGED <<stream, phase, stack, store, access, filtered, freezers,
                   unreported, matches>>

\* The single-event match a leaf makes of the current event.
LeafMatch(l) == [k \in {l} |-> Len(stream)]

RegisterFreezer(l) ==
    freezers' = IF l \in FreezeMap THEN freezers \cup {Len(stream)} ELSE freezers

\* What the leaf accepts: its condition holds and no policy stops the event.
LeafAccepts(l) ==
    /\ Valid(stream, l, LeafMatch(l))
    /\ CanAdd(l, LeafMatch(l), CleanedFiltered(l, Now.ts))

HandleEvent(l) ==
    /\ stack = <<>>
    /\ l \in playing
    /\ ~ Frozen(l)
    /\ LeafAccepts(l)
    /\ playing' = playing \ {l}
    /\ RegisterFreezer(l)
    /\ store' = AddedTo(CleanStores({l}, Now.ts), l, LeafMatch(l))
    /\ access' = [CleanAccess({l}) EXCEPT ![l] = @ + 1]
    /\ filtered' = [CleanFiltered({l}, Now.ts) EXCEPT
                        ![l] = @ \cup SingleEvents(l, LeafMatch(l))]
    /\ stack' = <<AddFrame(l, LeafMatch(l))>>
    /\ UNCHANGED <<stream, phase, unreported, matches>>

\* A rejected event still registers its freezer and cleans the leaf.
RejectEvent(l) ==
    /\ stack = <<>>
    /\ l \in playing
    /\ ~ Frozen(l)
    /\ ~ LeafAccepts(l)
    /\ playing' = playing \ {l}
    /\ RegisterFreezer(l)
    /\ store' = CleanStores({l}, Now.ts)
    /\ access' = CleanAccess({l})
    /\ filtered' = CleanFiltered({l}, Now.ts)
    /\ UNCHANGED <<stream, phase, stack, unreported, matches>>

-----------------------------------------------------------------------------
(* Node._add_partial_match and BinaryNode.handle_new_partial_match *)

\* last_timestamp of a match
LastTimestamp(pm) ==
    CHOOSE t \in {stream[e].ts : e \in Range(pm)} :
        \A e \in Range(pm) : stream[e].ts <= t

\* The matches of the other subtree a new match of n is joined with at p.
Candidates(p, n, sts) == sts[Sibling(p, n)]

\* The next parent takes the new match: it cleans the other subtree, reads
\* the candidates there, and cleans itself.
HandleNewPartialMatch ==
    /\ stack # <<>>
    /\ Top.op = "add"
    /\ Top.next # <<>>
    /\ LET p == Head(Top.next)
           other == Sibling(p, Top.node)
           last == LastTimestamp(Top.pm)
           sts == CleanStores({other, p}, last)
       IN  /\ store' = sts
           /\ access' = CleanAccess({other, p})
           /\ filtered' = CleanFiltered({other, p}, last)
           /\ stack' = Call([Top EXCEPT !.next = Tail(@)],
                            JoinFrame(p, Top.pm, Candidates(p, Top.node, sts)))
    /\ UNCHANGED <<stream, phase, playing, freezers, unreported, matches>>

\* All parents are done: an output node queues the match as a full one.
FinishAdd ==
    /\ stack # <<>>
    /\ Top.op = "add"
    /\ Top.next = <<>>
    /\ unreported' = [n \in OutputNode |->
                        IF n = Top.node THEN Append(unreported[n], Top.pm)
                                        ELSE unreported[n]]
    /\ stack' = Pop
    /\ UNCHANGED <<stream, phase, playing, store, access, filtered, freezers,
                   matches>>

-----------------------------------------------------------------------------
(* BinaryNode._try_create_new_matches *)

\* Fault: a join that is not validated.
JoinableUnchecked(n, pm) == CanAdd(n, pm, filtered[n])

Joinable(n, pm) == Valid(stream, n, pm) /\ CanAdd(n, pm, filtered[n])

CreateMatch ==
    /\ stack # <<>>
    /\ Top.op = "join"
    /\ \E c \in Top.todo :
        LET n == Top.node
            pm == MergeMatches(n, Top.pm, c)
        IN  /\ Joinable(n, pm)
            /\ store' = AddedTo(store, n, pm)
            /\ access' = [access EXCEPT ![n] = @ + 1]
            /\ filtered' = [filtered EXCEPT ![n] = @ \cup SingleEvents(n, pm)]
            /\ stack' = Call([Top EXCEPT !.todo = @ \ {c}], AddFrame(n, pm))
    /\ UNCHANGED <<stream, phase, playing, freezers, unreported, matches>>

\* Fault: a rejected candidate is tried again.
RejectCandidateForever ==
    /\ stack # <<>>
    /\ Top.op = "join"
    /\ \E c \in Top.todo :
        ~ Joinable(Top.node, MergeMatches(Top.node, Top.pm, c))
    /\ UNCHANGED vars

RejectCandidate ==
    /\ stack # <<>>
    /\ Top.op = "join"
    /\ \E c \in Top.todo :
        /\ ~ Joinable(Top.node, MergeMatches(Top.node, Top.pm, c))
        /\ stack' = Continue([Top EXCEPT !.todo = @ \ {c}])
    /\ UNCHANGED <<stream, phase, playing, store, access, filtered, freezers,
                   unreported, matches>>

FinishJoin ==
    /\ stack # <<>>
    /\ Top.op = "join"
    /\ Top.todo = {}
    /\ stack' = Pop
    /\ UNCHANGED <<stream, phase, playing, store, access, filtered, freezers,
                   unreported, matches>>

-----------------------------------------------------------------------------
(* TreeBasedEvaluationMechanism._get_matches and the end of the stream *)

\* Fault: matches collected before every listening leaf has seen the event.
SettledEarly == phase = "playing" /\ stack = <<>>

\* The tree has handled the current event on every listening leaf.
Settled == phase = "playing" /\ playing = {} /\ stack = <<>>

\* Fault: a match attached without regard to the window of the pattern.
PatternIdsUnchecked(n, pm) == {p \in Pattern : Root[p] = n}

\* __should_attach_match_to_pattern.  A single-pattern tree (Tree.get_matches)
\* has no identifiers: its only pattern stands for them.
PatternIds(n, pm) ==
    {p \in Pattern : Root[p] = n /\ WithinWindow(stream, pm, PatternWindow[p])}

\* One full match moves to the output stream and releases its freezers.
ReportMatch(n) ==
    /\ Settled
    /\ unreported[n] # <<>>
    /\ LET pm == Head(unreported[n])
       IN  /\ matches' = Append(matches,
                            [pm |-> pm, node |-> n, ids |-> PatternIds(n, pm)])
           /\ freezers' = IF FreezeMap = {} THEN freezers
                                            ELSE freezers \ Range(pm)
    /\ unreported' = [unreported EXCEPT ![n] = Tail(@)]
    /\ UNCHANGED <<stream, phase, playing, stack, store, access, filtered>>

FinishEvent ==
    /\ Settled
    /\ \A n \in OutputNode : unreported[n] = <<>>
    /\ phase' = "idle"
    /\ UNCHANGED <<stream, playing, stack, store, access, filtered, freezers,
                   unreported, matches>>

\* The input stream ends; a tree without negation has nothing pending, so the
\* output stream is closed right away.
Close ==
    /\ phase = "idle"
    /\ phase' = "closed"
    /\ UNCHANGED <<stream, playing, stack, store, access, filtered, freezers,
                   unreported, matches>>

-----------------------------------------------------------------------------

\* The work on an event already read: everything but reading and closing.
Step ==
    \/ \E l \in Leaf : IgnoreEvent(l) \/ HandleEvent(l) \/ RejectEvent(l)
    \/ HandleNewPartialMatch
    \/ FinishAdd
    \/ CreateMatch
    \/ RejectCandidate
    \/ FinishJoin
    \/ \E n \in OutputNode : ReportMatch(n)
    \/ FinishEvent

Next == ReadEvent \/ Step \/ Close

Spec == Init /\ [][Next]_vars

\* The evaluation is one thread that runs until the input stream blocks it:
\* a call that has begun goes on.  Nothing obliges a next event to arrive.
FairSpec == Spec /\ WF_vars(Step)
=============================================================================
