---------------------------- MODULE AdaptiveTree ----------------------------
(***************************************************************************)
(* Replacing the evaluation tree while the stream is running               *)
(* (TreeBasedEvaluationMechanism.eval with a statistics collector, the     *)
(* Trivial and the Simultaneous mechanism, the optimizers that decide by   *)
(* the arrival rates).                                                     *)
(*                                                                         *)
(* A tree is what it does with an event: RefinesSemantics of EvalTree says *)
(* that it completes exactly the combinations its leaves hold that satisfy *)
(* the pattern, NegationTree how an unbounded negated event on top keeps   *)
(* them pending.  A tree is therefore its plan (the order of its leaves),  *)
(* the events its leaves store, and the matches that are pending or wait   *)
(* to be collected.  When the cleanup of a leaf is due is left open: any   *)
(* leaf may drop its expired events.  Policies are not represented.        *)
(***************************************************************************)
EXTENDS Integers, Sequences, FiniteSets, SequencesExt

CONSTANTS
    Positive,       \* the names of the positive events
    Negated,        \* the name of the negated event at the end of the pattern
    TypeOf,         \* [names -> event types]
    PatternOrder,   \* the positive names in the order of the pattern
    Precedes,       \* pairs of names: the order constraints of the pattern
    Window,         \* the time window of the pattern
    Val,            \* what an event carries, as the leaf conditions see it
    Setup,          \* the configurations to run, see SetupAssumption
    UpdateWindow,   \* statistics_update_time_window
    RatesWindow,    \* arrival_rates_time_window
    Threshold,      \* the deviation threshold, in percent
    MaxEvents,      \* bound: events in the stream
    MaxGap          \* bound: time between consecutive events

Name == Positive \cup {Negated}

\* A configuration: which mechanism replaces the tree, which optimizer decides,
\* whether the pattern ends in the negated event, what the leaves accept.
ASSUME SetupAssumption ==
    \A s \in Setup :
        /\ s.mechanism \in {"trivial", "simultaneous"}
        /\ s.optimizer \in {"trivial", "deviation"}
        /\ s.negated \in BOOLEAN
        /\ s.accepts \in [Name -> SUBSET Val]

ASSUME PatternAssumption ==
    /\ Positive # {} /\ Negated \notin Positive
    /\ PatternOrder \in Seq(Positive) /\ ToSet(PatternOrder) = Positive
    /\ \A p \in Positive : TypeOf[p] # TypeOf[Negated]
    /\ Precedes \subseteq Name \X Name

ASSUME WindowAssumption == Window \in Nat /\ RatesWindow \in Nat

ASSUME BoundAssumption == MaxEvents \in Nat /\ MaxGap \in Nat

VARIABLES
    setup,          \* the configuration of the run
    stream,         \* the events with listeners read so far
    phase,          \* where the evaluation of the newest event has got to
    tree,           \* _tree
    newTree,        \* __new_tree, or NoTree
    updateTime,     \* __tree_update_time
    replay,         \* the old events still to be played on a new tree
    lastMatches,    \* __last_matches_from_old_tree, {} for none
    refreshed,      \* last_statistics_refresh_time, or Never
    arrivals,       \* __events_arrival_time
    rates,          \* __arrival_rates, of the names the plan orders
    planned,        \* __prev_statistics: the rates the last plan was built from
    output          \* what has been reported: [match, at, by]

vars == <<setup, stream, phase, tree, newTree, updateTime, replay, lastMatches,
          refreshed, arrivals, rates, planned, output>>

NoTree == [plan |-> <<>>]
Never == -1

\* The names of the configured pattern, and their order in it.
Used == IF setup.negated THEN Name ELSE Positive
Order == IF setup.negated THEN Append(PatternOrder, Negated) ELSE PatternOrder

Newest == Len(stream)
Now == stream[Newest].ts

-----------------------------------------------------------------------------
(* A tree *)

EmptyTree(plan) ==
    [plan |-> plan, held |-> [n \in Name |-> {}],
     pending |-> {}, ready |-> {}]

\* The combinations of held events that satisfy the positive part.
Completed(held) ==
    {m \in [Positive -> UNION {held[n] : n \in Positive}] :
        /\ \A n \in Positive : m[n] \in held[n]
        /\ \A k, l \in Positive :
            /\ stream[m[k]].ts - stream[m[l]].ts <= Window
            /\ k # l => m[k] # m[l]
            /\ <<k, l>> \in Precedes => stream[m[k]].ts <= stream[m[l]].ts}

EventsOf(m) == {m[n] : n \in DOMAIN m}

\* The negated event e prevents match m.
Prevents(m, e) ==
    /\ \A n \in Positive :
        /\ stream[e].ts - stream[m[n]].ts <= Window
        /\ stream[m[n]].ts - stream[e].ts <= Window
        /\ <<n, Negated>> \in Precedes => stream[m[n]].ts <= stream[e].ts

\* A pending match whose window is over at time t.
Expired(m, t) == \E n \in Positive : stream[m[n]].ts < t - Window

\* The leaves of tr that take event e.
Takers(tr, e) ==
    {n \in ToSet(tr.plan) : /\ TypeOf[n] = stream[e].type
                            /\ stream[e].val \in setup.accepts[n]}

\* The events of the leaves after e: those in due have dropped what is expired.
HeldAfter(tr, e, due) ==
    [n \in Name |->
        (IF n \in due THEN {d \in tr.held[n] : stream[d].ts >= stream[e].ts - Window}
                      ELSE tr.held[n])
        \cup IF n \in Takers(tr, e) THEN {e} ELSE {}]

\* The tree after event e has been played on all its leaves: what it may look
\* like.  A new positive match flushes the pending ones whose window is over
\* and becomes pending itself unless a stored negated event prevents it.
Played(tr, e) ==
    {LET held == HeldAfter(tr, e, due)
         new == {m \in Completed(held) : e \in EventsOf(m)}
         open == {m \in new : \A d \in held[Negated] : ~ Prevents(m, d)}
         flushed == IF new = {} THEN {}
                    ELSE {m \in tr.pending : Expired(m, stream[e].ts)}
         kept == IF Negated \in Takers(tr, e)
                 THEN {m \in tr.pending : ~ Prevents(m, e)}
                 ELSE tr.pending \ flushed
     IN  [tr EXCEPT
            !.held = held,
            !.pending = IF setup.negated THEN kept \cup open ELSE {},
            !.ready = @ \cup IF setup.negated THEN flushed ELSE new] :
        due \in SUBSET {n \in ToSet(tr.plan) :
                            \E d \in tr.held[n] : stream[d].ts < stream[e].ts - Window}}

\* Fault: the pending matches of the old tree are forgotten.
LastMatchesUnflushed(tr) == {}

\* Tree.get_last_matches: only a tree with an unbounded negation has any.
LastMatchesOf(tr) == IF setup.negated THEN tr.ready \cup tr.pending ELSE {}

-----------------------------------------------------------------------------
(* ArrivalRatesStatistics, the optimizers and their plans *)

\* Fault: an expired arrival is forgotten only when a newer one expires.
LiveArrivalsLate(list, e) ==
    IF Len(list) > 1 /\ e.ts - stream[list[1]].ts > RatesWindow
    THEN SelectSeq(list, LAMBDA d : d # list[1]) ELSE list

\* __remove_expired_events keeps everything from the first live arrival on.
LiveArrivals(list, e) ==
    LET live == {i \in DOMAIN list : e.ts - Append(stream, e)[list[i]].ts <= RatesWindow}
    IN  IF live = {} THEN <<>> ELSE SubSeq(list, Min(live), Len(list))

\* Every name whose type has arrived counts the arrival; the expired ones are
\* taken off again.
RatesAfter(e, live) ==
    LET gone == ToSet(arrivals) \ ToSet(live)
    IN  [n \in Used |->
            rates[n] + (IF TypeOf[n] = e.type THEN 1 ELSE 0)
                     - Cardinality({d \in gone : stream[d].type = TypeOf[n]})]

\* ArrivalRatesDeviationAwareTester.is_deviated_by_t
Deviated ==
    \E n \in Used :
        \/ planned[n] * (100 + Threshold) < rates[n] * 100
        \/ planned[n] * (100 - Threshold) > rates[n] * 100

ShouldOptimize == setup.optimizer = "deviation" => Deviated

\* AscendingFrequencyTreeBuilder: the rarest first, ties in the order of the
\* pattern, the negated event on top.
PlansFor(rs) ==
    LET place == [n \in Used |-> CHOOSE i \in DOMAIN Order : Order[i] = n]
        before(k, l) ==
            /\ k # Negated
            /\ \/ l = Negated
               \/ rs[k] < rs[l]
               \/ rs[k] = rs[l] /\ place[k] < place[l]
    IN  {p \in [DOMAIN Order -> Used] :
            /\ ToSet(p) = Used
            /\ \A i, j \in DOMAIN p : i < j => before(p[i], p[j])}

-----------------------------------------------------------------------------

\* Without prior statistics the first plan is the order of the pattern, and
\* counts as built from rates of 0 (build_initial_plan).
Init ==
    /\ setup \in Setup
    /\ stream = <<>>
    /\ phase = "idle"
    /\ tree = EmptyTree(Order)
    /\ newTree = NoTree
    /\ updateTime = Never
    /\ replay = <<>>
    /\ lastMatches = {}
    /\ refreshed = Never
    /\ arrivals = <<>>
    /\ rates = [n \in Used |-> 0]
    /\ planned = rates
    /\ output = {}

Event == [type : {TypeOf[n] : n \in Name}, ts : Nat, val : Val]

\* eval reads an event that has listeners (the trees of a pattern all listen
\* to the same types) and the collector counts it, before any tree sees it.
ReadEvent ==
    /\ phase = "idle"
    /\ Len(stream) < MaxEvents
    /\ \E n \in Used, v \in Val, gap \in 0..MaxGap :
        LET e == [type |-> TypeOf[n], val |-> v,
                  ts |-> IF stream = <<>> THEN 0 ELSE Now + gap]
            live == LiveArrivals(Append(arrivals, Newest + 1), e)
        IN  /\ stream' = Append(stream, e)
            /\ arrivals' = live
            /\ rates' = RatesAfter(e, live)
    /\ phase' = "counted"
    /\ UNCHANGED <<setup, tree, newTree, updateTime, replay, lastMatches,
                   refreshed, planned, output>>

\* _should_try_reoptimize of the two mechanisms
RefreshDue ==
    /\ newTree = NoTree
    /\ refreshed = Never \/ Now - refreshed > UpdateWindow

KeepPlan ==
    /\ phase = "counted"
    /\ ~ (RefreshDue /\ ShouldOptimize)
    /\ phase' = "playing"
    /\ refreshed' = IF RefreshDue THEN Now ELSE refreshed
    /\ UNCHANGED <<setup, stream, tree, newTree, updateTime, replay, lastMatches,
                   arrivals, rates, planned, output>>

\* __get_all_old_events: the storage of the first leaf of every type, merged
\* by timestamp, the leaves in their order among equal timestamps.
OldEventOrders ==
    LET first == {i \in DOMAIN tree.plan : \A j \in 1..(i - 1) :
                    TypeOf[tree.plan[j]] # TypeOf[tree.plan[i]]}
        old == UNION {tree.held[tree.plan[i]] : i \in first}
        place(e) == CHOOSE i \in first : e \in tree.held[tree.plan[i]]
        before(d, e) ==
            \/ stream[d].ts < stream[e].ts
            \/ /\ stream[d].ts = stream[e].ts
               /\ \/ place(d) < place(e)
                  \/ place(d) = place(e) /\ d < e
    IN  {s \in [1..Cardinality(old) -> old] :
            /\ ToSet(s) = old
            /\ \A i, j \in DOMAIN s : i < j => before(s[i], s[j])}

\* Trivial: the new tree takes over at once and is fed the old events.
ReplaceTree ==
    /\ phase = "counted"
    /\ setup.mechanism = "trivial"
    /\ RefreshDue /\ ShouldOptimize
    /\ planned' = rates
    /\ refreshed' = Now
    /\ replay' \in OldEventOrders
    /\ \E plan \in PlansFor(rates) : tree' = EmptyTree(plan)
    /\ phase' = "replaying"
    /\ UNCHANGED <<setup, stream, newTree, updateTime, lastMatches, arrivals,
                   rates, output>>

ReplayEvent ==
    /\ phase = "replaying"
    /\ replay # <<>>
    /\ tree' \in Played(tree, Head(replay))
    /\ replay' = Tail(replay)
    /\ UNCHANGED <<setup, stream, phase, newTree, updateTime, lastMatches,
                   refreshed, arrivals, rates, planned, output>>

\* Fault: what the replay has found is reported with the next event.
DiscardNothing ==
    /\ phase = "replaying"
    /\ replay = <<>>
    /\ phase' = "playing"
    /\ UNCHANGED <<setup, stream, tree, newTree, updateTime, replay, lastMatches,
                   refreshed, arrivals, rates, planned, output>>

\* What the replay has found is thrown away: it has been written before.
DiscardReplayed ==
    /\ phase = "replaying"
    /\ replay = <<>>
    /\ tree' = [tree EXCEPT !.ready = {}]
    /\ phase' = "playing"
    /\ UNCHANGED <<setup, stream, newTree, updateTime, replay, lastMatches,
                   refreshed, arrivals, rates, planned, output>>

\* Simultaneous: a new tree starts empty next to the old one.
StartSimultaneous ==
    /\ phase = "counted"
    /\ setup.mechanism = "simultaneous"
    /\ RefreshDue /\ ShouldOptimize
    /\ planned' = rates
    /\ refreshed' = Now
    /\ \E plan \in PlansFor(rates) : newTree' = EmptyTree(plan)
    /\ updateTime' = Now
    /\ phase' = "playing"
    /\ UNCHANGED <<setup, stream, tree, replay, lastMatches, arrivals, rates,
                   output>>

\* Fault: the switch comes with the first event one window after the update.
SwitchDueEarly == newTree # NoTree /\ Now - updateTime >= Window

\* The trees have run side by side for more than a window.
SwitchDue == newTree # NoTree /\ Now - updateTime > Window

\* Fault: while two trees run, the old one gets no more events.
PlayOnNewTreeOnly ==
    /\ phase = "playing"
    /\ newTree # NoTree /\ ~ SwitchDue
    /\ newTree' \in Played(newTree, Newest)
    /\ phase' = "collecting"
    /\ UNCHANGED <<setup, stream, tree, updateTime, replay, lastMatches,
                   refreshed, arrivals, rates, planned, output>>

\* _play_new_event_on_tree without a switch
PlayEvent ==
    /\ phase = "playing"
    /\ ~ SwitchDue
    /\ tree' \in Played(tree, Newest)
    /\ IF newTree = NoTree THEN UNCHANGED newTree
                           ELSE newTree' \in Played(newTree, Newest)
    /\ phase' = "collecting"
    /\ UNCHANGED <<setup, stream, updateTime, replay, lastMatches, refreshed,
                   arrivals, rates, planned, output>>

\* Both trees have played the event when the new one takes over.
PlayAndSwitch ==
    /\ phase = "playing"
    /\ SwitchDue
    /\ \E old \in Played(tree, Newest) : lastMatches' = LastMatchesOf(old)
    /\ tree' \in Played(newTree, Newest)
    /\ newTree' = NoTree
    /\ phase' = "collecting"
    /\ UNCHANGED <<setup, stream, updateTime, replay, refreshed, arrivals, rates,
                   planned, output>>

Reports(ms, source) == {[match |-> m, at |-> Newest, by |-> source] : m \in ms}

\* _get_matches: the tree in charge reports, a new tree next to it is emptied,
\* a tree that has just been replaced hands over its last matches.
CollectMatches ==
    /\ phase = "collecting"
    /\ output' = output \cup Reports(tree.ready, "tree")
        \cup Reports(lastMatches, "last")
    /\ tree' = [tree EXCEPT !.ready = {}]
    /\ newTree' = IF newTree = NoTree THEN NoTree ELSE [newTree EXCEPT !.ready = {}]
    /\ lastMatches' = {}
    /\ phase' = "idle"
    /\ UNCHANGED <<setup, stream, updateTime, replay, refreshed, arrivals, rates,
                   planned>>

\* The stream ends: _get_last_pending_matches, from the tree in charge.
Close ==
    /\ phase = "idle"
    /\ output' = output \cup Reports(LastMatchesOf(tree), "end")
    /\ phase' = "closed"
    /\ UNCHANGED <<setup, stream, tree, newTree, updateTime, replay, lastMatches,
                   refreshed, arrivals, rates, planned>>

Next ==
    \/ ReadEvent
    \/ KeepPlan
    \/ ReplaceTree
    \/ ReplayEvent
    \/ DiscardReplayed
    \/ StartSimultaneous
    \/ PlayEvent
    \/ PlayAndSwitch
    \/ CollectMatches
    \/ Close

Spec == Init /\ [][Next]_vars
=============================================================================
