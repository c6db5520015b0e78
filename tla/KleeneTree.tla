----------------------------- MODULE KleeneTree -----------------------------
(***************************************************************************)
(* A Kleene closure KC(b) over a leaf, alone or joined with one more event *)
(* c by a SEQ or an AND node (KleeneClosureNode, AggregatedEvent,          *)
(* UnaryNode, KCCondition; leaf and join as in EvalTree).                  *)
(*                                                                         *)
(* Every event of the closure's leaf makes the closure node build all sets *)
(* of stored events that contain it.  A set goes up the tree as one event, *)
(* an aggregated event, with the timestamps of its first and last member   *)
(* and a serial number taken from the global event counter.  Each set is   *)
(* propagated to the end before the next one is looked at.                 *)
(***************************************************************************)
EXTENDS Integers, Sequences, FiniteSets, Bags, FiniteSetsExt, SequencesExt

CONSTANTS
    Setup,              \* the patterns to run, see SetupAssumption
    Window,             \* the time window of the pattern
    CleanUpInterval,    \* additions to a storage between two cleanups of it
    MaxEvents,          \* bound: events in the stream
    MaxGap              \* bound: time between consecutive events

NoLimit == 0        \* max_size is None
NoIndex == -1       \* index of a KCValueCondition is None

\* A pattern: the operator over the closure ("none" if it is the root), which
\* place c has in it, the size limits and the conditions of the closure, and
\* the attribute values of the stream (one is enough without conditions).
ASSUME SetupAssumption ==
    \A s \in Setup :
        /\ s.operator \in {"none", "SEQ", "AND"}
        /\ s.partner \in {"first", "last"}
        /\ s.min \in Nat \ {0}
        /\ s.max \in Nat /\ (s.max = NoLimit \/ s.max >= s.min)
        /\ \A c \in s.conditions :
            \/ c.kind = "index" /\ c.first \in Int /\ c.second \in Int
            \/ c.kind = "offset" /\ c.offset \in Int
            \/ c.kind = "value" /\ c.index \in Int

ASSUME BoundAssumption ==
    /\ CleanUpInterval \in Nat \ {0}
    /\ MaxEvents \in Nat /\ MaxGap \in Nat /\ Window \in Nat

VARIABLES
    setup,          \* the pattern
    stream,         \* the events read so far; an event is its position here
    phase,          \* "idle", "closure" or "join": who handles the newest event
    members,        \* the events stored by the closure's leaf
    memberAccess,   \* additions to it since a cleanup
    sets,           \* member sets built by the closure and not yet propagated
    closures,       \* the partial matches of the closure node
    closureAccess,
    partners,       \* the partial matches of the leaf of c
    partnerAccess,
    matches         \* the bag of the full matches found so far

vars == <<setup, stream, phase, members, memberAccess, sets, closures,
          closureAccess, partners, partnerAccess, matches>>

Newest == Len(stream)
Ts(e) == stream[e].ts
Joined == setup.operator # "none"

Init ==
    /\ setup \in Setup
    /\ stream = <<>>
    /\ phase = "idle"
    /\ members = {} /\ memberAccess = 0
    /\ sets = {}
    /\ closures = {} /\ closureAccess = 0
    /\ partners = {} /\ partnerAccess = 0
    /\ matches = EmptyBag

-----------------------------------------------------------------------------
(* KCCondition: conditions on the list of the members of a closure *)

\* Two items of the list at fixed places (counted from 0), an item and the one
\* an offset away, every item or the one at a place and a constant.
IndexCondition(first, second, relation) ==
    [kind |-> "index", first |-> first, second |-> second, relation |-> relation]
OffsetCondition(offset, relation) ==
    [kind |-> "offset", offset |-> offset, relation |-> relation]
ValueCondition(index, value, relation) ==
    [kind |-> "value", index |-> index, value |-> value, relation |-> relation]

ValidIndex(i, list) == 0 <= i /\ i < Len(list)

Item(list, i) == stream[list[i + 1]].val

EvalByIndex(c, list) ==
    /\ ValidIndex(c.first, list) /\ ValidIndex(c.second, list)
    /\ <<Item(list, c.first), Item(list, c.second)>> \in c.relation

\* A list no longer than the offset fails, unless the offset is negative.
EvalByOffset(c, list) ==
    /\ c.offset < Len(list)
    /\ \A i \in 0..(Len(list) - 1) :
        ValidIndex(i + c.offset, list) =>
            <<Item(list, i), Item(list, i + c.offset)>> \in c.relation

EvalValue(c, list) ==
    IF c.index = NoIndex
    THEN \A i \in 0..(Len(list) - 1) : <<Item(list, i), c.value>> \in c.relation
    ELSE ValidIndex(c.index, list) /\ <<Item(list, c.index), c.value>> \in c.relation

EvalKC(c, list) ==
    CASE c.kind = "index"  -> EvalByIndex(c, list)
      [] c.kind = "offset" -> EvalByOffset(c, list)
      [] c.kind = "value"  -> EvalValue(c, list)

-----------------------------------------------------------------------------
(* AggregatedEvent *)

\* The aggregated event of a set of members, built while the newest event is
\* evaluated: its serial number is the value of the global counter, which is
\* the number the next primitive event will get.
Aggregate(s) ==
    [events |-> [i \in 1..Cardinality(s) |->
                    CHOOSE e \in s : Cardinality({d \in s : d < e}) = i - 1],
     id     |-> Newest + 1]

FirstOf(a) == Ts(a.events[1])
LastOf(a) == Ts(a.events[Len(a.events)])

\* A primitive event as the join sees it.
Primitive(e) == [events |-> <<e>>, id |-> e]

-----------------------------------------------------------------------------
(* Storages *)

Due(access) == access >= CleanUpInterval

CleanAccess(access) == IF Due(access) THEN 0 ELSE access

LiveMembers(ms, access, t) ==
    IF Due(access) THEN {e \in ms : Ts(e) >= t - Window} ELSE ms

Live(as, access, t) ==
    IF Due(access) THEN {a \in as : FirstOf(a) >= t - Window} ELSE as

-----------------------------------------------------------------------------

ReadEvent ==
    /\ phase = "idle"
    /\ Len(stream) < MaxEvents
    /\ \E type \in {"B", "C"}, gap \in 0..MaxGap, val \in setup.values :
        /\ stream' = Append(stream, [type |-> type, val |-> val,
                ts |-> IF stream = <<>> THEN 0 ELSE Ts(Newest) + gap])
        /\ phase' = CASE type = "B" -> "closure"
                      [] type = "C" /\ Joined -> "join"
                      [] OTHER -> "idle"
    /\ UNCHANGED <<setup, members, memberAccess, sets, closures, closureAccess,
                   partners, partnerAccess, matches>>

WithinLimits(n) == n >= setup.min /\ (setup.max # NoLimit => n <= setup.max)

\* Fault: the newest member is not forced into the sets.
PowersetOfAll(ms) == {s \in SUBSET ms : WithinLimits(Cardinality(s))}

\* __create_child_matches_powerset: the sets that contain the last of the stored
\* members, which is taken to be the one that has just arrived.  They are stored
\* in the order of arrival, and numbered in it.
Powerset(ms) ==
    {r \cup {Max(ms)} : r \in {q \in SUBSET (ms \ {Max(ms)}) : WithinLimits(Cardinality(q) + 1)}}

\* The leaf cleans itself and adds the event; the closure node then cleans the
\* leaf again and builds its sets.
HandleMember ==
    /\ phase = "closure"
    /\ sets = {}
    /\ Newest \notin members
    /\ LET t == Ts(Newest)
           added == LiveMembers(members, memberAccess, t) \cup {Newest}
           access == CleanAccess(memberAccess) + 1
           live == LiveMembers(added, access, t)
       IN  /\ members' = live
           /\ memberAccess' = CleanAccess(access)
           /\ sets' = Powerset(live)
           /\ phase' = IF sets' = {} THEN "idle" ELSE phase
    /\ UNCHANGED <<setup, stream, closures, closureAccess, partners,
                   partnerAccess, matches>>

\* KleeneClosureNode._validate_new_match
ValidClosure(a) ==
    /\ LastOf(a) - FirstOf(a) <= Window
    /\ \A c \in setup.conditions : EvalKC(c, a.events)

\* Fault: a sequence compares the first timestamps only.
ValidJoinByStart(a, c) ==
    /\ IF LastOf(a) > LastOf(c) THEN LastOf(a) - FirstOf(c) <= Window
                                ELSE LastOf(c) - FirstOf(a) <= Window
    /\ a.id # c.id
    /\ setup.operator = "SEQ" =>
        IF setup.partner = "first" THEN FirstOf(c) <= FirstOf(a)
                                   ELSE FirstOf(a) <= FirstOf(c)

\* The join of aggregate a and event c is valid: within the window, two
\* different serial numbers, in a sequence sorted by both timestamps.
ValidJoin(a, c) ==
    /\ IF LastOf(a) > LastOf(c) THEN LastOf(a) - FirstOf(c) <= Window
                                ELSE LastOf(c) - FirstOf(a) <= Window
    /\ LastOf(a) - FirstOf(a) <= Window
    /\ a.id # c.id
    /\ setup.operator = "SEQ" =>
        IF setup.partner = "first"
        THEN FirstOf(c) <= FirstOf(a) /\ LastOf(c) <= LastOf(a)
        ELSE FirstOf(a) <= FirstOf(c) /\ LastOf(a) <= LastOf(c)

Match(a, cs) == [closure |-> ToSet(a.events), partner |-> cs]

Found(ms) == matches (+) SetToBag(ms)

\* powerset_generator: large sets first, sets of one size in the order of the
\* stored events.
Before(s, t) ==
    \/ Cardinality(s) > Cardinality(t)
    \/ /\ Cardinality(s) = Cardinality(t)
       /\ Min((s \ t) \cup (t \ s)) \in s

\* The closure node validates one of its sets, adds it, and hands it to the
\* join, which cleans the leaf of c and itself and joins; a closure at the
\* root is a full match.
PropagateSet ==
    /\ phase = "closure"
    /\ \E s \in sets :
        LET a == Aggregate(s)
            live == Live(partners, partnerAccess, LastOf(a))
        IN  /\ \A t \in sets \ {s} : Before(s, t)
            /\ sets' = sets \ {s}
            /\ phase' = IF sets' = {} THEN "idle" ELSE phase
            /\ IF ~ ValidClosure(a)
               THEN UNCHANGED <<closures, closureAccess, partners, partnerAccess,
                                matches>>
               ELSE /\ closures' = closures \cup {a}
                    /\ closureAccess' = closureAccess + 1
                    /\ IF ~ Joined
                       THEN /\ matches' = Found({Match(a, {})})
                            /\ UNCHANGED <<partners, partnerAccess>>
                       ELSE /\ partners' = live
                            /\ partnerAccess' = CleanAccess(partnerAccess)
                            /\ matches' = Found({Match(a, ToSet(c.events)) :
                                        c \in {d \in live : ValidJoin(a, d)}})
    /\ UNCHANGED <<setup, stream, members, memberAccess>>

\* The leaf of c takes the event; the join cleans the closure node and joins
\* the event with everything it stores.
HandlePartner ==
    /\ phase = "join"
    /\ LET c == Primitive(Newest)
           live == Live(closures, closureAccess, Ts(Newest))
       IN  /\ partners' = Live(partners, partnerAccess, Ts(Newest)) \cup {c}
           /\ partnerAccess' = CleanAccess(partnerAccess) + 1
           /\ closures' = live
           /\ closureAccess' = CleanAccess(closureAccess)
           /\ matches' = Found({Match(a, {Newest}) :
                                a \in {b \in live : ValidJoin(b, c)}})
    /\ phase' = "idle"
    /\ UNCHANGED <<setup, stream, members, memberAccess, sets>>

Next == ReadEvent \/ HandleMember \/ PropagateSet \/ HandlePartner

Spec == Init /\ [][Next]_vars
=============================================================================
