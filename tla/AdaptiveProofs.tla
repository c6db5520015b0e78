--------------------------- MODULE AdaptiveProofs ---------------------------
(***************************************************************************)
(* Proofs about AdaptiveTree, for every pattern, window, configuration and *)
(* stream.                                                                 *)
(*                                                                         *)
(* NoMatchReportedTwice: a match is reported at its newest event.  The     *)
(* tree in charge has nothing ready when an event is played on it, because *)
(* the mechanisms throw away what a replay or a tree that runs alongside   *)
(* has found (ReadyInv); what is then ready contains the event.            *)
(*                                                                         *)
(* ReplacementIsExact: the tree in charge holds every event that is not    *)
(* older than a window (CoverInv).  In a replay such an event is either on *)
(* the tree or still to be replayed; a tree that runs alongside has every  *)
(* event that came after it started, which are all that are live when the  *)
(* switch is due, and that is why the switch waits for more than a window  *)
(* (NewCoverInv).                                                          *)
(*                                                                         *)
(* NoPendingMatchLost: a match no event prevents is reported, pending or   *)
(* ready on the tree in charge, or among the last matches of the old one   *)
(* (PendingInv).  DiscardsNothingNew: a replay finds no match that has the *)
(* event being evaluated, and a tree alongside finds only matches of the   *)
(* stream (DiscardInv).                                                    *)
(*                                                                         *)
(* RatesAreOfTheWindow: the arrivals are remembered in their order, so the *)
(* live ones are a suffix of them (ArrivalsInv).                           *)
(***************************************************************************)
EXTENDS AdaptiveProperties, SequenceTheorems, FiniteSetTheorems,
        WellFoundedInduction, TLAPS

EventIds == 1..Newest

\* A tree whose plan orders the names of the pattern and whose leaves hold
\* events of the stream that they accept.
IsPlan(p) == p \in [DOMAIN Order -> Used] /\ ToSet(p) = Used

IsTree(t) ==
    /\ t = [plan |-> t.plan, held |-> t.held, pending |-> t.pending, ready |-> t.ready]
    /\ IsPlan(t.plan)
    /\ t.held \in [Name -> SUBSET EventIds]
    /\ \A n \in Name : t.held[n] \subseteq Accepted(n)

\* Match m is complete, its newest event is e.
CompletedBy(m, e) == e \in EventsOf(m) /\ \A d \in EventsOf(m) : d \in Nat /\ d <= e

ControlInv ==
    /\ stream \in Seq(Event)
    /\ phase \in {"idle", "counted", "replaying", "playing", "collecting", "closed"}
    /\ phase \in {"counted", "replaying", "playing", "collecting"} => stream # <<>>
    /\ replay \in Seq(EventIds)

TreeInv == IsTree(tree) /\ (newTree # NoTree => IsTree(newTree))

ReadyInv ==
    ~ setup.negated =>
        /\ lastMatches = {}
        /\ phase \in {"idle", "counted", "playing", "closed"} => tree.ready = {}
        /\ phase # "collecting" /\ newTree # NoTree => newTree.ready = {}
        /\ phase = "collecting" => \A m \in tree.ready : CompletedBy(m, Newest)

OutputInv ==
    ~ setup.negated =>
        \A r \in output : /\ r = [match |-> r.match, at |-> r.at, by |-> "tree"]
                          /\ CompletedBy(r.match, r.at)

\* The inductive invariant.
IInv == ControlInv /\ TreeInv /\ ReadyInv /\ OutputInv

-----------------------------------------------------------------------------

\* What playing an event changes of a tree.
LEMMA PlayedShape ==
    ASSUME NEW tr, IsTree(tr), NEW e, NEW t \in Played(tr, e)
    PROVE  \E due \in SUBSET ToSet(tr.plan) :
                /\ t = [plan |-> tr.plan, held |-> HeldAfter(tr, e, due),
                        pending |-> t.pending, ready |-> t.ready]
                /\ ~ setup.negated =>
                    t.ready = tr.ready \cup {m \in Completed(t.held) : e \in EventsOf(m)}
<1>1. PICK due \in SUBSET {n \in ToSet(tr.plan) :
                            \E d \in tr.held[n] : stream[d].ts < stream[e].ts - Window} :
        LET held == HeldAfter(tr, e, due)
            new == {m \in Completed(held) : e \in EventsOf(m)}
            open == {m \in new : \A d \in held[Negated] : ~ Prevents(m, d)}
            flushed == IF new = {} THEN {}
                       ELSE {m \in tr.pending : Expired(m, stream[e].ts)}
            kept == IF Negated \in Takers(tr, e)
                    THEN {m \in tr.pending : ~ Prevents(m, e)}
                    ELSE tr.pending \ flushed
        IN  t = [tr EXCEPT
                    !.held = held,
                    !.pending = IF setup.negated THEN kept \cup open ELSE {},
                    !.ready = @ \cup IF setup.negated THEN flushed ELSE new]
  BY DEF Played
<1>2. t = [plan |-> tr.plan, held |-> HeldAfter(tr, e, due),
           pending |-> t.pending, ready |-> t.ready]
  BY <1>1 DEF IsTree
<1>3. ~ setup.negated =>
        t.ready = tr.ready \cup {m \in Completed(t.held) : e \in EventsOf(m)}
  BY <1>1, <1>2 DEF IsTree
<1> QED
  BY <1>2, <1>3

\* Playing an event on a tree leaves a tree; without negation it adds to what
\* is ready only matches that contain the event.
LEMMA PlayedTree ==
    ASSUME stream \in Seq(Event), NEW tr, IsTree(tr), NEW e \in EventIds,
           NEW t \in Played(tr, e)
    PROVE  /\ IsTree(t)
           /\ ~ setup.negated => \A m \in t.ready :
                m \in tr.ready \/ (e \in EventsOf(m) /\ EventsOf(m) \subseteq EventIds)
<1>1. PICK due \in SUBSET ToSet(tr.plan) :
        /\ t = [plan |-> tr.plan, held |-> HeldAfter(tr, e, due),
                pending |-> t.pending, ready |-> t.ready]
        /\ ~ setup.negated =>
            t.ready = tr.ready \cup {m \in Completed(t.held) : e \in EventsOf(m)}
  BY PlayedShape
<1>2. t.held = HeldAfter(tr, e, due) /\ t.plan = tr.plan
  BY <1>1
<1>3. /\ t.held \in [Name -> SUBSET EventIds]
      /\ \A n \in Name : t.held[n] \subseteq Accepted(n)
  BY <1>2 DEF HeldAfter, IsTree, Takers, Accepted, EventIds
<1>4. IsTree(t)
  BY <1>1, <1>2, <1>3 DEF IsTree
<1>5. ASSUME NEW m \in Completed(t.held)
      PROVE  EventsOf(m) \subseteq EventIds
  <2>1. /\ DOMAIN m = Positive
        /\ \A n \in Positive : m[n] \in t.held[n]
    BY DEF Completed
  <2>2. Positive \subseteq Name
    BY DEF Name
  <2> QED
    BY <1>3, <2>1, <2>2 DEF EventsOf
<1> QED
  BY <1>1, <1>4, <1>5

\* A tree stays one when the stream grows.
LEMMA TreeExtends ==
    ASSUME stream \in Seq(Event), NEW e, stream' = Append(stream, e), setup' = setup,
           NEW t, IsTree(t)
    PROVE  IsTree(t)'
<1>1. EventIds \subseteq EventIds' /\ \A d \in EventIds : stream'[d] = stream[d]
  BY DEF EventIds, Newest
<1>2. \A n : Accepted(n) \subseteq Accepted(n)'
  BY <1>1 DEF Accepted, EventIds
<1> QED
  BY <1>1, <1>2 DEF IsTree, IsPlan, Used, Order

LEMMA EmptyTreeIsTree ==
    ASSUME NEW plan, IsPlan(plan)
    PROVE  IsTree(EmptyTree(plan)) /\ EmptyTree(plan).ready = {}
BY DEF EmptyTree, IsTree

\* The first plan, and those the optimizer builds.
LEMMA OrderIsPlan == Order \in Seq(Used) /\ IsPlan(Order)
<1>1. CASE setup.negated
  <2>1. Order = Append(PatternOrder, Negated) /\ Used = Positive \cup {Negated}
    BY <1>1 DEF Order, Used, Name
  <2>2. /\ Order \in Seq(Used)
        /\ DOMAIN Order = 1..(Len(PatternOrder) + 1)
        /\ Order[Len(PatternOrder) + 1] = Negated
        /\ \A i \in 1..Len(PatternOrder) : Order[i] = PatternOrder[i]
        /\ DOMAIN PatternOrder = 1..Len(PatternOrder)
    BY <2>1, PatternAssumption
  <2>3. Len(PatternOrder) \in Nat
    BY PatternAssumption
  <2>4. ToSet(Order) = Used
    BY <2>1, <2>2, <2>3, PatternAssumption DEF ToSet
  <2> QED
    BY <2>2, <2>4, SeqDef DEF IsPlan
<1>2. CASE ~ setup.negated
  BY <1>2, PatternAssumption DEF Order, Used, IsPlan
<1> QED
  BY <1>1, <1>2

LEMMA PlansForArePlans == \A plan \in PlansFor(rates) : IsPlan(plan)
BY DEF PlansFor, IsPlan

LEMMA NewestIsEvent ==
    ASSUME stream \in Seq(Event), stream # <<>>
    PROVE  Newest \in EventIds
BY EmptySeq, LenProperties DEF Newest, EventIds
LEMMA EventTypes ==
    ASSUME stream \in Seq(Event)
    PROVE  /\ Newest \in Nat
           /\ \A d \in EventIds : d \in Nat /\ stream[d] \in Event /\ stream[d].ts \in Nat
           /\ stream # <<>> => Newest \in EventIds /\ Now \in Nat
<1>1. Newest \in Nat
  BY DEF Newest
<1>2. \A d \in EventIds : d \in Nat /\ stream[d] \in Event
  BY <1>1, ElementOfSeq DEF EventIds, Newest
<1> QED
  BY <1>1, <1>2, NewestIsEvent DEF Event, Now

-----------------------------------------------------------------------------
(* Every step *)

LEMMA InitInv == Init => IInv
<1> SUFFICES ASSUME Init PROVE IInv
  OBVIOUS
<1>1. ControlInv
  BY EmptySeq DEF Init, ControlInv
<1>2. TreeInv /\ tree.ready = {}
  BY OrderIsPlan, EmptyTreeIsTree DEF Init, TreeInv
<1> QED
  BY <1>1, <1>2 DEF Init, IInv, ReadyInv, OutputInv

\* The event that is read comes at the end and is no older than what is there.
LEMMA ReadEventAppends ==
    ASSUME ControlInv, ReadEvent
    PROVE  \E e \in Event : stream' = Append(stream, e) /\ (stream # <<>> => e.ts >= Now)
<1>1. PICK n \in Used, v \in Val, gap \in 0..MaxGap :
          stream' = Append(stream, [type |-> TypeOf[n], val |-> v,
                                    ts |-> IF stream = <<>> THEN 0 ELSE Now + gap])
  BY DEF ReadEvent
<1>2. Used \subseteq Name
  BY DEF Used, Name
<1>3. stream # <<>> => Now \in Nat
  <2> SUFFICES ASSUME stream # <<>> PROVE Now \in Nat
    OBVIOUS
  <2>1. Newest \in EventIds /\ Newest \in Nat /\ stream \in Seq(Event)
    BY NewestIsEvent DEF ControlInv, Newest
  <2>2. stream[Newest] \in Event
    BY <2>1, ElementOfSeq DEF EventIds, Newest
  <2> QED
    BY <2>2 DEF Now, Event
<1>4. /\ (IF stream = <<>> THEN 0 ELSE Now + gap) \in Nat
      /\ stream # <<>> => Now + gap >= Now
  BY <1>3, BoundAssumption
<1>5. TypeOf[n] \in {TypeOf[k] : k \in Name}
  BY <1>2
<1> QED
  BY <1>1, <1>4, <1>5 DEF Event

LEMMA ReadEventInv == IInv /\ ReadEvent => IInv'
<1> SUFFICES ASSUME IInv, ReadEvent PROVE IInv'
  OBVIOUS
<1> USE DEF IInv, ReadEvent
<1>1. PICK e : stream' = Append(stream, e) /\ e \in Event
  BY ReadEventAppends
<1>2. EventIds \subseteq EventIds'
  BY <1>1 DEF EventIds, Newest, ControlInv
<1>3. ControlInv'
  BY <1>1, <1>2, AppendProperties DEF ControlInv
<1>4. TreeInv'
  <2>1. stream \in Seq(Event)
    BY DEF ControlInv
  <2> QED
    BY <1>1, <2>1, TreeExtends DEF TreeInv
<1>5. ReadyInv' /\ OutputInv'
  BY DEF ReadyInv, OutputInv, CompletedBy, EventsOf
<1> QED
  BY <1>3, <1>4, <1>5

LEMMA KeepPlanInv == IInv /\ KeepPlan => IInv'
BY DEF IInv, KeepPlan, ControlInv, TreeInv, ReadyInv, OutputInv, IsTree, IsPlan, Used, Order, Accepted, EventIds,
       Newest, CompletedBy, EventsOf

LEMMA ReplaceTreeInv == IInv /\ ReplaceTree => IInv'
<1> SUFFICES ASSUME IInv, ReplaceTree PROVE IInv'
  OBVIOUS
<1> USE DEF IInv, ReplaceTree
<1>1. replay' \in Seq(EventIds)
  <2>1. PICK old \in SUBSET UNION {tree.held[n] : n \in Name} :
            replay' \in [1..Cardinality(old) -> old]
    <3>1. \A i \in DOMAIN tree.plan : tree.plan[i] \in Name
      BY DEF TreeInv, IsTree, IsPlan, Used, Name
    <3> QED
      BY <3>1 DEF OldEventOrders
  <2>2. old \subseteq EventIds
    BY <2>1 DEF TreeInv, IsTree
  <2>3. IsFiniteSet(EventIds)
    <3>1. Newest \in Int /\ 1 \in Int
      BY DEF Newest, ControlInv
    <3>2. IsFiniteSet(1..Newest)
      BY ONLY <3>1, FS_Interval
    <3> QED
      BY ONLY <3>2 DEF EventIds
  <2>4. Cardinality(old) \in Nat
    BY <2>2, <2>3, FS_Subset, FS_CardinalityType
  <2> QED
    BY <2>1, <2>2, <2>4, SeqDef
<1>2. ControlInv'
  BY <1>1 DEF ControlInv, EventIds, Newest
<1>3. PICK plan : IsPlan(plan) /\ tree' = EmptyTree(plan)
  BY PlansForArePlans
<1>4. TreeInv'
  BY <1>3, EmptyTreeIsTree DEF TreeInv, IsTree, IsPlan, Used, Order, Accepted, EventIds, Newest
<1>5. ReadyInv' /\ OutputInv'
  BY <1>3, EmptyTreeIsTree DEF ReadyInv, OutputInv, CompletedBy, EventsOf
<1> QED
  BY <1>2, <1>4, <1>5

LEMMA ReplayEventInv == IInv /\ ReplayEvent => IInv'
<1> SUFFICES ASSUME IInv, ReplayEvent PROVE IInv'
  OBVIOUS
<1> USE DEF IInv, ReplayEvent
<1>1. Head(replay) \in EventIds /\ Tail(replay) \in Seq(EventIds)
  BY HeadTailProperties DEF ControlInv
<1>2. IsTree(tree')
  BY <1>1, PlayedTree DEF ControlInv, TreeInv
<1> QED
  BY <1>1, <1>2 DEF ControlInv, TreeInv, ReadyInv, OutputInv, IsTree, IsPlan, Used, Order, Accepted, EventIds, Newest,
                    CompletedBy, EventsOf

LEMMA DiscardReplayedInv == IInv /\ DiscardReplayed => IInv'
<1> SUFFICES ASSUME IInv, DiscardReplayed PROVE IInv'
  OBVIOUS
<1> USE DEF IInv, DiscardReplayed
<1>1. IsTree(tree') /\ tree'.ready = {}
  BY DEF TreeInv, IsTree
<1> QED
  BY <1>1 DEF ControlInv, TreeInv, ReadyInv, OutputInv, IsTree, IsPlan, Used, Order, Accepted, EventIds, Newest,
              CompletedBy, EventsOf

LEMMA StartSimultaneousInv == IInv /\ StartSimultaneous => IInv'
<1> SUFFICES ASSUME IInv, StartSimultaneous PROVE IInv'
  OBVIOUS
<1> USE DEF IInv, StartSimultaneous
<1>1. IsTree(newTree') /\ newTree'.ready = {}
  BY PlansForArePlans, EmptyTreeIsTree
<1> QED
  BY <1>1 DEF ControlInv, TreeInv, ReadyInv, OutputInv, IsTree, IsPlan, Used, Order, Accepted, EventIds, Newest,
              CompletedBy, EventsOf

\* A tree with nothing ready plays the newest event.
LEMMA PlayedNewest ==
    ASSUME ControlInv, stream # <<>>, NEW tr, IsTree(tr), NEW t \in Played(tr, Newest)
    PROVE  /\ IsTree(t)
           /\ ~ setup.negated /\ tr.ready = {} => \A m \in t.ready : CompletedBy(m, Newest)
<1>1. Newest \in EventIds
  BY NewestIsEvent DEF ControlInv
<1>2. Newest \in Nat
  BY DEF ControlInv, Newest
<1>3. /\ IsTree(t)
      /\ ~ setup.negated => \A m \in t.ready :
            m \in tr.ready \/ (Newest \in EventsOf(m) /\ EventsOf(m) \subseteq EventIds)
  BY <1>1, PlayedTree DEF ControlInv
<1>4. \A d \in EventIds : d \in Nat /\ d <= Newest
  BY <1>2 DEF EventIds
<1> QED
  BY <1>3, <1>4 DEF CompletedBy

LEMMA PlayEventInv == IInv /\ PlayEvent => IInv'
<1> SUFFICES ASSUME IInv, PlayEvent PROVE IInv'
  OBVIOUS
<1> USE DEF IInv, PlayEvent
<1>1. stream # <<>> /\ IsTree(tree)
  BY DEF ControlInv, TreeInv
<1>2. /\ IsTree(tree')
      /\ ~ setup.negated => \A m \in tree'.ready : CompletedBy(m, Newest)
  BY <1>1, PlayedNewest DEF ReadyInv
<1>3. newTree' # NoTree => IsTree(newTree')
  BY <1>1, PlayedNewest DEF TreeInv
<1> QED
  BY <1>2, <1>3 DEF ControlInv, TreeInv, ReadyInv, OutputInv, IsTree, IsPlan, Used, Order, Accepted, EventIds, Newest,
                    CompletedBy, EventsOf

LEMMA PlayAndSwitchInv == IInv /\ PlayAndSwitch => IInv'
<1> SUFFICES ASSUME IInv, PlayAndSwitch PROVE IInv'
  OBVIOUS
<1> USE DEF IInv, PlayAndSwitch
<1>1. stream # <<>> /\ newTree # NoTree /\ IsTree(newTree)
  BY DEF ControlInv, TreeInv, SwitchDue
<1>2. /\ IsTree(tree')
      /\ ~ setup.negated => \A m \in tree'.ready : CompletedBy(m, Newest)
  BY <1>1, PlayedNewest DEF ReadyInv
<1>3. ~ setup.negated => lastMatches' = {}
  BY DEF LastMatchesOf
<1> QED
  BY <1>2, <1>3 DEF ControlInv, TreeInv, ReadyInv, OutputInv, IsTree, IsPlan, Used, Order, Accepted, EventIds, Newest,
                    CompletedBy, EventsOf

LEMMA CollectMatchesInv == IInv /\ CollectMatches => IInv'
<1> SUFFICES ASSUME IInv, CollectMatches PROVE IInv'
  OBVIOUS
<1> USE DEF IInv, CollectMatches
<1>1. IsTree(tree') /\ tree'.ready = {}
  BY DEF TreeInv, IsTree
<1>2. newTree' # NoTree => IsTree(newTree') /\ newTree'.ready = {}
  BY DEF TreeInv, IsTree
<1>3. OutputInv'
  <2> SUFFICES ASSUME ~ setup.negated, NEW r \in output'
               PROVE  /\ r = [match |-> r.match, at |-> r.at, by |-> "tree"]
                      /\ CompletedBy(r.match, r.at)
    BY DEF OutputInv, CompletedBy, EventsOf
  <2>1. r \in output \/ r \in Reports(tree.ready, "tree")
    BY DEF ReadyInv, Reports
  <2> QED
    BY <2>1 DEF OutputInv, ReadyInv, Reports
<1> QED
  BY <1>1, <1>2, <1>3 DEF ControlInv, TreeInv, ReadyInv, IsTree, IsPlan, Used, Order, Accepted, EventIds, Newest

LEMMA CloseInv == IInv /\ Close => IInv'
<1> SUFFICES ASSUME IInv, Close PROVE IInv'
  OBVIOUS
<1> USE DEF IInv, Close
<1>1. ~ setup.negated => output' = output
  BY DEF LastMatchesOf, Reports
<1> QED
  BY <1>1 DEF ControlInv, TreeInv, ReadyInv, OutputInv, IsTree, IsPlan, Used, Order, Accepted, EventIds, Newest,
              CompletedBy, EventsOf

LEMMA NextInv == IInv /\ [Next]_vars => IInv'
<1> SUFFICES ASSUME IInv, [Next]_vars PROVE IInv'
  OBVIOUS
<1>1. CASE UNCHANGED vars
  BY <1>1 DEF vars, IInv, ControlInv, TreeInv, ReadyInv, OutputInv, IsTree, IsPlan, Used, Order, Accepted, EventIds,
              Newest, CompletedBy, EventsOf
<1> QED
  BY <1>1, ReadEventInv, KeepPlanInv, ReplaceTreeInv, ReplayEventInv, DiscardReplayedInv,
     StartSimultaneousInv, PlayEventInv, PlayAndSwitchInv, CollectMatchesInv, CloseInv
     DEF Next

\* The invariant and its parts, for every reachable state.
THEOREM Invariance == Spec => []IInv
BY InitInv, NextInv, PTL DEF Spec

\* Two reports of one match are one report: each was made when the newest
\* event of the match was collected, by the tree in charge.
LEMMA OnceByInvariant == IInv => ReportedOnce
<1> SUFFICES ASSUME IInv, ~ setup.negated, NEW r \in output, NEW s \in output,
                    r.match = s.match
             PROVE  r = s
  BY DEF ReportedOnce
<1>1. /\ r = [match |-> r.match, at |-> r.at, by |-> "tree"]
      /\ s = [match |-> s.match, at |-> s.at, by |-> "tree"]
      /\ CompletedBy(r.match, r.at)
      /\ CompletedBy(s.match, s.at)
  BY DEF IInv, OutputInv
<1>2. r.at = s.at
  BY <1>1 DEF CompletedBy
<1> QED
  BY <1>1, <1>2

\* No match of a pattern without negation is written to the output twice,
\* however often the tree is replaced (_tree_update, _get_matches).
THEOREM NoMatchReportedTwice == Spec => []ReportedOnce
BY Invariance, OnceByInvariant, PTL

-----------------------------------------------------------------------------
(* What is reported is complete                                            *)

Live(d) == stream[d].ts >= Now - Window

\* The leaves of t hold every event they accept among the first k that is still
\* live and came after the time given.
Covers(t, k, time) ==
    \A n \in Positive : \A d \in Accepted(n) :
        d <= k /\ Live(d) /\ stream[d].ts > time => d \in t.held[n]

WithNewest(ms) == {m \in ms : Newest \in EventsOf(m)}

TimeInv ==
    /\ \A d, e \in EventIds : d <= e => stream[d].ts <= stream[e].ts
    /\ updateTime \in Int

CoverInv ==
    /\ phase \in {"counted", "playing"} => Covers(tree, Newest - 1, Never)
    /\ phase = "replaying" =>
        \A n \in Positive : \A d \in Accepted(n) :
            d <= Newest - 1 /\ Live(d) => d \in tree.held[n] \/ d \in ToSet(replay)
    /\ phase \in {"idle", "collecting"} => Covers(tree, Newest, Never)

\* A new tree that runs alongside has the events that came after its start.
NewCoverInv ==
    newTree # NoTree =>
        /\ phase \in {"counted", "replaying", "playing"} =>
            Covers(newTree, Newest - 1, updateTime)
        /\ phase \in {"idle", "collecting"} => Covers(newTree, Newest, updateTime)

ReportInv ==
    /\ phase = "collecting" => tree.ready = WithNewest(Matches)
    /\ Settled => Reported = Matches
    /\ ~ Settled => Reported = Matches \ WithNewest(Matches)

ExactInv ==
    /\ TimeInv
    /\ ReplaySafe => CoverInv /\ NewCoverInv
    /\ ~ setup.negated /\ ReplaySafe => ReportInv

\* Leaves that hold more complete more.
LEMMA CompletedMonotone ==
    ASSUME NEW H, NEW G, \A n \in Positive : H[n] \subseteq G[n]
    PROVE  Completed(H) \subseteq Completed(G)
<1> SUFFICES ASSUME NEW m \in Completed(H) PROVE m \in Completed(G)
  OBVIOUS
<1>1. m \in [Positive -> UNION {H[n] : n \in Positive}]
  BY DEF Completed
<1>2. \A n \in Positive : m[n] \in G[n]
  BY DEF Completed
<1>3. m \in [Positive -> UNION {G[n] : n \in Positive}]
  BY <1>1, <1>2
<1> QED
  BY <1>2, <1>3 DEF Completed

\* What a tree holds and reports after playing an event.
LEMMA PlayedHolds ==
    ASSUME stream \in Seq(Event), TimeInv, NEW tr, IsTree(tr), NEW e \in EventIds,
           NEW t \in Played(tr, e)
    PROVE  /\ IsTree(t)
           /\ \A n \in Positive : \A d \in Accepted(n) :
                (Live(d) /\ d \in tr.held[n]) \/ d = e => d \in t.held[n]
           /\ ~ setup.negated =>
                t.ready = tr.ready \cup {m \in Completed(t.held) : e \in EventsOf(m)}
<1>1. PICK due \in SUBSET ToSet(tr.plan) :
        /\ t = [plan |-> tr.plan, held |-> HeldAfter(tr, e, due),
                pending |-> t.pending, ready |-> t.ready]
        /\ ~ setup.negated =>
            t.ready = tr.ready \cup {m \in Completed(t.held) : e \in EventsOf(m)}
  BY PlayedShape
<1>2. t.held = HeldAfter(tr, e, due)
  BY <1>1
<1>4. ASSUME NEW n \in Positive, NEW d \in Accepted(n),
             (Live(d) /\ d \in tr.held[n]) \/ d = e
      PROVE  d \in t.held[n]
  <2>1. n \in Name /\ n \in ToSet(tr.plan)
    BY DEF Name, IsTree, IsPlan, Used
  <2>2. CASE d = e
    BY <1>2, <2>1, <2>2 DEF HeldAfter, Takers, Accepted
  <2>3. CASE Live(d) /\ d \in tr.held[n]
    <3>1. stream # <<>> /\ d \in EventIds /\ Newest \in EventIds
      BY EventTypes DEF Accepted, EventIds, Newest
    <3>2. stream[e].ts <= Now
      BY <3>1 DEF TimeInv, Now, EventIds
    <3>3. stream[d].ts >= stream[e].ts - Window
      BY <2>3, <3>1, <3>2, EventTypes, WindowAssumption DEF Live
    <3> QED
      BY <1>2, <2>1, <2>3, <3>3 DEF HeldAfter
  <2> QED
    BY <1>4, <2>2, <2>3
<1> QED
  BY <1>1, <1>4, PlayedTree

\* A tree with all live events of the stream, or of the last window of it, has
\* what the newest event completes.
LEMMA NewestCompletes ==
    ASSUME stream \in Seq(Event), stream # <<>>, NEW t, IsTree(t), NEW time \in Int,
           Covers(t, Newest, time), time = Never \/ Now - time > Window
    PROVE  WithNewest(Completed(t.held)) = WithNewest(Matches)
<1> DEFINE G == [n \in Name |-> Accepted(n)]
<1>1. \A n \in Positive : n \in Name /\ t.held[n] \subseteq G[n]
  BY DEF IsTree, Name
<1>2. Completed(t.held) \subseteq Matches
  BY <1>1, CompletedMonotone DEF Matches
<1>3. ASSUME NEW m \in Matches, Newest \in EventsOf(m)
      PROVE  m \in Completed(t.held)
  <2>1. /\ m \in [Positive -> UNION {G[n] : n \in Positive}]
        /\ \A n \in Positive : m[n] \in Accepted(n)
        /\ \A k, l \in Positive :
            /\ stream[m[k]].ts - stream[m[l]].ts <= Window
            /\ k # l => m[k] # m[l]
            /\ <<k, l>> \in Precedes => stream[m[k]].ts <= stream[m[l]].ts
    BY <1>1 DEF Matches, Completed
  <2>2. PICK k \in Positive : m[k] = Newest
    BY <1>3, <2>1 DEF EventsOf
  <2>3. ASSUME NEW n \in Positive
        PROVE  m[n] \in t.held[n]
    <3>1. m[n] \in Accepted(n) /\ m[n] \in EventIds /\ m[n] <= Newest
      BY <2>1, EventTypes DEF Accepted, EventIds
    <3>2. Now - stream[m[n]].ts <= Window
      BY <2>1, <2>2 DEF Now
    <3>3. Live(m[n]) /\ stream[m[n]].ts > time
      BY <3>1, <3>2, EventTypes, WindowAssumption DEF Live, Never
    <3> QED
      BY <3>1, <3>3 DEF Covers
  <2>4. m \in [Positive -> UNION {t.held[n] : n \in Positive}]
    BY <2>1, <2>3
  <2> QED
    BY <2>1, <2>3, <2>4 DEF Completed
<1> QED
  BY <1>2, <1>3 DEF WithNewest

\* A tree that covers the stream up to the newest event and plays it.
LEMMA PlayedNewestCovers ==
    ASSUME stream \in Seq(Event), stream # <<>>, TimeInv, NEW tr, IsTree(tr),
           NEW t \in Played(tr, Newest), NEW time \in Int, Covers(tr, Newest - 1, time)
    PROVE  /\ IsTree(t)
           /\ Covers(t, Newest, time)
           /\ /\ ~ setup.negated /\ tr.ready = {}
              /\ time = Never \/ Now - time > Window
              => t.ready = WithNewest(Matches)
<1>1. Newest \in EventIds
  BY EventTypes
<1>2. /\ IsTree(t)
      /\ \A n \in Positive : \A d \in Accepted(n) :
            (Live(d) /\ d \in tr.held[n]) \/ d = Newest => d \in t.held[n]
      /\ ~ setup.negated =>
            t.ready = tr.ready \cup {m \in Completed(t.held) : Newest \in EventsOf(m)}
  BY <1>1, PlayedHolds
<1>3. \A n \in Positive : \A d \in Accepted(n) : d <= Newest => d <= Newest - 1 \/ d = Newest
  BY EventTypes DEF Accepted, EventIds
<1>4. Covers(t, Newest, time)
  BY <1>2, <1>3 DEF Covers
<1>5. time = Never \/ Now - time > Window
        => WithNewest(Completed(t.held)) = WithNewest(Matches)
  BY <1>2, <1>4, NewestCompletes
<1> QED
  BY <1>2, <1>4, <1>5 DEF WithNewest
\* One more event: what was there keeps its place, its acceptance and its order.
LEMMA StreamGrows ==
    ASSUME stream \in Seq(Event), NEW e \in Event, stream' = Append(stream, e),
           stream # <<>> => e.ts >= Now, setup' = setup
    PROVE  /\ Newest' = Newest + 1
           /\ \A d \in EventIds' : d \in EventIds \/ d = Newest'
           /\ EventIds \subseteq EventIds'
           /\ \A d \in EventIds : stream'[d] = stream[d]
           /\ Now' = e.ts /\ (stream # <<>> => Now' >= Now)
           /\ \A n : \A d \in EventIds : d \in Accepted(n)' <=> d \in Accepted(n)
<1>1. /\ Newest' = Newest + 1
      /\ \A d \in EventIds : stream'[d] = stream[d]
      /\ stream'[Newest'] = e
      /\ Newest \in Nat
  BY DEF Newest, EventIds
<1>2. /\ \A d \in EventIds' : d \in EventIds \/ d = Newest'
      /\ EventIds \subseteq EventIds'
  BY <1>1 DEF EventIds
<1>3. \A n : \A d \in EventIds : d \in Accepted(n)' <=> d \in Accepted(n)
  BY <1>1, <1>2 DEF Accepted, EventIds
<1> QED
  BY <1>1, <1>2, <1>3 DEF Now

\* The matches before the new event are those there were.
LEMMA MatchesGrow ==
    ASSUME stream \in Seq(Event), NEW e \in Event, stream' = Append(stream, e),
           stream # <<>> => e.ts >= Now, setup' = setup
    PROVE  Matches' \ WithNewest(Matches)' = Matches
<1> DEFINE G == [n \in Name |-> Accepted(n)]
<1>1. Positive \subseteq Name
  BY DEF Name
<1>2. Newest \in Nat /\ \A n \in Positive : G[n] = Accepted(n) /\ G'[n] = Accepted(n)'
  BY <1>1 DEF Newest
<1>3. ASSUME NEW m, \A n \in Positive : m[n] \in EventIds
      PROVE  m \in Matches' <=> m \in Matches
  <2>1. \A n \in Positive : /\ m[n] \in Accepted(n)' <=> m[n] \in Accepted(n)
                            /\ stream'[m[n]] = stream[m[n]]
    BY <1>3, StreamGrows
  <2>2. m \in Matches <=>
            /\ m \in [Positive -> UNION {G[n] : n \in Positive}]
            /\ \A n \in Positive : m[n] \in Accepted(n)
            /\ \A k, l \in Positive :
                /\ stream[m[k]].ts - stream[m[l]].ts <= Window
                /\ k # l => m[k] # m[l]
                /\ <<k, l>> \in Precedes => stream[m[k]].ts <= stream[m[l]].ts
    BY <1>2 DEF Matches, Completed
  <2>3. m \in Matches' <=>
            /\ m \in [Positive -> UNION {G'[n] : n \in Positive}]
            /\ \A n \in Positive : m[n] \in Accepted(n)'
            /\ \A k, l \in Positive :
                /\ stream'[m[k]].ts - stream'[m[l]].ts <= Window
                /\ k # l => m[k] # m[l]
                /\ <<k, l>> \in Precedes => stream'[m[k]].ts <= stream'[m[l]].ts
    BY <1>2 DEF Matches, Completed
  <2>4. (\A n \in Positive : m[n] \in Accepted(n)) =>
            (m \in [Positive -> UNION {G[n] : n \in Positive}]
                <=> m \in [Positive -> UNION {G'[n] : n \in Positive}])
    BY <1>2, <2>1
  <2> QED
    BY <2>1, <2>2, <2>3, <2>4
<1>4. ASSUME NEW m \in Matches
      PROVE  (\A n \in Positive : m[n] \in EventIds) /\ Newest' \notin EventsOf(m)
  <2>1. DOMAIN m = Positive /\ \A n \in Positive : m[n] \in EventIds
    BY <1>2 DEF Matches, Completed, Accepted, EventIds
  <2> QED
    BY <1>2, <2>1, StreamGrows DEF EventsOf, EventIds
<1>5. ASSUME NEW m \in Matches', Newest' \notin EventsOf(m)
      PROVE  \A n \in Positive : m[n] \in EventIds
  <2>1. DOMAIN m = Positive /\ \A n \in Positive : m[n] \in EventIds'
    BY <1>2 DEF Matches, Completed, Accepted, EventIds
  <2> QED
    BY <1>5, <2>1, StreamGrows DEF EventsOf
<1>6. WithNewest(Matches)' = {m \in Matches' : Newest' \in EventsOf(m)}
  BY DEF WithNewest, EventsOf
<1> QED
  BY <1>3, <1>4, <1>5, <1>6
-----------------------------------------------------------------------------
(* Every step keeps the reports exact                                      *)

LEMMA InitExact == Init => ExactInv
<1> SUFFICES ASSUME Init PROVE ExactInv
  OBVIOUS
<1>1. Newest = 0 /\ \A n : Accepted(n) = {}
  BY DEF Init, Newest, Accepted
<1>2. Matches = {}
  <2> SUFFICES ASSUME NEW m \in Matches PROVE FALSE
    OBVIOUS
  <2>1. PICK n \in Positive : n \in Name
    BY PatternAssumption DEF Name
  <2>2. m[n] \in Accepted(n)
    BY <2>1 DEF Matches, Completed
  <2> QED
    BY <1>1, <2>2
<1>3. TimeInv
  BY <1>1 DEF Init, TimeInv, EventIds, Never
<1> QED
  BY <1>1, <1>2, <1>3
     DEF Init, ExactInv, CoverInv, NewCoverInv, ReportInv, Covers, Settled, Reported

\* A tree that covered the stream still covers it but for the new event.
LEMMA CoversGrows ==
    ASSUME stream \in Seq(Event), NEW e \in Event, stream' = Append(stream, e),
           stream # <<>> => e.ts >= Now, setup' = setup,
           NEW t, NEW time, Covers(t, Newest, time)
    PROVE  \A n \in Positive : \A d \in Accepted(n)' :
                d <= Newest' - 1 /\ Live(d)' /\ stream'[d].ts > time => d \in t.held[n]
<1> SUFFICES ASSUME NEW n \in Positive, NEW d \in Accepted(n)', d <= Newest' - 1,
                    Live(d)', stream'[d].ts > time
             PROVE  d \in t.held[n]
  OBVIOUS
<1>1. /\ Newest' = Newest + 1
      /\ \A k \in EventIds' : k \in EventIds \/ k = Newest'
      /\ \A k \in EventIds : stream'[k] = stream[k]
      /\ Now' = e.ts /\ (stream # <<>> => Now' >= Now)
      /\ \A k \in EventIds : k \in Accepted(n)' <=> k \in Accepted(n)
  BY StreamGrows
<1>2. d \in EventIds' /\ d \in Nat
  BY DEF Accepted, EventIds
<1>3. d \in EventIds /\ d <= Newest /\ stream # <<>>
  BY <1>1, <1>2, EventTypes DEF EventIds, Newest
<1>4. d \in Accepted(n) /\ stream'[d] = stream[d]
  BY <1>1, <1>3
<1>5. stream[d].ts \in Nat /\ Now \in Nat /\ Now' \in Nat
  BY <1>1, <1>3, EventTypes DEF Event
<1>6. Live(d)
  BY <1>1, <1>3, <1>4, <1>5, WindowAssumption DEF Live
<1> QED
  BY <1>3, <1>4, <1>6 DEF Covers

LEMMA ReadEventExact == IInv /\ ExactInv /\ ReadEvent => ExactInv'
<1> SUFFICES ASSUME IInv, ExactInv, ReadEvent PROVE ExactInv'
  OBVIOUS
<1>1. stream \in Seq(Event) /\ setup' = setup /\ TimeInv
  BY DEF IInv, ControlInv, ReadEvent, ExactInv
<1>2. PICK e \in Event : stream' = Append(stream, e) /\ (stream # <<>> => e.ts >= Now)
  BY <1>1, ReadEventAppends DEF IInv
<1>3. /\ Newest' = Newest + 1
      /\ \A d \in EventIds' : d \in EventIds \/ d = Newest'
      /\ EventIds \subseteq EventIds'
      /\ \A d \in EventIds : stream'[d] = stream[d]
      /\ Now' = e.ts /\ (stream # <<>> => Now' >= Now)
      /\ \A n : \A d \in EventIds : d \in Accepted(n)' <=> d \in Accepted(n)
  BY <1>1, <1>2, StreamGrows
<1>4. stream' \in Seq(Event)
  BY <1>1, <1>2
<1>5. TimeInv'
  <2> SUFFICES ASSUME NEW d \in EventIds', NEW k \in EventIds', d <= k
               PROVE  stream'[d].ts <= stream'[k].ts
    BY <1>1 DEF TimeInv, ReadEvent
  <2>1. CASE k \in EventIds
    <3>1. d \in EventIds
      BY <1>1, <1>3, <2>1 DEF EventIds, Newest
    <3> QED
      BY <1>1, <1>3, <2>1, <3>1 DEF TimeInv
  <2>2. CASE k = Newest' /\ d \in EventIds
    <3>1. stream # <<>> /\ Newest \in EventIds /\ d <= Newest
      BY <1>1, <2>2, EventTypes DEF EventIds, Newest
    <3>2. stream[d].ts <= Now /\ Now <= Now' /\ Now' = stream'[k].ts
      BY <1>1, <1>3, <2>2, <3>1, EventTypes DEF TimeInv, Now, Event
    <3>3. stream[d].ts \in Nat /\ Now \in Nat /\ Now' \in Nat
      BY <1>1, <1>3, <2>2, <3>1, EventTypes DEF Event
    <3> QED
      BY <1>3, <2>2, <3>2, <3>3
  <2>3. CASE k = Newest' /\ d = Newest'
    BY <1>3, <2>3 DEF Now, Event
  <2> QED
    BY <1>3, <2>1, <2>2, <2>3
<1>6. ReplaySafe => CoverInv' /\ NewCoverInv'
  <2> SUFFICES ASSUME ReplaySafe PROVE CoverInv' /\ NewCoverInv'
    OBVIOUS
  <2>1. phase = "idle" /\ phase' = "counted" /\ UNCHANGED <<tree, newTree, updateTime>>
    BY DEF ReadEvent
  <2>2. Covers(tree, Newest, Never) /\ (newTree # NoTree => Covers(newTree, Newest, updateTime))
    BY <2>1 DEF ExactInv, CoverInv, NewCoverInv
  <2>3. \A t, time : Covers(t, Newest, time) =>
            \A n \in Positive : \A d \in Accepted(n)' :
                d <= Newest' - 1 /\ Live(d)' /\ stream'[d].ts > time => d \in t.held[n]
    BY <1>1, <1>2, CoversGrows
  <2> QED
    BY <2>1, <2>2, <2>3 DEF CoverInv, NewCoverInv, Covers
<1>7. ~ setup.negated /\ ReplaySafe => ReportInv'
  <2>1. phase = "idle" /\ phase' = "counted" /\ Reported' = Reported
    BY DEF ReadEvent, Reported
  <2>2. Matches' \ WithNewest(Matches)' = Matches
    BY <1>1, <1>2, MatchesGrow
  <2> QED
    BY <2>1, <2>2 DEF ExactInv, ReportInv, Settled
<1> QED
  BY <1>1, <1>5, <1>6, <1>7 DEF ExactInv, ReplaySafe, Used
\* A step that reads nothing leaves the matches of the stream as they are.
LEMMA StreamStays ==
    ASSUME stream' = stream, setup' = setup
    PROVE  /\ Newest' = Newest /\ Now' = Now /\ EventIds' = EventIds
           /\ Matches' = Matches /\ WithNewest(Matches)' = WithNewest(Matches)
           /\ ReplaySafe' <=> ReplaySafe
           /\ \A n : Accepted(n)' = Accepted(n)
           /\ \A d : Live(d)' <=> Live(d)
<1>1. Newest' = Newest /\ Now' = Now /\ EventIds' = EventIds
  BY DEF Newest, Now, EventIds
<1>2. \A n : Accepted(n)' = Accepted(n)
  BY <1>1 DEF Accepted
<1>3. Matches' = Matches
  BY <1>2 DEF Matches, Completed
<1>4. WithNewest(Matches)' = WithNewest(Matches)
  BY <1>1, <1>3 DEF WithNewest
<1> QED
  BY <1>1, <1>2, <1>3, <1>4 DEF ReplaySafe, Used, Live

LEMMA KeepPlanExact == ExactInv /\ KeepPlan => ExactInv'
<1> SUFFICES ASSUME ExactInv, KeepPlan PROVE ExactInv'
  OBVIOUS
<1> USE DEF ExactInv, KeepPlan
<1>1. stream' = stream /\ setup' = setup
  OBVIOUS
<1>2. TimeInv'
  BY <1>1, StreamStays DEF TimeInv
<1> QED
  BY <1>1, <1>2, StreamStays
     DEF CoverInv, NewCoverInv, ReportInv, Covers, Settled, Reported

\* The storages that are read for the replay hold every live event: a leaf that
\* is not the first of its type has nothing the first has not.
LEMMA OldEventsCovered ==
    ASSUME IsTree(tree), setup.mechanism = "trivial", ReplaySafe,
           Covers(tree, Newest - 1, Never), stream \in Seq(Event),
           NEW n \in Positive, NEW d \in Accepted(n), d <= Newest - 1, Live(d),
           NEW s \in OldEventOrders
    PROVE  d \in ToSet(s)
<1> DEFINE Same == {i \in DOMAIN tree.plan : TypeOf[tree.plan[i]] = TypeOf[n]}
<1>1. /\ tree.plan \in [DOMAIN Order -> Used] /\ ToSet(tree.plan) = Used
      /\ DOMAIN Order \subseteq Nat /\ \A j \in DOMAIN Order : 1..j \subseteq DOMAIN Order
  <2>1. Order \in Seq(Used)
    BY OrderIsPlan
  <2>2. DOMAIN Order = 1..Len(Order) /\ Len(Order) \in Nat
    BY <2>1
  <2> QED
    BY <2>2 DEF IsTree, IsPlan
<1>2. Same \subseteq Nat /\ Same # {}
  BY <1>1 DEF ToSet, Used, Name
<1>3. PICK i \in Same : \A j \in Same : ~ (<<j, i>> \in OpToRel(<, Nat))
  BY <1>2, NatLessThanWellFounded, WFMin
<1>4. \A j \in Same : ~ (j < i)
  BY <1>2, <1>3 DEF OpToRel
<1>5. tree.plan[i] \in Positive /\ d \in Accepted(tree.plan[i])
  <2>1. tree.plan[i] \in Used /\ n \in Used /\ TypeOf[tree.plan[i]] = TypeOf[n]
    BY <1>1 DEF Used, Name
  <2>2. tree.plan[i] \in Positive
    BY <2>1, PatternAssumption DEF Used, Name
  <2>3. setup.accepts[tree.plan[i]] = setup.accepts[n]
    BY <2>1 DEF ReplaySafe
  <2> QED
    BY <2>1, <2>2, <2>3 DEF Accepted
<1>6. d \in tree.held[tree.plan[i]]
  BY <1>5, EventTypes DEF Covers, Accepted, EventIds, Never
<1>7. \A j \in 1..(i - 1) : TypeOf[tree.plan[j]] # TypeOf[tree.plan[i]]
  BY <1>1, <1>2, <1>4
<1> QED
  BY <1>1, <1>6, <1>7 DEF OldEventOrders

LEMMA ReplaceTreeExact == IInv /\ ExactInv /\ ReplaceTree => ExactInv'
<1> SUFFICES ASSUME IInv, ExactInv, ReplaceTree PROVE ExactInv'
  OBVIOUS
<1>1. stream' = stream /\ setup' = setup /\ updateTime' = updateTime /\ output' = output
  BY DEF ReplaceTree
<1>2. TimeInv'
  BY <1>1, StreamStays DEF TimeInv, ExactInv
<1>3. phase = "counted" /\ phase' = "replaying" /\ newTree' = NoTree
  BY DEF ReplaceTree, RefreshDue
<1>4. ReplaySafe => CoverInv'
  <2> SUFFICES ASSUME ReplaySafe,
                      NEW n \in Positive, NEW d \in Accepted(n), d <= Newest - 1, Live(d)
               PROVE  d \in ToSet(replay')
    BY <1>1, <1>3, StreamStays DEF CoverInv
  <2>1. /\ IsTree(tree) /\ stream \in Seq(Event) /\ Covers(tree, Newest - 1, Never)
        /\ setup.mechanism = "trivial" /\ replay' \in OldEventOrders
    BY <1>3 DEF IInv, TreeInv, ControlInv, ExactInv, CoverInv, ReplaceTree
  <2> QED
    BY <2>1, OldEventsCovered
<1>5. /\ ReplaySafe => NewCoverInv'
      /\ ~ setup.negated /\ ReplaySafe => ReportInv'
  BY <1>1, <1>3, StreamStays DEF ExactInv, NewCoverInv, ReportInv, Settled, Reported
<1> QED
  BY <1>1, <1>2, <1>4, <1>5, StreamStays DEF ExactInv

LEMMA ReplayEventExact == IInv /\ ExactInv /\ ReplayEvent => ExactInv'
<1> SUFFICES ASSUME IInv, ExactInv, ReplayEvent PROVE ExactInv'
  OBVIOUS
<1>1. UNCHANGED <<setup, stream, phase, newTree, updateTime, output>> /\ phase = "replaying"
  BY DEF ReplayEvent
<1>2. TimeInv'
  BY <1>1, StreamStays DEF TimeInv, ExactInv
<1>3. /\ stream \in Seq(Event) /\ TimeInv /\ IsTree(tree)
      /\ replay \in Seq(EventIds) /\ replay # <<>>
      /\ tree' \in Played(tree, Head(replay)) /\ replay' = Tail(replay)
  BY DEF IInv, ControlInv, TreeInv, ExactInv, ReplayEvent
<1>4. /\ Head(replay) \in EventIds
      /\ \A d \in ToSet(replay) : d = Head(replay) \/ d \in ToSet(Tail(replay))
  <2>1. \A i \in DOMAIN replay : i = 1 \/ (i - 1 \in DOMAIN Tail(replay)
                                           /\ Tail(replay)[i - 1] = replay[i])
    BY <1>3
  <2>2. Head(replay) = replay[1] /\ Head(replay) \in EventIds
    BY <1>3
  <2> QED
    BY <2>1, <2>2 DEF ToSet
<1>5. \A n \in Positive : \A d \in Accepted(n) :
        (Live(d) /\ d \in tree.held[n]) \/ d = Head(replay) => d \in tree'.held[n]
  BY <1>3, <1>4, PlayedHolds
<1>6. ReplaySafe => CoverInv'
  BY <1>1, <1>3, <1>4, <1>5, StreamStays DEF CoverInv, ExactInv
<1>7. /\ ReplaySafe => NewCoverInv'
      /\ ~ setup.negated /\ ReplaySafe => ReportInv'
  BY <1>1, StreamStays
     DEF ExactInv, NewCoverInv, ReportInv, Settled, Reported, Covers
<1> QED
  BY <1>1, <1>2, <1>6, <1>7, StreamStays DEF ExactInv

LEMMA DiscardReplayedExact == IInv /\ ExactInv /\ DiscardReplayed => ExactInv'
<1> SUFFICES ASSUME IInv, ExactInv, DiscardReplayed PROVE ExactInv'
  OBVIOUS
<1>1. /\ UNCHANGED <<setup, stream, newTree, updateTime, output>>
      /\ phase = "replaying" /\ phase' = "playing" /\ replay = <<>>
  BY DEF DiscardReplayed
<1>2. TimeInv'
  BY <1>1, StreamStays DEF TimeInv, ExactInv
<1>3. tree'.held = tree.held /\ ToSet(replay) = {}
  BY <1>1 DEF DiscardReplayed, IInv, TreeInv, IsTree, ToSet
<1>4. /\ ReplaySafe => CoverInv' /\ NewCoverInv'
      /\ ~ setup.negated /\ ReplaySafe => ReportInv'
  BY <1>1, <1>3, StreamStays
     DEF ExactInv, CoverInv, NewCoverInv, ReportInv, Settled, Reported, Covers
<1> QED
  BY <1>1, <1>2, <1>4, StreamStays DEF ExactInv
LEMMA StartSimultaneousExact == IInv /\ ExactInv /\ StartSimultaneous => ExactInv'
<1> SUFFICES ASSUME IInv, ExactInv, StartSimultaneous PROVE ExactInv'
  OBVIOUS
<1>1. /\ UNCHANGED <<setup, stream, tree, output>>
      /\ phase = "counted" /\ phase' = "playing" /\ updateTime' = Now
  BY DEF StartSimultaneous
<1>2. stream \in Seq(Event) /\ stream # <<>> /\ TimeInv
  BY <1>1 DEF IInv, ControlInv, ExactInv
<1>3. TimeInv'
  BY <1>1, <1>2, EventTypes, StreamStays DEF TimeInv
<1>4. \A d \in EventIds : ~ (stream[d].ts > Now)
  BY <1>2, EventTypes DEF TimeInv, Now, EventIds
<1>5. ReplaySafe => NewCoverInv'
  <2> SUFFICES ASSUME NEW n \in Positive, NEW d \in Accepted(n) PROVE ~ (stream[d].ts > Now)
    BY <1>1, StreamStays DEF NewCoverInv, Covers
  <2> QED
    BY <1>4 DEF Accepted, EventIds
<1>6. /\ ReplaySafe => CoverInv'
      /\ ~ setup.negated /\ ReplaySafe => ReportInv'
  BY <1>1, StreamStays DEF ExactInv, CoverInv, ReportInv, Settled, Reported, Covers
<1> QED
  BY <1>1, <1>3, <1>5, <1>6, StreamStays DEF ExactInv

LEMMA PlayEventExact == IInv /\ ExactInv /\ PlayEvent => ExactInv'
<1> SUFFICES ASSUME IInv, ExactInv, PlayEvent PROVE ExactInv'
  OBVIOUS
<1>1. /\ UNCHANGED <<setup, stream, updateTime, output>>
      /\ phase = "playing" /\ phase' = "collecting"
      /\ tree' \in Played(tree, Newest)
      /\ newTree' # NoTree => newTree # NoTree /\ newTree' \in Played(newTree, Newest)
  BY DEF PlayEvent
<1>2. /\ stream \in Seq(Event) /\ stream # <<>> /\ TimeInv /\ updateTime \in Int
      /\ IsTree(tree) /\ (newTree # NoTree => IsTree(newTree))
  BY <1>1 DEF IInv, ControlInv, TreeInv, ExactInv, TimeInv
<1>3. TimeInv'
  BY <1>1, <1>2, StreamStays DEF TimeInv
<1>4. ReplaySafe => CoverInv' /\ NewCoverInv' /\ (~ setup.negated => ReportInv')
  <2> SUFFICES ASSUME ReplaySafe
               PROVE  CoverInv' /\ NewCoverInv' /\ (~ setup.negated => ReportInv')
    OBVIOUS
  <2>1. /\ Covers(tree, Newest - 1, Never) /\ Never \in Int
        /\ ~ setup.negated => tree.ready = {}
        /\ newTree # NoTree => Covers(newTree, Newest - 1, updateTime)
    BY <1>1 DEF IInv, ReadyInv, ExactInv, CoverInv, NewCoverInv, Never
  <2>2. /\ Covers(tree', Newest, Never)
        /\ ~ setup.negated => tree'.ready = WithNewest(Matches)
    BY <1>1, <1>2, <2>1, PlayedNewestCovers
  <2>3. newTree' # NoTree => Covers(newTree', Newest, updateTime)
    BY <1>1, <1>2, <2>1, PlayedNewestCovers
  <2>4. ~ setup.negated => Reported = Matches \ WithNewest(Matches)
    BY <1>1 DEF ExactInv, ReportInv, Settled
  <2> QED
    BY <1>1, <2>2, <2>3, <2>4, StreamStays
       DEF CoverInv, NewCoverInv, ReportInv, Settled, Reported, Covers
<1> QED
  BY <1>1, <1>3, <1>4, StreamStays DEF ExactInv

LEMMA PlayAndSwitchExact == IInv /\ ExactInv /\ PlayAndSwitch => ExactInv'
<1> SUFFICES ASSUME IInv, ExactInv, PlayAndSwitch PROVE ExactInv'
  OBVIOUS
<1>1. /\ UNCHANGED <<setup, stream, updateTime, output>>
      /\ phase = "playing" /\ phase' = "collecting"
      /\ newTree # NoTree /\ Now - updateTime > Window
      /\ tree' \in Played(newTree, Newest) /\ newTree' = NoTree
  BY DEF PlayAndSwitch, SwitchDue
<1>2. /\ stream \in Seq(Event) /\ stream # <<>> /\ TimeInv /\ updateTime \in Int
      /\ IsTree(newTree)
  BY <1>1 DEF IInv, ControlInv, TreeInv, ExactInv, TimeInv
<1>3. TimeInv'
  BY <1>1, <1>2, StreamStays DEF TimeInv
<1>4. ReplaySafe => CoverInv' /\ (~ setup.negated => ReportInv')
  <2> SUFFICES ASSUME ReplaySafe PROVE CoverInv' /\ (~ setup.negated => ReportInv')
    OBVIOUS
  <2>1. /\ Covers(newTree, Newest - 1, updateTime)
        /\ ~ setup.negated => newTree.ready = {}
    BY <1>1 DEF IInv, ReadyInv, ExactInv, NewCoverInv
  <2>2. /\ Covers(tree', Newest, updateTime)
        /\ ~ setup.negated => tree'.ready = WithNewest(Matches)
    BY <1>1, <1>2, <2>1, PlayedNewestCovers
  <2>3. Covers(tree', Newest, Never)
    <3>1. \A n \in Positive : \A d \in Accepted(n) : Live(d) => stream[d].ts > updateTime
      <4>1. Now \in Nat /\ updateTime \in Int
        BY <1>2, EventTypes
      <4>2. \A n \in Positive : \A d \in Accepted(n) : stream[d].ts \in Nat
        BY <1>2, EventTypes DEF Accepted, EventIds
      <4> QED
        BY <1>1, <4>1, <4>2, WindowAssumption DEF Live
    <3> QED
      BY <2>2, <3>1 DEF Covers
  <2>4. ~ setup.negated => Reported = Matches \ WithNewest(Matches)
    BY <1>1 DEF ExactInv, ReportInv, Settled
  <2> QED
    BY <1>1, <2>2, <2>3, <2>4, StreamStays DEF CoverInv, ReportInv, Settled, Reported, Covers
<1>5. NewCoverInv'
  BY <1>1 DEF NewCoverInv
<1> QED
  BY <1>1, <1>3, <1>4, <1>5, StreamStays DEF ExactInv

LEMMA CollectMatchesExact == IInv /\ ExactInv /\ CollectMatches => ExactInv'
<1> SUFFICES ASSUME IInv, ExactInv, CollectMatches PROVE ExactInv'
  OBVIOUS
<1>1. /\ UNCHANGED <<setup, stream, updateTime>>
      /\ phase = "collecting" /\ phase' = "idle"
      /\ tree' = [tree EXCEPT !.ready = {}]
      /\ newTree' = IF newTree = NoTree THEN NoTree ELSE [newTree EXCEPT !.ready = {}]
  BY DEF CollectMatches
<1>2. TimeInv'
  BY <1>1, StreamStays DEF TimeInv, ExactInv
<1>3. /\ tree'.held = tree.held
      /\ newTree' # NoTree => newTree # NoTree /\ newTree'.held = newTree.held
  BY <1>1 DEF IInv, TreeInv, IsTree
<1>4. ~ setup.negated /\ ReplaySafe => Reported' = Matches
  <2> SUFFICES ASSUME ~ setup.negated, ReplaySafe PROVE Reported' = Matches
    OBVIOUS
  <2>1. /\ tree.ready = WithNewest(Matches) /\ lastMatches = {}
        /\ Reported = Matches \ WithNewest(Matches)
    BY <1>1 DEF IInv, ReadyInv, ExactInv, ReportInv, Settled
  <2>2. output' = output \cup Reports(tree.ready, "tree")
    BY <2>1 DEF CollectMatches, Reports
  <2>3. {r.match : r \in Reports(tree.ready, "tree")} = tree.ready
    <3>1. \A m \in tree.ready : \E r \in Reports(tree.ready, "tree") : r.match = m
      <4> TAKE m \in tree.ready
      <4> USE DEF Reports
      <4> WITNESS [match |-> m, at |-> Newest, by |-> "tree"] \in Reports(tree.ready, "tree")
      <4> QED
        OBVIOUS
    <3>2. \A r \in Reports(tree.ready, "tree") : r.match \in tree.ready
      BY DEF Reports
    <3> QED
      BY <3>1, <3>2
  <2>4. Reported' = Reported \cup {r.match : r \in Reports(tree.ready, "tree")}
    BY <2>2 DEF Reported
  <2> QED
    BY <2>1, <2>3, <2>4 DEF WithNewest
<1>5. /\ ReplaySafe => CoverInv' /\ NewCoverInv'
      /\ ~ setup.negated /\ ReplaySafe => ReportInv'
  BY <1>1, <1>3, <1>4, StreamStays
     DEF ExactInv, CoverInv, NewCoverInv, ReportInv, Settled, Covers
<1> QED
  BY <1>1, <1>2, <1>5, StreamStays DEF ExactInv

LEMMA CloseExact == IInv /\ ExactInv /\ Close => ExactInv'
<1> SUFFICES ASSUME IInv, ExactInv, Close PROVE ExactInv'
  OBVIOUS
<1>1. /\ UNCHANGED <<setup, stream, tree, newTree, updateTime>>
      /\ phase = "idle" /\ phase' = "closed"
      /\ ~ setup.negated => output' = output
  BY DEF Close, LastMatchesOf, Reports
<1>2. TimeInv'
  BY <1>1, StreamStays DEF TimeInv, ExactInv
<1> QED
  BY <1>1, <1>2, StreamStays
     DEF ExactInv, CoverInv, NewCoverInv, ReportInv, Settled, Reported, Covers

LEMMA NextExact == IInv /\ ExactInv /\ [Next]_vars => ExactInv'
<1> SUFFICES ASSUME IInv, ExactInv, [Next]_vars PROVE ExactInv'
  OBVIOUS
<1>1. CASE UNCHANGED vars
  <2>1. UNCHANGED <<setup, stream, phase, tree, newTree, updateTime, replay, output>>
    BY <1>1 DEF vars
  <2> QED
    BY <2>1, StreamStays
       DEF ExactInv, TimeInv, CoverInv, NewCoverInv, ReportInv, Settled, Reported, Covers
<1> QED
  BY <1>1, ReadEventExact, KeepPlanExact, ReplaceTreeExact, ReplayEventExact,
     DiscardReplayedExact, StartSimultaneousExact, PlayEventExact, PlayAndSwitchExact,
     CollectMatchesExact, CloseExact DEF Next

\* Without negation, and when the leaves of a type accept the same events, the
\* matches reported are those of the stream, event by event and through any
\* number of tree replacements by either mechanism (TrivialTreeBasedEvaluation-
\* Mechanism._tree_update, SimultaneousTreeBasedEvaluationMechanism).
THEOREM ReplacementIsExact == Spec => []ReportsExactly
<1>1. Init => IInv /\ ExactInv
  BY InitInv, InitExact
<1>2. IInv /\ ExactInv /\ [Next]_vars => IInv' /\ ExactInv'
  BY NextInv, NextExact
<1>3. ExactInv => ReportsExactly
  BY DEF ExactInv, ReportInv, ReportsExactly
<1> QED
  BY <1>1, <1>2, <1>3, PTL DEF Spec

-----------------------------------------------------------------------------
(* Negation at the end of the pattern, trees side by side                  *)

\* The matches no negated event of the stream prevents.
Unprevented == {m \in Matches : \A e \in Accepted(Negated) : ~ Prevents(m, e)}

\* Where a match is that has been completed.
Kept == Reported \cup tree.pending \cup tree.ready \cup lastMatches

\* None of them is lost: those of the newest event are kept once it has been
\* played, and the others always.
PendingInv ==
    setup.negated /\ setup.mechanism = "simultaneous" =>
        /\ phase # "replaying"
        /\ phase # "collecting" => lastMatches = {}
        /\ phase \in {"counted", "playing"} =>
            Unprevented \ WithNewest(Matches) \subseteq Kept
        /\ phase \in {"idle", "collecting"} => Unprevented \subseteq Kept
        /\ phase = "closed" => Unprevented \subseteq Reported

\* What is pending in a tree or ready stays so unless the event prevents it, and
\* what the event completes becomes pending unless a held event prevents it.
LEMMA PlayedPending ==
    ASSUME setup.negated, NEW tr, IsTree(tr), NEW e, NEW t \in Played(tr, e)
    PROVE  /\ \A m \in tr.pending \cup tr.ready :
                m \in t.pending \cup t.ready \/ (Negated \in Takers(tr, e) /\ Prevents(m, e))
           /\ \A m \in Completed(t.held) :
                e \in EventsOf(m) /\ (\A d \in t.held[Negated] : ~ Prevents(m, d))
                    => m \in t.pending
<1>1. PICK due \in SUBSET {n \in ToSet(tr.plan) :
                            \E d \in tr.held[n] : stream[d].ts < stream[e].ts - Window} :
        LET held == HeldAfter(tr, e, due)
            new == {m \in Completed(held) : e \in EventsOf(m)}
            open == {m \in new : \A d \in held[Negated] : ~ Prevents(m, d)}
            flushed == IF new = {} THEN {}
                       ELSE {m \in tr.pending : Expired(m, stream[e].ts)}
            kept == IF Negated \in Takers(tr, e)
                    THEN {m \in tr.pending : ~ Prevents(m, e)}
                    ELSE tr.pending \ flushed
        IN  t = [tr EXCEPT
                    !.held = held,
                    !.pending = IF setup.negated THEN kept \cup open ELSE {},
                    !.ready = @ \cup IF setup.negated THEN flushed ELSE new]
  BY DEF Played
<1> DEFINE held == HeldAfter(tr, e, due)
           new == {m \in Completed(held) : e \in EventsOf(m)}
           open == {m \in new : \A d \in held[Negated] : ~ Prevents(m, d)}
           flushed == IF new = {} THEN {}
                      ELSE {m \in tr.pending : Expired(m, stream[e].ts)}
           kept == IF Negated \in Takers(tr, e)
                   THEN {m \in tr.pending : ~ Prevents(m, e)}
                   ELSE tr.pending \ flushed
<1>2. t = [tr EXCEPT !.held = held, !.pending = kept \cup open, !.ready = @ \cup flushed]
  BY <1>1
<1>3. t.held = held /\ t.pending = kept \cup open /\ t.ready = tr.ready \cup flushed
  <2> HIDE DEF held, kept, open, flushed
  <2> QED
    BY <1>2 DEF IsTree
<1>4. ASSUME NEW m \in tr.pending \cup tr.ready,
             ~ (Negated \in Takers(tr, e) /\ Prevents(m, e))
      PROVE  m \in t.pending \cup t.ready
  <2>1. m \in tr.ready \/ m \in kept \/ m \in flushed
    BY <1>4
  <2> QED
    BY <1>3, <2>1
<1>5. ASSUME NEW m \in Completed(t.held), e \in EventsOf(m),
             \A d \in t.held[Negated] : ~ Prevents(m, d)
      PROVE  m \in t.pending
  <2>1. m \in open
    BY <1>3, <1>5
  <2> QED
    BY <1>3, <2>1
<1> QED
  BY <1>4, <1>5

\* A tree that has all live events and plays the newest keeps what is not
\* prevented and adds what the event completes.
LEMMA PlayedKeeps ==
    ASSUME setup.negated, stream \in Seq(Event), stream # <<>>, TimeInv,
           NEW tr, IsTree(tr), NEW t \in Played(tr, Newest), NEW time \in Int,
           Covers(tr, Newest - 1, time), time = Never \/ Now - time > Window
    PROVE  \A m \in Unprevented :
                m \in WithNewest(Matches) \cup tr.pending \cup tr.ready
                    => m \in t.pending \cup t.ready
<1> SUFFICES ASSUME NEW m \in Unprevented,
                    m \in WithNewest(Matches) \cup tr.pending \cup tr.ready
             PROVE  m \in t.pending \cup t.ready
  OBVIOUS
<1>1. IsTree(t) /\ Covers(t, Newest, time)
  BY PlayedNewestCovers
<1>2. CASE m \in WithNewest(Matches)
  <2>1. m \in WithNewest(Completed(t.held))
    BY <1>1, <1>2, NewestCompletes
  <2>2. \A d \in t.held[Negated] : ~ Prevents(m, d)
    BY <1>1 DEF IsTree, Name, Unprevented
  <2> QED
    BY <2>1, <2>2, PlayedPending DEF WithNewest
<1>3. CASE m \in tr.pending \cup tr.ready
  <2>1. Negated \in Takers(tr, Newest) => Newest \in Accepted(Negated)
    BY EventTypes DEF Takers, Accepted, EventIds
  <2> QED
    BY <1>3, <2>1, PlayedPending DEF Unprevented
<1> QED
  BY <1>2, <1>3

LEMMA ReadEventPending ==
    IInv /\ ExactInv /\ PendingInv /\ ReadEvent => PendingInv'
<1> SUFFICES ASSUME IInv, ExactInv, PendingInv, ReadEvent, setup.negated,
                    setup.mechanism = "simultaneous"
             PROVE  PendingInv'
  BY DEF ReadEvent, PendingInv
<1>1. stream \in Seq(Event) /\ setup' = setup
  BY DEF IInv, ControlInv, ReadEvent
<1>2. PICK e \in Event : stream' = Append(stream, e) /\ (stream # <<>> => e.ts >= Now)
  BY <1>1, ReadEventAppends DEF IInv
<1>3. phase = "idle" /\ phase' = "counted" /\ UNCHANGED <<tree, lastMatches, output>>
  BY DEF ReadEvent
<1>4. ASSUME NEW m \in Unprevented', m \notin WithNewest(Matches)'
      PROVE  m \in Unprevented
  <2>1. m \in Matches
    BY <1>1, <1>2, <1>4, MatchesGrow DEF Unprevented
  <2>2. \A n \in Positive : m[n] \in EventIds
    BY <2>1 DEF Matches, Completed, Accepted, EventIds, Name
  <2>3. ASSUME NEW d \in Accepted(Negated)
        PROVE  ~ Prevents(m, d)
    <3>1. d \in EventIds /\ d \in Accepted(Negated)'
      BY <1>1, <1>2, StreamGrows DEF Accepted, EventIds
    <3>2. ~ Prevents(m, d)'
      BY <1>4, <3>1 DEF Unprevented, Prevents
    <3>3. stream'[d] = stream[d] /\ \A n \in Positive : stream'[m[n]] = stream[m[n]]
      BY <1>1, <1>2, <2>2, <3>1, StreamGrows
    <3> QED
      BY <3>2, <3>3 DEF Prevents
  <2> QED
    BY <2>1, <2>3 DEF Unprevented
<1>5. Kept' = Kept
  BY <1>3 DEF Kept, Reported
<1> QED
  BY <1>1, <1>3, <1>4, <1>5 DEF PendingInv

LEMMA PlayEventPending ==
    IInv /\ ExactInv /\ PendingInv /\ PlayEvent => PendingInv'
<1> SUFFICES ASSUME IInv, ExactInv, PendingInv, PlayEvent, setup.negated,
                    setup.mechanism = "simultaneous"
             PROVE  PendingInv'
  BY DEF PlayEvent, PendingInv
<1>1. /\ UNCHANGED <<setup, stream, lastMatches, output>>
      /\ phase = "playing" /\ phase' = "collecting"
      /\ tree' \in Played(tree, Newest)
  BY DEF PlayEvent
<1>2. /\ stream \in Seq(Event) /\ stream # <<>> /\ TimeInv /\ IsTree(tree)
      /\ Covers(tree, Newest - 1, Never) /\ Never \in Int
  BY <1>1 DEF IInv, ControlInv, TreeInv, ExactInv, CoverInv, ReplaySafe, Never
<1>3. \A m \in Unprevented : m \in WithNewest(Matches) \cup tree.pending \cup tree.ready
                                => m \in tree'.pending \cup tree'.ready
  BY <1>1, <1>2, PlayedKeeps
<1>4. Unprevented' = Unprevented /\ Reported' = Reported
  BY <1>1, StreamStays DEF Unprevented, Prevents, Reported
<1>5. Unprevented \ WithNewest(Matches) \subseteq Kept
  BY <1>1 DEF PendingInv
<1> QED
  BY <1>1, <1>3, <1>4, <1>5 DEF PendingInv, Kept

LEMMA PlayAndSwitchPending ==
    IInv /\ ExactInv /\ PendingInv /\ PlayAndSwitch => PendingInv'
<1> SUFFICES ASSUME IInv, ExactInv, PendingInv, PlayAndSwitch, setup.negated,
                    setup.mechanism = "simultaneous"
             PROVE  PendingInv'
  BY DEF PlayAndSwitch, PendingInv
<1>1. PICK old \in Played(tree, Newest) : lastMatches' = LastMatchesOf(old)
  BY DEF PlayAndSwitch
<1>2. /\ UNCHANGED <<setup, stream, output>>
      /\ phase = "playing" /\ phase' = "collecting"
  BY DEF PlayAndSwitch
<1>3. /\ stream \in Seq(Event) /\ stream # <<>> /\ TimeInv /\ IsTree(tree)
      /\ Covers(tree, Newest - 1, Never) /\ Never \in Int
  BY <1>2 DEF IInv, ControlInv, TreeInv, ExactInv, CoverInv, ReplaySafe, Never
<1>4. \A m \in Unprevented : m \in WithNewest(Matches) \cup tree.pending \cup tree.ready
                                => m \in old.pending \cup old.ready
  BY <1>1, <1>3, PlayedKeeps
<1>5. lastMatches' = old.ready \cup old.pending /\ lastMatches = {}
  BY <1>1, <1>2 DEF LastMatchesOf, PendingInv
<1>6. Unprevented' = Unprevented /\ Reported' = Reported
  BY <1>2, StreamStays DEF Unprevented, Prevents, Reported
<1>7. Unprevented \ WithNewest(Matches) \subseteq Kept
  BY <1>2 DEF PendingInv
<1> QED
  BY <1>2, <1>4, <1>5, <1>6, <1>7 DEF PendingInv, Kept

\* The matches that have been reported.
LEMMA ReportsAdd ==
    ASSUME NEW ms, NEW source, NEW ns, NEW other,
           output' = output \cup Reports(ms, source) \cup Reports(ns, other)
    PROVE  Reported' = Reported \cup ms \cup ns
<1>1. \A m \in ms : [match |-> m, at |-> Newest, by |-> source] \in output'
  BY DEF Reports
<1>2. \A m \in ns : [match |-> m, at |-> Newest, by |-> other] \in output'
  BY DEF Reports
<1>3. \A r \in output' : r \in output \/ r.match \in ms \/ r.match \in ns
  BY DEF Reports
<1>4. \A m \in ms \cup ns : \E r \in output' : r.match = m
  BY <1>1, <1>2
<1> QED
  BY <1>3, <1>4 DEF Reported

LEMMA CollectMatchesPending ==
    IInv /\ ExactInv /\ PendingInv /\ CollectMatches => PendingInv'
<1> SUFFICES ASSUME IInv, ExactInv, PendingInv, CollectMatches, setup.negated,
                    setup.mechanism = "simultaneous"
             PROVE  PendingInv'
  BY DEF CollectMatches, PendingInv
<1>1. /\ UNCHANGED <<setup, stream>>
      /\ phase = "collecting" /\ phase' = "idle"
      /\ tree' = [tree EXCEPT !.ready = {}]
      /\ lastMatches' = {}
  BY DEF CollectMatches
<1>2. tree'.pending = tree.pending
  BY <1>1 DEF IInv, TreeInv, IsTree
<1>3. Reported' = Reported \cup tree.ready \cup lastMatches
  BY ReportsAdd DEF CollectMatches
<1>4. Unprevented' = Unprevented
  BY <1>1, StreamStays DEF Unprevented, Prevents
<1>5. Unprevented \subseteq Kept
  BY <1>1 DEF PendingInv
<1> QED
  BY <1>1, <1>2, <1>3, <1>4, <1>5 DEF PendingInv, Kept

LEMMA ClosePending ==
    IInv /\ ExactInv /\ PendingInv /\ Close => PendingInv'
<1> SUFFICES ASSUME IInv, ExactInv, PendingInv, Close, setup.negated,
                    setup.mechanism = "simultaneous"
             PROVE  PendingInv'
  BY DEF Close, PendingInv
<1>1. /\ UNCHANGED <<setup, stream, tree, lastMatches>>
      /\ phase = "idle" /\ phase' = "closed"
  BY DEF Close
<1>2. Reported' = Reported \cup tree.ready \cup tree.pending
  <2>1. output' = output \cup Reports(LastMatchesOf(tree), "end") \cup Reports({}, "end")
    BY DEF Close, Reports
  <2> QED
    BY <2>1, ReportsAdd DEF LastMatchesOf
<1>3. Unprevented' = Unprevented
  BY <1>1, StreamStays DEF Unprevented, Prevents
<1>4. Unprevented \subseteq Kept /\ lastMatches = {}
  BY <1>1 DEF PendingInv
<1> QED
  BY <1>1, <1>2, <1>3, <1>4 DEF PendingInv, Kept

LEMMA NextPending == IInv /\ ExactInv /\ PendingInv /\ [Next]_vars => PendingInv'
<1> SUFFICES ASSUME IInv, ExactInv, PendingInv, [Next]_vars PROVE PendingInv'
  OBVIOUS
<1>1. CASE KeepPlan \/ StartSimultaneous \/ UNCHANGED vars
  <2>1. /\ UNCHANGED <<setup, stream, tree, lastMatches, output>>
        /\ phase' = phase \/ (phase = "counted" /\ phase' = "playing")
    BY <1>1 DEF KeepPlan, StartSimultaneous, vars
  <2>2. Unprevented' = Unprevented /\ Reported' = Reported
    BY <2>1, StreamStays DEF Unprevented, Prevents, Reported
  <2>3. WithNewest(Matches)' = WithNewest(Matches)
    BY <2>1, StreamStays
  <2> QED
    BY <2>1, <2>2, <2>3 DEF PendingInv, Kept
<1>2. CASE ReplaceTree \/ ReplayEvent \/ DiscardReplayed
  BY <1>2 DEF ReplaceTree, ReplayEvent, DiscardReplayed, PendingInv
<1> QED
  BY <1>1, <1>2, ReadEventPending, PlayEventPending, PlayAndSwitchPending,
     CollectMatchesPending, ClosePending DEF Next

\* With a negated event at the end of the pattern and trees side by side, every
\* match that no event of the stream prevents is in the output at the end, also
\* if its tree was replaced while it was pending (SimultaneousTreeBased-
\* EvaluationMechanism._get_matches, Tree.get_last_matches).
THEOREM NoPendingMatchLost == Spec => []UnpreventedReported
<1>1. Init => IInv /\ ExactInv /\ PendingInv
  <2>1. ASSUME Init
        PROVE  PendingInv
    <3>1. \A n : Accepted(n) = {}
      BY <2>1 DEF Init, Accepted, Newest
    <3>2. Matches = {}
      <4> SUFFICES ASSUME NEW m \in Matches PROVE FALSE
        OBVIOUS
      <4>1. PICK n \in Positive : n \in Name
        BY PatternAssumption DEF Name
      <4>2. m[n] \in Accepted(n)
        BY <4>1 DEF Matches, Completed
      <4> QED
        BY <3>1, <4>2
    <3> QED
      BY <2>1, <3>2 DEF Init, PendingInv, Unprevented
  <2> QED
    BY <2>1, InitInv, InitExact
<1>2. IInv /\ ExactInv /\ PendingInv /\ [Next]_vars => IInv' /\ ExactInv' /\ PendingInv'
  BY NextInv, NextExact, NextPending
<1>3. PendingInv => UnpreventedReported
  BY DEF PendingInv, UnpreventedReported, Unprevented
<1> QED
  BY <1>1, <1>2, <1>3, PTL DEF Spec

-----------------------------------------------------------------------------
(* What is thrown away                                                     *)

\* In a replay only matches without the newest event are ready.  A new tree has
\* ready only matches of the stream; with negation none, since what is pending
\* in it is not older than its start.
DiscardInv ==
    /\ phase \in {"counted", "replaying", "playing"} =>
        \A n \in Name : Newest \notin tree.held[n]
    /\ phase = "replaying" => Newest \notin ToSet(replay)
    /\ ~ setup.negated /\ phase = "replaying" =>
        tree.ready \subseteq Matches \ WithNewest(Matches)
    /\ newTree # NoTree => stream # <<>> /\ Now >= updateTime
    /\ ~ setup.negated /\ newTree # NoTree => newTree.ready \subseteq Matches
    /\ setup.negated /\ newTree # NoTree =>
        /\ newTree.ready = {}
        /\ \A n \in Name : \A d \in newTree.held[n] : stream[d].ts >= updateTime
        /\ \A m \in newTree.pending : \A n \in Positive :
            m[n] \in EventIds /\ stream[m[n]].ts >= updateTime

\* What a tree completes are matches of the stream.
LEMMA CompletedAreMatches ==
    ASSUME NEW t, IsTree(t)
    PROVE  Completed(t.held) \subseteq Matches
<1> DEFINE G == [n \in Name |-> Accepted(n)]
<1>1. \A n \in Positive : n \in Name /\ t.held[n] \subseteq G[n]
  BY DEF IsTree, Name
<1> QED
  BY <1>1, CompletedMonotone DEF Matches

\* An event enters the leaves only by being played.
LEMMA PlayedHoldsOnly ==
    ASSUME NEW tr, IsTree(tr), NEW e, NEW t \in Played(tr, e)
    PROVE  \A n \in Name : t.held[n] \subseteq tr.held[n] \cup {e}
<1>1. PICK due \in SUBSET ToSet(tr.plan) :
        t = [plan |-> tr.plan, held |-> HeldAfter(tr, e, due),
             pending |-> t.pending, ready |-> t.ready]
  BY PlayedShape
<1>2. t.held = HeldAfter(tr, e, due)
  BY <1>1
<1>3. \A n \in Name : HeldAfter(tr, e, due)[n] \subseteq tr.held[n] \cup {e}
  BY DEF HeldAfter
<1> QED
  BY <1>2, <1>3

\* Nothing becomes ready or pending but what was pending or is completed.
LEMMA PlayedFlushes ==
    ASSUME setup.negated, NEW tr, IsTree(tr), NEW e, NEW t \in Played(tr, e)
    PROVE  /\ \A m \in t.ready :
                m \in tr.ready \/ (m \in tr.pending /\ Expired(m, stream[e].ts))
           /\ \A m \in t.pending : m \in tr.pending \/ m \in Completed(t.held)
<1>1. PICK due \in SUBSET {n \in ToSet(tr.plan) :
                            \E d \in tr.held[n] : stream[d].ts < stream[e].ts - Window} :
        LET held == HeldAfter(tr, e, due)
            new == {m \in Completed(held) : e \in EventsOf(m)}
            open == {m \in new : \A d \in held[Negated] : ~ Prevents(m, d)}
            flushed == IF new = {} THEN {}
                       ELSE {m \in tr.pending : Expired(m, stream[e].ts)}
            kept == IF Negated \in Takers(tr, e)
                    THEN {m \in tr.pending : ~ Prevents(m, e)}
                    ELSE tr.pending \ flushed
        IN  t = [tr EXCEPT
                    !.held = held,
                    !.pending = IF setup.negated THEN kept \cup open ELSE {},
                    !.ready = @ \cup IF setup.negated THEN flushed ELSE new]
  BY DEF Played
<1> DEFINE held == HeldAfter(tr, e, due)
           new == {m \in Completed(held) : e \in EventsOf(m)}
           open == {m \in new : \A d \in held[Negated] : ~ Prevents(m, d)}
           flushed == IF new = {} THEN {}
                      ELSE {m \in tr.pending : Expired(m, stream[e].ts)}
           kept == IF Negated \in Takers(tr, e)
                   THEN {m \in tr.pending : ~ Prevents(m, e)}
                   ELSE tr.pending \ flushed
<1>2. t = [tr EXCEPT !.held = held, !.pending = kept \cup open, !.ready = @ \cup flushed]
  BY <1>1
<1>3. t.held = held /\ t.pending = kept \cup open /\ t.ready = tr.ready \cup flushed
  <2> HIDE DEF held, kept, open, flushed
  <2> QED
    BY <1>2 DEF IsTree
<1>4. /\ \A m \in flushed : m \in tr.pending /\ Expired(m, stream[e].ts)
      /\ kept \subseteq tr.pending
      /\ open \subseteq Completed(held)
  OBVIOUS
<1> QED
  BY <1>3, <1>4

\* A tree next to the one in charge after it has played the newest event.
LEMMA PlayedAlongside ==
    ASSUME stream \in Seq(Event), stream # <<>>, TimeInv, NEW tr, IsTree(tr),
           NEW t \in Played(tr, Newest), Now - updateTime <= Window, Now >= updateTime,
           ~ setup.negated => tr.ready \subseteq Matches,
           setup.negated =>
            /\ tr.ready = {}
            /\ \A n \in Name : \A d \in tr.held[n] : stream[d].ts >= updateTime
            /\ \A m \in tr.pending : \A n \in Positive :
                m[n] \in EventIds /\ stream[m[n]].ts >= updateTime
    PROVE  /\ ~ setup.negated => t.ready \subseteq Matches
           /\ setup.negated =>
            /\ t.ready = {}
            /\ \A n \in Name : \A d \in t.held[n] : stream[d].ts >= updateTime
            /\ \A m \in t.pending : \A n \in Positive :
                m[n] \in EventIds /\ stream[m[n]].ts >= updateTime
<1>1. Newest \in EventIds /\ Now \in Nat /\ updateTime \in Int
  BY EventTypes DEF TimeInv
<1>2. IsTree(t) /\ Completed(t.held) \subseteq Matches
  BY <1>1, PlayedTree, CompletedAreMatches
<1>3. ~ setup.negated => t.ready \subseteq Matches
  BY <1>1, <1>2, PlayedHolds
<1>4. ASSUME setup.negated
      PROVE  \A n \in Name : \A d \in t.held[n] : stream[d].ts >= updateTime
  <2> SUFFICES ASSUME NEW n \in Name, NEW d \in t.held[n] PROVE stream[d].ts >= updateTime
    OBVIOUS
  <2>1. d \in tr.held[n] \/ d = Newest
    BY PlayedHoldsOnly
  <2> QED
    BY <1>4, <2>1 DEF Now
<1>5. ASSUME setup.negated
      PROVE  t.ready = {}
  <2> SUFFICES ASSUME NEW m \in t.ready PROVE FALSE
    OBVIOUS
  <2>1. m \in tr.pending /\ Expired(m, Now)
    BY <1>5, PlayedFlushes DEF Now
  <2>2. PICK n \in Positive : stream[m[n]].ts < Now - Window
    BY <2>1 DEF Expired
  <2>3. m[n] \in EventIds /\ stream[m[n]].ts >= updateTime
    BY <1>5, <2>1
  <2> QED
    BY <1>1, <2>2, <2>3, EventTypes, WindowAssumption
<1>6. ASSUME setup.negated, NEW m \in t.pending, NEW n \in Positive
      PROVE  m[n] \in EventIds /\ stream[m[n]].ts >= updateTime
  <2>1. CASE m \in tr.pending
    BY <1>6, <2>1
  <2>2. CASE m \in Completed(t.held)
    <3>1. n \in Name /\ m[n] \in t.held[n]
      BY <2>2 DEF Completed, Name
    <3> QED
      BY <1>2, <1>4, <1>6, <3>1 DEF IsTree
  <2> QED
    BY <1>6, <2>1, <2>2, PlayedFlushes
<1> QED
  BY <1>3, <1>4, <1>5, <1>6

LEMMA ReadEventDiscard == IInv /\ ExactInv /\ DiscardInv /\ ReadEvent => DiscardInv'
<1> SUFFICES ASSUME IInv, ExactInv, DiscardInv, ReadEvent PROVE DiscardInv'
  OBVIOUS
<1>1. stream \in Seq(Event) /\ setup' = setup /\ TreeInv
  BY DEF IInv, ControlInv, ReadEvent
<1>2. PICK e \in Event : stream' = Append(stream, e) /\ (stream # <<>> => e.ts >= Now)
  BY <1>1, ReadEventAppends DEF IInv
<1>3. /\ phase = "idle" /\ phase' = "counted"
      /\ UNCHANGED <<tree, newTree, updateTime>>
  BY DEF ReadEvent
<1>4. /\ Newest' \notin EventIds /\ EventIds \subseteq EventIds'
      /\ \A d \in EventIds : stream'[d] = stream[d]
      /\ Matches \subseteq Matches'
  <2>1. Newest' = Newest + 1 /\ Newest \in Nat
    BY <1>1, <1>2, StreamGrows DEF Newest
  <2>2. Newest' \notin EventIds
    BY <2>1 DEF EventIds
  <2> QED
    BY <1>1, <1>2, <2>2, StreamGrows, MatchesGrow
<1>5. \A n \in Name : Newest' \notin tree.held[n]
  BY <1>1, <1>4 DEF TreeInv, IsTree
<1>6. ASSUME setup.negated, newTree # NoTree
      PROVE  \A n \in Name : \A d \in newTree.held[n] : stream'[d].ts >= updateTime
  <2>1. \A n \in Name : newTree.held[n] \subseteq EventIds
    BY <1>1, <1>6 DEF TreeInv, IsTree
  <2> QED
    BY <1>4, <1>6, <2>1 DEF DiscardInv
<1>7. ASSUME setup.negated, newTree # NoTree
      PROVE  \A m \in newTree.pending : \A n \in Positive :
                m[n] \in EventIds' /\ stream'[m[n]].ts >= updateTime
  BY <1>4, <1>7 DEF DiscardInv
<1>8. newTree # NoTree => stream' # <<>> /\ Now' >= updateTime
  <2> SUFFICES ASSUME newTree # NoTree PROVE stream' # <<>> /\ Now' >= updateTime
    OBVIOUS
  <2>1. stream # <<>> /\ Now >= updateTime /\ updateTime \in Int /\ Now \in Nat
    BY <1>1, EventTypes DEF DiscardInv, ExactInv, TimeInv
  <2>2. Now' = e.ts /\ Now' >= Now /\ e.ts \in Nat
    BY <1>1, <1>2, <2>1, StreamGrows DEF Event
  <2> QED
    BY <1>1, <1>2, <2>1, <2>2
<1> QED
  BY <1>1, <1>3, <1>4, <1>5, <1>6, <1>7, <1>8 DEF DiscardInv

LEMMA ReplayEventDiscard ==
    IInv /\ ExactInv /\ DiscardInv /\ ReplayEvent => DiscardInv'
<1> SUFFICES ASSUME IInv, ExactInv, DiscardInv, ReplayEvent PROVE DiscardInv'
  OBVIOUS
<1>1. /\ UNCHANGED <<setup, stream, phase, newTree, updateTime>> /\ phase = "replaying"
      /\ replay # <<>> /\ tree' \in Played(tree, Head(replay)) /\ replay' = Tail(replay)
  BY DEF ReplayEvent
<1>2. /\ stream \in Seq(Event) /\ TimeInv /\ IsTree(tree) /\ replay \in Seq(EventIds)
  BY DEF IInv, ControlInv, TreeInv, ExactInv
<1>3. Head(replay) \in EventIds /\ Head(replay) \in ToSet(replay)
  <2>1. replay[1] = Head(replay) /\ 1 \in DOMAIN replay
    BY <1>1, <1>2
  <2> QED
    BY <1>1, <1>2, <2>1 DEF ToSet
<1>4. ToSet(Tail(replay)) \subseteq ToSet(replay)
  <2>1. \A i \in DOMAIN Tail(replay) : i + 1 \in DOMAIN replay /\ Tail(replay)[i] = replay[i + 1]
    BY <1>1, <1>2
  <2> QED
    BY <2>1 DEF ToSet
<1>5. IsTree(tree') /\ \A n \in Name : tree'.held[n] \subseteq tree.held[n] \cup {Head(replay)}
  BY <1>1, <1>2, <1>3, PlayedTree, PlayedHoldsOnly
<1>6. \A n \in Name : Newest \notin tree'.held[n]
  BY <1>1, <1>3, <1>5 DEF DiscardInv
<1>7. ASSUME ~ setup.negated
      PROVE  tree'.ready \subseteq Matches \ WithNewest(Matches)
  <2>1. tree'.ready = tree.ready \cup {m \in Completed(tree'.held) : Head(replay) \in EventsOf(m)}
    BY <1>1, <1>2, <1>3, <1>7, PlayedHolds
  <2>2. Completed(tree'.held) \subseteq Matches
    BY <1>5, CompletedAreMatches
  <2>3. \A m \in Completed(tree'.held) : Newest \notin EventsOf(m)
    BY <1>6 DEF Completed, EventsOf, Name
  <2> QED
    BY <1>1, <1>7, <2>1, <2>2, <2>3 DEF DiscardInv, WithNewest
<1> QED
  BY <1>1, <1>3, <1>4, <1>6, <1>7, StreamStays DEF DiscardInv

LEMMA PlayEventDiscard == IInv /\ ExactInv /\ DiscardInv /\ PlayEvent => DiscardInv'
<1> SUFFICES ASSUME IInv, ExactInv, DiscardInv, PlayEvent PROVE DiscardInv'
  OBVIOUS
<1>1. /\ UNCHANGED <<setup, stream, updateTime>>
      /\ phase = "playing" /\ phase' = "collecting"
      /\ newTree' # NoTree => newTree # NoTree /\ newTree' \in Played(newTree, Newest)
      /\ newTree # NoTree => ~ (Now - updateTime > Window)
  BY DEF PlayEvent, SwitchDue
<1>2. /\ stream \in Seq(Event) /\ stream # <<>> /\ TimeInv
      /\ newTree # NoTree => IsTree(newTree)
  BY <1>1 DEF IInv, ControlInv, TreeInv, ExactInv
<1>3. CASE newTree' = NoTree
  BY <1>1, <1>3 DEF DiscardInv
<1>4. CASE newTree' # NoTree
  <2>1. Now \in Nat /\ updateTime \in Int /\ Window \in Nat
    BY <1>2, EventTypes, WindowAssumption DEF TimeInv
  <2>2. Now - updateTime <= Window
    BY <1>1, <1>4, <2>1
  <2>3. Now >= updateTime
    BY <1>1, <1>2, <1>4 DEF DiscardInv
  <2>4. /\ ~ setup.negated => newTree'.ready \subseteq Matches
        /\ setup.negated =>
            /\ newTree'.ready = {}
            /\ \A n \in Name : \A d \in newTree'.held[n] : stream[d].ts >= updateTime
            /\ \A m \in newTree'.pending : \A n \in Positive :
                m[n] \in EventIds /\ stream[m[n]].ts >= updateTime
    BY <1>1, <1>2, <1>4, <2>2, <2>3, PlayedAlongside DEF DiscardInv
  <2> QED
    BY <1>1, <2>4, StreamStays DEF DiscardInv
<1> QED
  BY <1>3, <1>4

LEMMA CollectMatchesDiscard == IInv /\ DiscardInv /\ CollectMatches => DiscardInv'
<1> SUFFICES ASSUME IInv, DiscardInv, CollectMatches PROVE DiscardInv'
  OBVIOUS
<1>1. /\ UNCHANGED <<setup, stream, updateTime>>
      /\ phase = "collecting" /\ phase' = "idle"
      /\ newTree' = IF newTree = NoTree THEN NoTree ELSE [newTree EXCEPT !.ready = {}]
  BY DEF CollectMatches
<1>2. newTree' # NoTree => /\ newTree # NoTree
                          /\ newTree'.ready = {}
                          /\ newTree'.held = newTree.held
                          /\ newTree'.pending = newTree.pending
  BY <1>1 DEF IInv, TreeInv, IsTree
<1> QED
  BY <1>1, <1>2, StreamStays DEF DiscardInv

LEMMA NextDiscard == IInv /\ ExactInv /\ DiscardInv /\ [Next]_vars => DiscardInv'
<1> SUFFICES ASSUME IInv, ExactInv, DiscardInv, [Next]_vars PROVE DiscardInv'
  OBVIOUS
<1>1. CASE KeepPlan \/ DiscardReplayed \/ Close \/ UNCHANGED vars
  <2>1. /\ UNCHANGED <<setup, stream, newTree, updateTime>>
        /\ tree'.held = tree.held
        /\ \/ phase' = phase /\ tree' = tree /\ replay' = replay
           \/ phase = "counted" /\ phase' = "playing"
           \/ phase = "replaying" /\ phase' = "playing"
           \/ phase' = "closed"
    BY <1>1 DEF KeepPlan, DiscardReplayed, Close, vars, IInv, TreeInv, IsTree
  <2> QED
    BY <2>1, StreamStays DEF DiscardInv
<1>2. CASE ReplaceTree
  <2>1. /\ UNCHANGED <<setup, stream, newTree, updateTime>>
        /\ phase = "counted" /\ phase' = "replaying"
        /\ replay' \in OldEventOrders
    BY <1>2 DEF ReplaceTree
  <2>2. tree'.ready = {} /\ \A n \in Name : tree'.held[n] = {}
    BY <1>2 DEF ReplaceTree, EmptyTree
  <2>3. Newest \notin ToSet(replay')
    <3>1. tree.plan \in [DOMAIN Order -> Used] /\ Used \subseteq Name
      BY DEF IInv, TreeInv, IsTree, IsPlan, Used, Name
    <3>2. \A i \in DOMAIN tree.plan : Newest \notin tree.held[tree.plan[i]]
      BY <2>1, <3>1 DEF DiscardInv
    <3> QED
      BY <2>1, <3>2 DEF OldEventOrders
  <2> QED
    BY <2>1, <2>2, <2>3, StreamStays DEF DiscardInv
<1>3. CASE StartSimultaneous
  <2>1. /\ UNCHANGED <<setup, stream, tree>>
        /\ phase = "counted" /\ phase' = "playing" /\ updateTime' = Now
        /\ newTree'.ready = {} /\ newTree'.pending = {} /\ \A n \in Name : newTree'.held[n] = {}
    BY <1>3 DEF StartSimultaneous, EmptyTree
  <2>2. stream # <<>> /\ Now \in Nat
    BY <2>1, EventTypes DEF IInv, ControlInv
  <2> QED
    BY <2>1, <2>2, StreamStays DEF DiscardInv
<1>4. CASE PlayAndSwitch
  BY <1>4 DEF PlayAndSwitch, DiscardInv
<1> QED
  BY <1>1, <1>2, <1>3, <1>4, ReadEventDiscard, ReplayEventDiscard, PlayEventDiscard,
     CollectMatchesDiscard DEF Next

\* What a replay or a tree alongside has found, and what is thrown away with it,
\* is in the output by the end of the step (the comments in _tree_update and
\* _get_matches).
THEOREM DiscardsNothingNew == Spec => DiscardedWereReported
<1>1. Init => IInv /\ ExactInv /\ DiscardInv
  <2>1. ASSUME Init
        PROVE  DiscardInv
    BY <2>1 DEF Init, DiscardInv
  <2> QED
    BY <2>1, InitInv, InitExact
<1>2. IInv /\ ExactInv /\ DiscardInv /\ [Next]_vars => IInv' /\ ExactInv' /\ DiscardInv'
  BY NextInv, NextExact, NextDiscard
<1>3. ASSUME IInv, ExactInv, ExactInv', DiscardInv, [Next]_vars
      PROVE  [ReplaySafe =>
                /\ phase = "replaying" /\ phase' = "playing" /\ ~ setup.negated
                    => tree.ready \subseteq Reported
                /\ phase = "collecting" /\ newTree # NoTree
                    => newTree.ready \subseteq Reported']_vars
  <2> SUFFICES ASSUME Next, ReplaySafe
               PROVE  /\ phase = "replaying" /\ phase' = "playing" /\ ~ setup.negated
                          => tree.ready \subseteq Reported
                      /\ phase = "collecting" /\ newTree # NoTree
                          => newTree.ready \subseteq Reported'
    BY <1>3
  <2>1. phase = "replaying" /\ ~ setup.negated => tree.ready \subseteq Reported
    BY <1>3 DEF DiscardInv, ExactInv, ReportInv, Settled
  <2>2. ASSUME phase = "collecting", newTree # NoTree
        PROVE  newTree.ready \subseteq Reported'
    <3>1. CASE setup.negated
      BY <1>3, <2>2, <3>1 DEF DiscardInv
    <3>2. CASE ~ setup.negated
      <4>1. UNCHANGED <<setup, stream>> /\ phase' = "idle"
        BY <2>2 DEF Next, ReadEvent, KeepPlan, ReplaceTree, ReplayEvent, DiscardReplayed,
                    StartSimultaneous, PlayEvent, PlayAndSwitch, CollectMatches, Close
      <4>2. Reported' = Matches
        BY <1>3, <3>2, <4>1, StreamStays DEF ExactInv, ReportInv, Settled
      <4> QED
        BY <1>3, <2>2, <3>2, <4>2 DEF DiscardInv
    <3> QED
      BY <3>1, <3>2
  <2> QED
    BY <2>1, <2>2
<1> QED
  BY <1>1, <1>2, <1>3, PTL DEF Spec, DiscardedWereReported

-----------------------------------------------------------------------------
(* The arrival rates                                                       *)

\* The events of the last statistics window.
InWindow == {d \in EventIds : Now - stream[d].ts <= RatesWindow}

NoneBefore(s) == \A i, j \in DOMAIN s : i <= j => s[i] <= s[j]

\* They are the arrivals that are remembered, in their order, and the rates
\* count them.
ArrivalsInv ==
    /\ arrivals \in Seq(EventIds)
    /\ NoneBefore(arrivals)
    /\ stream # <<>> => ToSet(arrivals) = InWindow
    /\ rates = [n \in Used |->
                    Cardinality({d \in ToSet(arrivals) : stream[d].type = TypeOf[n]})]

\* A set of natural numbers that is not empty has a least element.
LEMMA MinIsLeast ==
    ASSUME NEW S \in SUBSET Nat, S # {}
    PROVE  Min(S) \in S /\ \A i \in S : Min(S) <= i
<1>1. PICK k \in S : \A j \in S : ~ (<<j, k>> \in OpToRel(<, Nat))
  BY NatLessThanWellFounded, WFMin
<1>2. k \in Nat /\ \A j \in S : j \in Nat /\ ~ (j < k)
  BY <1>1 DEF OpToRel
<1>3. \A j \in S : k <= j
  BY <1>2
<1>4. Min(S) = CHOOSE x \in S : \A y \in S : x <= y
  BY DEF Min
<1> QED
  BY <1>3, <1>4

\* A suffix of a sequence, from the least index of a set that goes on to the
\* end.
LEMMA SuffixFrom ==
    ASSUME NEW S \in SUBSET Nat, NEW list \in Seq(S), NoneBefore(list),
           NEW L \in SUBSET DOMAIN list, L # {},
           \A i \in L : \A j \in DOMAIN list : i <= j => j \in L,
           NEW s, s = SubSeq(list, Min(L), Len(list))
    PROVE  /\ s \in Seq(S)
           /\ NoneBefore(s)
           /\ ToSet(s) = {list[i] : i \in L}
<1>1. PICK k \in Nat : Len(list) = k /\ DOMAIN list = 1..k
  BY LenProperties
<1>2. PICK c \in Nat : c = Min(L) /\ c \in L /\ c \in 1..k /\ \A i \in L : c <= i
  <2>1. L \in SUBSET Nat
    BY <1>1
  <2> QED
    BY <1>1, <2>1, MinIsLeast
<1>3. c \in Nat /\ k \in Nat /\ c >= 1 /\ c <= k /\ s = SubSeq(list, c, k)
  BY <1>1, <1>2
<1>4. \A i \in 1..k : list[i] \in S
  BY <1>1, ElementOfSeq
<1>5. /\ s \in Seq(S)
      /\ Len(s) = k - c + 1
      /\ \A i \in 1..(k - c + 1) : s[i] = list[c + i - 1]
  <2>1. c \in Int /\ k \in Int /\ \A i \in c..k : list[i] \in S
    BY ONLY <1>3, <1>4
  <2>2. /\ SubSeq(list, c, k) \in Seq(S)
        /\ Len(SubSeq(list, c, k)) = IF c <= k THEN k - c + 1 ELSE 0
        /\ \A i \in 1..(k - c + 1) : SubSeq(list, c, k)[i] = list[c + i - 1]
    BY ONLY <2>1, SubSeqProperties
  <2> QED
    BY ONLY <1>3, <2>2
<1>6. DOMAIN s = 1..(k - c + 1)
  BY <1>5, LenProperties
<1>7. ASSUME NEW i \in 1..(k - c + 1)
      PROVE  s[i] = list[c + i - 1] /\ c + i - 1 \in 1..k /\ c <= c + i - 1
  BY ONLY <1>3, <1>5, <1>7
<1>8. NoneBefore(s)
  <2> SUFFICES ASSUME NEW i \in 1..(k - c + 1), NEW j \in 1..(k - c + 1), i <= j
               PROVE  s[i] <= s[j]
    BY <1>6 DEF NoneBefore
  <2>1. /\ s[i] = list[c + i - 1] /\ c + i - 1 \in 1..k
        /\ s[j] = list[c + j - 1] /\ c + j - 1 \in 1..k
    BY <1>7
  <2>2. c + i - 1 <= c + j - 1
    OBVIOUS
  <2> QED
    BY <1>1, <2>1, <2>2 DEF NoneBefore
<1>9. ASSUME NEW i \in DOMAIN s
      PROVE  \E h \in L : s[i] = list[h]
  <2>1. s[i] = list[c + i - 1] /\ c + i - 1 \in 1..k /\ c <= c + i - 1
    BY <1>6, <1>7
  <2>2. c + i - 1 \in L
    BY <1>1, <1>2, <2>1
  <2> QED
    BY <2>1, <2>2
<1>10. ASSUME NEW h \in L
       PROVE  \E i \in DOMAIN s : list[h] = s[i]
  <2>1. h \in 1..k /\ c <= h
    BY <1>1, <1>2
  <2>2. PICK i \in Nat : i = h - c + 1
    BY <2>1
  <2>3. i \in 1..(k - c + 1) /\ c + i - 1 = h
    BY <2>1, <2>2
  <2>4. s[i] = list[c + i - 1]
    BY <1>7, <2>3
  <2> QED
    BY <1>6, <2>3, <2>4
<1>11. ToSet(s) = {list[i] : i \in L}
  <2>1. ToSet(s) = {s[i] : i \in DOMAIN s}
    BY DEF ToSet
  <2> QED
    BY ONLY <1>9, <1>10, <2>1
<1> QED
  BY <1>5, <1>8, <1>11

\* A sequence over S, in its order, of the members of X.
Lists(list, S, X) == list \in Seq(S) /\ NoneBefore(list) /\ ToSet(list) = X

\* The hypotheses of LiveSuffix: the events up to new and their times, the
\* arrivals before it, the indices of the live ones, what is kept and who is live.
Trims(old, new, time, arr, range, L, live, X) ==
    LET list == Append(arr, new)
    IN  /\ old \in Nat /\ new \in Nat /\ new = old + 1
        /\ time \in [1..new -> Nat]
        /\ \A d, f \in 1..new : d <= f => time[d] <= time[f]
        /\ arr \in Seq(1..old) /\ NoneBefore(arr)
        /\ range \in Nat
        /\ L \in SUBSET DOMAIN list
        /\ \A i \in DOMAIN list : i \in L <=> time[new] - time[list[i]] <= range
        /\ live = IF L = {} THEN <<>> ELSE SubSeq(list, Min(L), Len(list))
        /\ X \in SUBSET (ToSet(arr) \cup {new})
        /\ \A d \in ToSet(arr) \cup {new} : d \in X <=> time[new] - time[d] <= range

\* What is removed lies before what is kept: of a sequence of events in their
\* order, with one more at the end, the suffix from the first live one has those
\* that are live.
LEMMA LiveSuffix ==
    ASSUME NEW old, NEW new, NEW time, NEW arr, NEW range, NEW L, NEW live, NEW X,
           Trims(old, new, time, arr, range, L, live, X)
    PROVE  Lists(live, 1..new, X)
<1> PICK list : list = Append(arr, new)
  OBVIOUS
<1>0. /\ old \in Nat /\ new \in Nat /\ new = old + 1
      /\ time \in [1..new -> Nat]
      /\ \A d, f \in 1..new : d <= f => time[d] <= time[f]
      /\ arr \in Seq(1..old) /\ NoneBefore(arr)
      /\ range \in Nat
      /\ L \in SUBSET DOMAIN list
      /\ \A i \in DOMAIN list : i \in L <=> time[new] - time[list[i]] <= range
      /\ live = IF L = {} THEN <<>> ELSE SubSeq(list, Min(L), Len(list))
      /\ X \in SUBSET (ToSet(arr) \cup {new})
      /\ \A d \in ToSet(arr) \cup {new} : d \in X <=> time[new] - time[d] <= range
  BY DEF Trims
<1> USE <1>0
<1>1. PICK k \in Nat : Len(arr) = k /\ DOMAIN arr = 1..k
  BY LenProperties
<1>2. \A i \in 1..k : arr[i] \in 1..old
  BY <1>1, ElementOfSeq
<1>3. arr \in Seq(1..new)
  <2>1. \A i \in 1..Len(arr) : arr[i] \in 1..new
    BY <1>1, <1>2
  <2> QED
    BY <2>1, IsASeq
<1>4. /\ list \in Seq(1..new) /\ Len(list) = k + 1
      /\ \A i \in 1..k : list[i] = arr[i]
      /\ list[k + 1] = new
  <2>1. new \in 1..new
    OBVIOUS
  <2> QED
    BY <1>1, <1>3, <2>1, AppendProperties
<1>5. DOMAIN list = 1..(k + 1) /\ \A i \in 1..(k + 1) : list[i] \in 1..new
  <2>1. DOMAIN list = 1..(k + 1)
    BY <1>4, LenProperties
  <2> QED
    BY <1>4, <2>1, ElementOfSeq
<1>6. ASSUME NEW i \in 1..(k + 1), NEW j \in 1..(k + 1), i <= j
      PROVE  list[i] <= list[j]
  <2>1. CASE j \in 1..k
    <3>1. i \in 1..k
      BY <1>6, <2>1
    <3>2. arr[i] <= arr[j]
      BY <1>1, <1>6, <2>1, <3>1 DEF NoneBefore
    <3> QED
      BY <1>4, <2>1, <3>1, <3>2
  <2>2. CASE j = k + 1
    <3>1. list[j] = new /\ list[i] \in 1..new
      BY <1>4, <1>5, <2>2
    <3>2. new \in Nat
      OBVIOUS
    <3> QED
      BY ONLY <3>1, <3>2
  <2>3. j \in 1..k \/ j = k + 1
    OBVIOUS
  <2> QED
    BY <2>1, <2>2, <2>3
<1>7. NoneBefore(list)
  BY <1>5, <1>6 DEF NoneBefore
<1>8. k + 1 \in L /\ L \in SUBSET DOMAIN list
  <2>1. time[new] - time[list[k + 1]] = 0
    BY <1>4
  <2>2. k + 1 \in 1..(k + 1)
    OBVIOUS
  <2> QED
    <3>1. k + 1 \in DOMAIN list
      BY <1>5, <2>2
    <3>2. time[new] - time[list[k + 1]] <= range
      <4>1. range \in Nat
        OBVIOUS
      <4> QED
        BY ONLY <2>1, <4>1
    <3> QED
      BY <3>1, <3>2
<1>9. ASSUME NEW i \in L, NEW j \in DOMAIN list, i <= j
      PROVE  j \in L
  <2>1. i \in 1..(k + 1) /\ j \in 1..(k + 1) /\ time[new] - time[list[i]] <= range
    BY <1>5
  <2>2. list[i] <= list[j] /\ list[i] \in 1..new /\ list[j] \in 1..new
    BY <1>5, <1>6, <1>9, <2>1
  <2>3. time[list[i]] <= time[list[j]] /\ time[list[i]] \in Nat /\ time[list[j]] \in Nat
    BY <2>2
  <2>4. time[new] \in Nat /\ range \in Nat
    OBVIOUS
  <2>5. time[new] - time[list[j]] <= range
    BY ONLY <2>1, <2>3, <2>4
  <2> QED
    BY <2>5
<1>10. /\ live \in Seq(1..new)
       /\ NoneBefore(live)
       /\ ToSet(live) = {list[i] : i \in L}
  <2>1. live = SubSeq(list, Min(L), Len(list)) /\ L # {} /\ L \in SUBSET DOMAIN list
    BY <1>8
  <2>2. \A i \in L : \A j \in DOMAIN list : i <= j => j \in L
    BY <1>9
  <2>3. 1..new \in SUBSET Nat /\ list \in Seq(1..new)
    BY <1>4
  <2> QED
    BY ONLY <1>7, <2>1, <2>2, <2>3, SuffixFrom
<1>11. ASSUME NEW i \in L
       PROVE  list[i] \in ToSet(arr) \cup {new} /\ time[new] - time[list[i]] <= range
  <2>1. i \in 1..(k + 1)
    BY <1>5
  <2>2. CASE i \in 1..k
    <3>1. list[i] = arr[i] /\ i \in DOMAIN arr
      BY <1>1, <1>4, <2>2
    <3> QED
      BY <3>1 DEF ToSet
  <2>3. CASE i = k + 1
    BY <1>4, <2>3
  <2>4. k \in Nat
    OBVIOUS
  <2>5. i \in 1..k \/ i = k + 1
    BY ONLY <2>1, <2>4
  <2> QED
    BY <1>11, <2>2, <2>3, <2>5
<1>12. ASSUME NEW d \in ToSet(arr) \cup {new}, time[new] - time[d] <= range
       PROVE  \E i \in L : d = list[i]
  <2>1. \E i \in DOMAIN list : list[i] = d
    <3>1. CASE d = new
      <4>1. k + 1 \in DOMAIN list
        BY <1>5
      <4> QED
        BY <1>4, <3>1, <4>1
    <3>2. CASE d \in ToSet(arr)
      <4>1. PICK i \in 1..k : arr[i] = d
        BY <1>1, <3>2 DEF ToSet
      <4>2. i \in DOMAIN list /\ list[i] = d
        BY <1>4, <1>5, <4>1
      <4> QED
        BY <4>2
    <3> QED
      BY <3>1, <3>2
  <2>2. PICK i \in DOMAIN list : list[i] = d
    BY <2>1
  <2> QED
    BY <1>12, <2>2
<1>13. ToSet(live) = X
  <2>1. \A i \in L : list[i] \in X
    BY <1>11
  <2>2. \A d \in X : \E i \in L : d = list[i]
    BY <1>12
  <2> QED
    BY ONLY <1>10, <2>1, <2>2
<1> QED
  BY <1>10, <1>13 DEF Lists

\* The live arrivals are the events within the window.
LEMMA LiveArrivalsAre ==
    ASSUME IInv, TimeInv, TimeInv', ArrivalsInv, NEW e \in Event,
           stream' = Append(stream, e), stream # <<>> => e.ts >= Now, setup' = setup,
           NEW live, live = LiveArrivals(Append(arrivals, Newest + 1), e)
    PROVE  /\ live \in Seq(EventIds')
           /\ NoneBefore(live)
           /\ ToSet(live) = InWindow'
           /\ InWindow' \subseteq ToSet(arrivals) \cup {Newest'}
           /\ Newest' \in InWindow' /\ Newest' \notin ToSet(arrivals)
<1>1. /\ stream \in Seq(Event) /\ stream' \in Seq(Event)
      /\ RatesWindow \in Nat /\ arrivals \in Seq(EventIds)
  BY WindowAssumption DEF IInv, ControlInv, ArrivalsInv
<1>2. PICK str \in Seq(Event) : str = stream'
  BY <1>1
<1>3. PICK old \in Nat : old = Newest /\ EventIds = 1..old /\ old = Len(stream)
  BY <1>1 DEF Newest, EventIds
<1>4. PICK new \in Nat : new = Newest' /\ new = Len(str) /\ EventIds' = 1..new
  BY <1>2 DEF Newest, EventIds
<1>5. new = old + 1
  BY <1>1, <1>3, <1>4, StreamGrows
<1>6. \A d \in 1..new : str[d].ts \in Nat
  <2>1. \A d \in 1..new : str[d] \in Event
    BY <1>4, ElementOfSeq
  <2> QED
    BY <2>1 DEF Event
<1>7. PICK time \in [1..new -> Nat] : \A d \in 1..new : time[d] = str[d].ts
  <2>1. [d \in 1..new |-> str[d].ts] \in [1..new -> Nat]
    BY <1>6
  <2> QED
    BY <2>1
<1>8. \A d, f \in 1..new : d <= f => time[d] <= time[f]
  BY <1>2, <1>4, <1>7 DEF TimeInv
<1>9. new \in 1..new /\ time[new] = Now' /\ time[new] = e.ts
  <2>1. Now' = e.ts
    BY <1>1, StreamGrows
  <2>2. Now' = str[new].ts
    BY <1>2, <1>4 DEF Now
  <2>3. new \in 1..new
    BY <1>5
  <2> QED
    BY <1>7, <2>1, <2>2, <2>3
<1>10. PICK list : list = Append(arrivals, new)
  OBVIOUS
<1>11. \A i \in DOMAIN list : list[i] \in 1..new
  <2>1. arrivals \in Seq(1..new)
    <3>1. 1..old \subseteq 1..new
      BY <1>5
    <3> QED
      BY <1>1, <1>3, <3>1, SeqMonotonic
  <2>2. list \in Seq(1..new)
    BY <1>9, <1>10, <2>1, AppendProperties
  <2> QED
    BY <2>2, ElementOfSeq, LenProperties
<1>12. live = IF {i \in DOMAIN list : time[new] - time[list[i]] <= RatesWindow} = {} THEN <<>>
              ELSE SubSeq(list, Min({i \in DOMAIN list : time[new] - time[list[i]] <= RatesWindow}),
                          Len(list))
  <2>1. live = LiveArrivals(list, e)
    BY <1>3, <1>5, <1>10
  <2>2. Append(stream, e) = str
    BY <1>2
  <2>3. {i \in DOMAIN list : e.ts - Append(stream, e)[list[i]].ts <= RatesWindow}
            = {i \in DOMAIN list : time[new] - time[list[i]] <= RatesWindow}
    BY <1>7, <1>9, <1>11, <2>2
  <2> QED
    BY <2>1, <2>3 DEF LiveArrivals
<1>13. /\ live \in Seq(1..new)
       /\ NoneBefore(live)
       /\ ToSet(live) = {d \in ToSet(arrivals) \cup {new} : time[new] - time[d] <= RatesWindow}
  <2>1. arrivals \in Seq(1..old) /\ NoneBefore(arrivals)
    BY <1>1, <1>3 DEF ArrivalsInv
  <2>2. PICK L : L = {i \in DOMAIN list : time[new] - time[list[i]] <= RatesWindow}
    OBVIOUS
  <2>3. live = IF L = {} THEN <<>> ELSE SubSeq(list, Min(L), Len(list))
    BY <1>12, <2>2
  <2>4. /\ old \in Nat /\ new \in Nat /\ time \in [1..new -> Nat] /\ RatesWindow \in Nat
    BY <1>1
  <2>5. L \in SUBSET DOMAIN list /\ \A i \in DOMAIN list :
            i \in L <=> time[new] - time[list[i]] <= RatesWindow
    BY <2>2
  <2>6. PICK X : X = {d \in ToSet(arrivals) \cup {new} : time[new] - time[d] <= RatesWindow}
    OBVIOUS
  <2>7. X \in SUBSET (ToSet(arrivals) \cup {new}) /\ \A d \in ToSet(arrivals) \cup {new} :
            d \in X <=> time[new] - time[d] <= RatesWindow
    BY <2>6
  <2>8. Lists(live, 1..new, X)
    <3>1. Trims(old, new, time, arrivals, RatesWindow, L, live, X)
      BY ONLY <1>5, <1>8, <1>10, <2>1, <2>3, <2>4, <2>5, <2>7 DEF Trims
    <3> QED
      BY ONLY <3>1, LiveSuffix
  <2> QED
    BY <2>6, <2>8 DEF Lists
<1>14. InWindow' = {d \in 1..new : time[new] - time[d] <= RatesWindow}
  BY <1>2, <1>4, <1>7, <1>9 DEF InWindow
<1>15. ASSUME NEW d \in ToSet(arrivals)
       PROVE  d \in 1..old
  BY <1>1, <1>3, ElementOfSeq, LenProperties DEF ToSet
<1>16. ASSUME NEW d \in InWindow', d # new
       PROVE  d \in ToSet(arrivals)
  <2>1. d \in 1..new /\ time[new] - time[d] <= RatesWindow /\ d \in 1..old
    <3>1. d \in 1..new /\ time[new] - time[d] <= RatesWindow
      BY <1>14
    <3>2. old \in Nat
      OBVIOUS
    <3>3. d \in 1..old
      BY ONLY <1>5, <1>16, <3>1, <3>2
    <3> QED
      BY <3>1, <3>3
  <2>2. stream # <<>>
    BY <1>3, <2>1
  <2>3. Now \in Nat /\ stream[d].ts \in Nat
    BY <1>1, <1>3, <2>1, <2>2, EventTypes
  <2>4. time[d] = stream[d].ts /\ time[new] >= Now
    <3>1. str[d] = stream[d]
      BY <1>1, <1>2, <1>3, <2>1, StreamGrows
    <3> QED
      BY <1>7, <1>9, <2>1, <2>2, <3>1
  <2>5. time[new] \in Nat /\ RatesWindow \in Nat
    BY <1>1, <1>9
  <2>6. Now - stream[d].ts <= RatesWindow
    BY ONLY <2>1, <2>3, <2>4, <2>5
  <2> QED
    BY <1>3, <2>1, <2>2, <2>6 DEF ArrivalsInv, InWindow
<1>17. new \in InWindow' /\ new \notin ToSet(arrivals)
  <2>1. time[new] - time[new] = 0
    BY <1>9
  <2>2. new \in InWindow'
    BY <1>1, <1>9, <1>14, <2>1
  <2>3. new \notin 1..old
    BY <1>5
  <2> QED
    BY <1>15, <2>2, <2>3
<1>18. ToSet(live) = InWindow'
  <2>1. 1..old \subseteq 1..new
    BY <1>5
  <2> QED
    BY <1>9, <1>13, <1>14, <1>15, <1>16, <2>1
<1>19. live \in Seq(EventIds')
  BY <1>4, <1>13
<1> QED
  BY <1>4, <1>13, <1>16, <1>17, <1>18, <1>19

\* After an event arrives the window has W of the events A that it had; those
\* of G are gone.
Shifts(A, W, G, new) ==
    /\ IsFiniteSet(A) /\ W \subseteq A \cup {new} /\ new \in W /\ new \notin A
    /\ G = A \ W

\* The events of S that a name counts, P being those of its type.
Tally(S, P) == Cardinality(S \cap P)

\* The rates after the event: one more for its type, one less for each that is
\* no longer within the window.
LEMMA RatesCount ==
    ASSUME NEW A, NEW W, NEW G, NEW new, NEW P, Shifts(A, W, G, new)
    PROVE  /\ Tally(A, P) \in Nat /\ Tally(G, P) \in Nat
           /\ new \in P => Tally(W, P) = Tally(A, P) + 1 - Tally(G, P)
           /\ new \notin P => Tally(W, P) = Tally(A, P) - Tally(G, P)
<1> USE DEF Shifts, Tally
<1>1. IsFiniteSet(A \cap P)
  <2>1. A \cap P \in SUBSET A
    OBVIOUS
  <2> QED
    BY <2>1, FS_Subset
<1>2. PICK R : R = (A \cap P) \ (G \cap P)
  OBVIOUS
<1>3. IsFiniteSet(R) /\ Cardinality(R) = Cardinality(A \cap P) - Cardinality((A \cap P) \cap (G \cap P))
  BY <1>1, <1>2, FS_Difference
<1>4. (A \cap P) \cap (G \cap P) = G \cap P
  OBVIOUS
<1>5. Cardinality(R) \in Nat
  BY <1>3, FS_CardinalityType
<1>6. Cardinality(G \cap P) \in Nat /\ Cardinality(A \cap P) \in Nat
  <2>1. G \cap P \in SUBSET A
    OBVIOUS
  <2>2. IsFiniteSet(G \cap P)
    BY <2>1, FS_Subset
  <2> QED
    BY <1>1, <2>2, FS_CardinalityType
<1>7. PICK a \in Nat, g \in Nat, r \in Nat :
        a = Cardinality(A \cap P) /\ g = Cardinality(G \cap P) /\ r = Cardinality(R)
  BY <1>5, <1>6
<1>8. r = a - g
  BY <1>3, <1>4, <1>7
<1>9. CASE new \in P
  <2>1. W \cap P = R \cup {new} /\ new \notin R
    BY <1>2, <1>9
  <2>2. Cardinality(R \cup {new}) = Cardinality(R) + 1
    BY <1>3, <2>1, FS_AddElement
  <2>3. Cardinality(W \cap P) = r + 1
    BY <1>7, <2>1, <2>2
  <2>4. r + 1 = a + 1 - g
    BY <1>8
  <2> QED
    BY <1>7, <1>9, <2>3, <2>4
<1>10. CASE new \notin P
  <2>1. W \cap P = R
    BY <1>2, <1>10
  <2>2. Cardinality(W \cap P) = a - g
    BY <1>7, <1>8, <2>1
  <2> QED
    BY <1>7, <1>10, <2>2
<1> QED
  BY <1>6, <1>9, <1>10

\* A number for each name, of the events it counts.
CountsOf(S) == [n \in Used |-> Cardinality({d \in S : stream[d].type = TypeOf[n]})]

\* An event that is read is counted, and those it pushes out of the window are
\* taken off.
LEMMA ReadEventArrivals ==
    ASSUME IInv, TimeInv, TimeInv', ArrivalsInv, ReadEvent
    PROVE  ArrivalsInv'
<1>1. stream \in Seq(Event) /\ setup' = setup
  BY DEF IInv, ControlInv, ReadEvent
<1>2. PICK e, live :
        /\ e \in Event /\ stream' = Append(stream, e) /\ (stream # <<>> => e.ts >= Now)
        /\ live = LiveArrivals(Append(arrivals, Newest + 1), e)
        /\ arrivals' = live
        /\ rates' = RatesAfter(e, live)
  <2>0. PICK n \in Used, v \in Val, gap \in 0..MaxGap :
          \E e, live :
            /\ e = [type |-> TypeOf[n], val |-> v, ts |-> IF stream = <<>> THEN 0 ELSE Now + gap]
            /\ live = LiveArrivals(Append(arrivals, Newest + 1), e)
            /\ stream' = Append(stream, e)
            /\ arrivals' = live
            /\ rates' = RatesAfter(e, live)
    BY DEF ReadEvent
  <2>1. PICK e, live :
          /\ e = [type |-> TypeOf[n], val |-> v, ts |-> IF stream = <<>> THEN 0 ELSE Now + gap]
          /\ live = LiveArrivals(Append(arrivals, Newest + 1), e)
          /\ stream' = Append(stream, e)
          /\ arrivals' = live
          /\ rates' = RatesAfter(e, live)
    BY <2>0
  <2>2. n \in Name
    BY DEF Used, Name
  <2>3. gap \in Nat /\ (stream # <<>> => Now \in Nat)
    BY <1>1, EventTypes, BoundAssumption
  <2>4. e.ts \in Nat /\ (stream # <<>> => e.ts >= Now)
    BY <2>1, <2>3
  <2>5. e \in Event
    BY <2>1, <2>2, <2>4 DEF Event
  <2> QED
    BY <2>1, <2>4, <2>5
<1>3. /\ live \in Seq(EventIds')
      /\ NoneBefore(live)
      /\ ToSet(live) = InWindow'
      /\ InWindow' \subseteq ToSet(arrivals) \cup {Newest'}
      /\ Newest' \in InWindow' /\ Newest' \notin ToSet(arrivals)
  BY <1>1, <1>2, LiveArrivalsAre
<1>4. /\ \A d \in EventIds : stream'[d] = stream[d]
      /\ stream'[Newest'] = e
      /\ EventIds \subseteq EventIds'
  <2>1. stream'[Newest'] = e
    BY <1>1, <1>2 DEF Newest
  <2> QED
    BY <1>1, <1>2, <2>1, StreamGrows
<1>5. ToSet(arrivals) \subseteq EventIds /\ IsFiniteSet(ToSet(arrivals))
  <2>1. ToSet(arrivals) \subseteq EventIds
    BY ElementOfSeq, LenProperties DEF ArrivalsInv, ToSet
  <2>2. IsFiniteSet(EventIds)
    BY <1>1, FS_Interval DEF EventIds, Newest
  <2> QED
    BY ONLY <2>1, <2>2, FS_Subset
<1>6. ASSUME NEW n \in Used
      PROVE  rates'[n] = Cardinality({d \in ToSet(live) : stream'[d].type = TypeOf[n]})
  <2>1. PICK A, W, G, new : /\ A = ToSet(arrivals) /\ W = ToSet(live)
                            /\ G = A \ W /\ new = Newest'
    OBVIOUS
  <2>2. PICK P : P = {d \in EventIds' : stream'[d].type = TypeOf[n]}
    OBVIOUS
  <2>3. W \cap P = {d \in W : stream'[d].type = TypeOf[n]}
    <3>1. W \subseteq EventIds'
      BY <1>3, <2>1 DEF InWindow
    <3> QED
      BY <2>2, <3>1
  <2>4. A \cap P = {d \in A : stream[d].type = TypeOf[n]}
    BY <1>4, <1>5, <2>1, <2>2
  <2>5. G \cap P = {d \in G : stream[d].type = TypeOf[n]}
    BY <1>4, <1>5, <2>1, <2>2
  <2>6. (new \in P) <=> (TypeOf[n] = e.type)
    <3>1. new \in EventIds'
      BY <1>3, <2>1 DEF InWindow
    <3> QED
      BY <1>4, <2>1, <2>2, <3>1
  <2>7. /\ Tally(A, P) \in Nat /\ Tally(G, P) \in Nat
        /\ new \in P => Tally(W, P) = Tally(A, P) + 1 - Tally(G, P)
        /\ new \notin P => Tally(W, P) = Tally(A, P) - Tally(G, P)
    <3>1. Shifts(A, W, G, new)
      BY <1>3, <1>5, <2>1 DEF Shifts
    <3> QED
      BY ONLY <3>1, RatesCount
  <2>8. rates[n] = Tally(A, P)
    BY <2>1, <2>4 DEF ArrivalsInv, Tally
  <2>9. rates'[n] = rates[n] + (IF TypeOf[n] = e.type THEN 1 ELSE 0) - Tally(G, P)
    BY <1>2, <2>1, <2>5 DEF RatesAfter, Tally
  <2>10. rates'[n] = Tally(W, P)
    <3>1. CASE new \in P
      BY <2>6, <2>7, <2>8, <2>9, <3>1
    <3>2. CASE new \notin P
      BY <2>6, <2>7, <2>8, <2>9, <3>2
    <3> QED
      BY <3>1, <3>2
  <2> QED
    BY <2>1, <2>3, <2>10 DEF Tally
<1>7. Used' = Used
  BY <1>1 DEF Used
<1>8. rates' = CountsOf(ToSet(live))'
  <2>1. rates' = [n \in Used |-> rates'[n]]
    BY <1>2 DEF RatesAfter
  <2>2. live' = live
    BY <1>2
  <2> QED
    BY <1>6, <1>7, <2>1 DEF CountsOf
<1> QED
  BY <1>2, <1>3, <1>8 DEF ArrivalsInv, CountsOf

\* Nothing else touches the arrivals or the rates.
LEMMA NextArrivals ==
    IInv /\ ExactInv /\ ArrivalsInv /\ [Next]_vars => ArrivalsInv'
<1> SUFFICES ASSUME IInv, ExactInv, ArrivalsInv, [Next]_vars PROVE ArrivalsInv'
  OBVIOUS
<1>1. CASE ReadEvent
  <2>1. TimeInv /\ TimeInv'
    BY <1>1, ReadEventExact DEF ExactInv
  <2> QED
    BY <1>1, <2>1, ReadEventArrivals
<1>2. CASE ~ ReadEvent
  <2>1. UNCHANGED <<setup, stream, arrivals, rates>>
    BY <1>2 DEF Next, vars, KeepPlan, ReplaceTree, ReplayEvent, DiscardReplayed,
                StartSimultaneous, PlayEvent, PlayAndSwitch, CollectMatches, Close
  <2> QED
    BY <2>1 DEF ArrivalsInv, InWindow, EventIds, Newest, Now, Used
<1> QED
  BY <1>1, <1>2

\* The arrivals and the rates are those of the window in every reachable state.
LEMMA InitArrivals == Init => ArrivalsInv
<1> SUFFICES ASSUME Init PROVE ArrivalsInv
  OBVIOUS
<1>1. arrivals = <<>> /\ stream = <<>> /\ ToSet(arrivals) = {}
  BY DEF Init, ToSet
<1>2. \A n : Cardinality({d \in ToSet(arrivals) : stream[d].type = TypeOf[n]}) = 0
  BY <1>1, FS_EmptySet
<1>3. NoneBefore(arrivals)
  BY <1>1 DEF NoneBefore
<1> QED
  BY <1>1, <1>2, <1>3 DEF Init, ArrivalsInv

\* The rates by which a plan is replaced are the numbers of events of each type
\* within the last statistics window, whatever the stream and the window
\* (ArrivalRatesStatistics.handle_event, __remove_expired_events).
THEOREM RatesAreOfTheWindow == Spec => []RatesCountWindow
<1>1. Init => IInv /\ ExactInv /\ ArrivalsInv
  BY InitInv, InitExact, InitArrivals
<1>2. IInv /\ ExactInv /\ ArrivalsInv /\ [Next]_vars => IInv' /\ ExactInv' /\ ArrivalsInv'
  BY NextInv, NextExact, NextArrivals
<1>3. ASSUME IInv, ArrivalsInv
      PROVE  RatesCountWindow
  <2> SUFFICES ASSUME NEW n \in Used
               PROVE  rates[n] = Cardinality({e \in 1..Newest :
                                        /\ stream[e].type = TypeOf[n]
                                        /\ Now - stream[e].ts <= RatesWindow})
    BY DEF RatesCountWindow
  <2>1. CASE stream = <<>>
    <3>1. ToSet(arrivals) = {} /\ 1..Newest = {}
      BY <1>3, <2>1, ElementOfSeq, LenProperties DEF ArrivalsInv, ToSet, EventIds, Newest
    <3> QED
      BY <1>3, <3>1 DEF ArrivalsInv
  <2>2. CASE stream # <<>>
    <3>1. {d \in ToSet(arrivals) : stream[d].type = TypeOf[n]}
            = {e \in 1..Newest : /\ stream[e].type = TypeOf[n]
                                 /\ Now - stream[e].ts <= RatesWindow}
      BY <1>3, <2>2 DEF ArrivalsInv, InWindow, EventIds
    <3> QED
      BY <1>3, <3>1 DEF ArrivalsInv
  <2> QED
    BY <2>1, <2>2
<1> QED
  BY <1>1, <1>2, <1>3, PTL DEF Spec
=============================================================================
