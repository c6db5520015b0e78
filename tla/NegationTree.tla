---------------------------- MODULE NegationTree ----------------------------
(***************************************************************************)
(* The chain of negation nodes on top of a positive subtree (NegationNode, *)
(* NegativeAndNode, NegativeSeqNode, Tree.get_last_matches).               *)
(*                                                                         *)
(* A positive match climbs the chain level by level; a node whose stored   *)
(* negative events invalidate it drops it.  The lowest unbounded node      *)
(* holds it back as pending, until its window is over or the stream ends;  *)
(* a later unbounded negative event, at any level, deletes the pending     *)
(* matches it invalidates.  Pending matches are flushed from inside the    *)
(* cleanup that the next positive match triggers on its way up, so one     *)
(* climb starts others; the calls in progress are a stack.                 *)
(*                                                                         *)
(* Not represented: the storages of the negation nodes themselves, which   *)
(* no node reads, and the hand-over queues.                                *)
(***************************************************************************)
EXTENDS NegationPattern

CONSTANTS
    CleanUpInterval,    \* additions to a storage between two cleanups of it
    MaxEvents,          \* bound: events in the stream
    MaxGap              \* bound: time between consecutive events

ASSUME BoundAssumption ==
    /\ CleanUpInterval \in Nat \ {0}
    /\ MaxEvents \in Nat
    /\ MaxGap \in Nat

VARIABLES
    stream,     \* the events read so far
    phase,      \* "idle", "playing", "ending" (the last flush) or "closed"
    playing,    \* the leaves the current event has not been played on yet
    stack,      \* the calls in progress, the innermost last
    negStore,   \* [Negative -> sets of events], the leaves of the negated events
    access,     \* [Negative -> Nat], their additions since a cleanup
    pending,    \* __pending_partial_matches of the lowest unbounded node
    unreported, \* _unreported_matches of the root
    matches     \* the output stream

vars == <<stream, phase, playing, stack, negStore, access, pending, unreported,
          matches>>

Levels == Len(Chain)

Newest == Len(stream)

Now == stream[Newest].ts

Top == stack[Len(stack)]

Pop == SubSeq(stack, 1, Len(stack) - 1)

FirstTimestamp(m) ==
    CHOOSE t \in {stream[m[l]].ts : l \in Positive} :
        \A l \in Positive : t <= stream[m[l]].ts

LastTimestamp(m) ==
    CHOOSE t \in {stream[m[l]].ts : l \in Positive} :
        \A l \in Positive : stream[m[l]].ts <= t

\* The node of a level (0: the positive subtree) has added the matches in todo
\* and still has to hand each of them to its parent.
AddFrame(level, todo) == [op |-> "add", level |-> level, todo |-> todo]

\* Match m at the node of a level, still to be compared with negative events.
CompareFrame(level, m, negatives) ==
    [op |-> "compare", level |-> level, match |-> m, todo |-> negatives]

Init ==
    /\ stream = <<>>
    /\ phase = "idle"
    /\ playing = {}
    /\ stack = <<>>
    /\ negStore = [n \in Negative |-> {}]
    /\ access = [n \in Negative |-> 0]
    /\ pending = {}
    /\ unreported = <<>>
    /\ matches = <<>>

-----------------------------------------------------------------------------
(* Reading the stream *)

NextStamps == IF stream = <<>> THEN {0} ELSE Now..(Now + MaxGap)

ReadEvent ==
    /\ phase = "idle"
    /\ Len(stream) < MaxEvents
    /\ \E k \in Kind, ts \in NextStamps :
        stream' = Append(stream, [type |-> k.type, ts |-> ts, val |-> k.val])
    /\ playing' = {l \in Name : TypeOf[l] = stream'[Len(stream')].type}
    /\ phase' = IF playing' = {} THEN "idle" ELSE "playing"
    /\ UNCHANGED <<stack, negStore, access, pending, unreported, matches>>

\* The positive subtree takes the event at leaf l and adds the matches the
\* event completes in that slot.
HandlePositive(l) ==
    /\ stack = <<>>
    /\ l \in playing \cap Positive
    /\ playing' = playing \ {l}
    /\ stack' = <<AddFrame(0, {m \in PositiveMatches(stream) : m[l] = Newest})>>
    /\ UNCHANGED <<stream, phase, negStore, access, pending, unreported, matches>>

-----------------------------------------------------------------------------
(* Cleaning and flushing *)

\* A flush in progress switches the expiration of matches off everywhere.
ExpirationEnabled ==
    \A i \in DOMAIN stack :
        ~ (stack[i].op = "add" /\ stack[i].level = FirstUnbounded
            /\ FirstUnbounded # 0)

CleanupDue(n) == ExpirationEnabled /\ access[n] >= CleanUpInterval

\* Fault: negative events exactly one window old are dropped.
LiveNegativesStrict(n, last) ==
    IF CleanupDue(n)
    THEN {e \in negStore[n] : stream[e].ts >= last - Window + 1}
    ELSE negStore[n]

\* clean_expired_partial_matches on the leaf of a negated event
LiveNegatives(n, last) ==
    IF CleanupDue(n) THEN {e \in negStore[n] : stream[e].ts >= last - Window}
                     ELSE negStore[n]

AccessAfterCleaning(n) == IF CleanupDue(n) THEN 0 ELSE access[n]

\* Fault: matches exactly one window old are released.
ExpiredPendingEarly(last) ==
    {m \in pending : FirstTimestamp(m) <= last - Window}

\* The pending matches flush_pending_matches releases at time last.
ExpiredPending(last) == {m \in pending : FirstTimestamp(m) < last - Window}

-----------------------------------------------------------------------------
(* NegationNode.handle_new_partial_match for a positive match *)

\* The call goes on with the rest of its matches after frames fs.
CallOn(m, fs) == Append(Pop, [Top EXCEPT !.todo = @ \ {m}]) \o fs

\* Match m arrives at the node above: the negative leaf is cleaned and read,
\* then the node cleans itself, which flushes its expired pending matches up
\* the tree before m is compared.
Climb ==
    /\ stack # <<>>
    /\ Top.op = "add"
    /\ Top.level < Levels
    /\ \E m \in Top.todo :
        LET i == Top.level + 1
            n == Chain[i]
            last == LastTimestamp(m)
            live == LiveNegatives(n, last)
            flushed == IF i = FirstUnbounded THEN ExpiredPending(last) ELSE {}
        IN  /\ negStore' = [negStore EXCEPT ![n] = live]
            /\ access' = [access EXCEPT ![n] = AccessAfterCleaning(n)]
            /\ pending' = pending \ flushed
            /\ stack' = CallOn(m, IF flushed = {}
                    THEN <<CompareFrame(i, m, live)>>
                    ELSE <<CompareFrame(i, m, live), AddFrame(i, flushed)>>)
    /\ UNCHANGED <<stream, phase, playing, unreported, matches>>

\* Fault: the flush calls the overriding _add_partial_match, which puts every
\* match back into the list that is being flushed.
ReachPendingAgain ==
    /\ stack # <<>>
    /\ Top.op = "add"
    /\ Top.level = Levels
    /\ Top.todo # {}
    /\ pending' = pending \cup Top.todo
    /\ UNCHANGED <<stream, phase, playing, stack, negStore, access, unreported,
                   matches>>

\* A match the root has added is a full match.
ReachOutput ==
    /\ stack # <<>>
    /\ Top.op = "add"
    /\ Top.level = Levels
    /\ \E m \in Top.todo :
        /\ unreported' = Append(unreported, m)
        /\ stack' = CallOn(m, <<>>)
    /\ UNCHANGED <<stream, phase, playing, negStore, access, pending, matches>>

FinishAdd ==
    /\ stack # <<>>
    /\ Top.op = "add"
    /\ Top.todo = {}
    /\ stack' = Pop
    /\ UNCHANGED <<stream, phase, playing, negStore, access, pending, unreported,
                   matches>>

\* Some negative event in todo fits: the match goes no further.
IsInvalidated(frame) ==
    \E e \in frame.todo :
        Invalidates(stream, Chain[frame.level], frame.match, e)

DropMatch ==
    /\ stack # <<>>
    /\ Top.op = "compare"
    /\ IsInvalidated(Top)
    /\ stack' = Pop
    /\ UNCHANGED <<stream, phase, playing, negStore, access, pending, unreported,
                   matches>>

\* No stored negative event fits: the lowest unbounded node keeps the match
\* pending, any other node adds it.
PassMatch ==
    /\ stack # <<>>
    /\ Top.op = "compare"
    /\ ~ IsInvalidated(Top)
    /\ IF Top.level = FirstUnbounded
       THEN stack' = Pop /\ pending' = pending \cup {Top.match}
       ELSE /\ stack' = Append(Pop, AddFrame(Top.level, {Top.match}))
            /\ UNCHANGED pending
    /\ UNCHANGED <<stream, phase, playing, negStore, access, unreported, matches>>

-----------------------------------------------------------------------------
(* NegationNode.handle_new_partial_match for a negative event *)

\* Fault: an unbounded negative event leaves the pending matches alone.
KeptPendingAll(n) == pending

\* The pending matches that survive the newest event as a negative event n.
KeptPending(n) ==
    IF Unbounded(n)
    THEN {m \in pending : ~ Invalidates(stream, n, m, Newest)}
    ELSE pending

HandleNegative(n) ==
    /\ stack = <<>>
    /\ n \in playing \cap Negative
    /\ playing' = playing \ {n}
    /\ LET live == LiveNegatives(n, Now)
           cleaned == AccessAfterCleaning(n)
       IN  IF AcceptedBy(stream, n, Newest)
           THEN /\ negStore' = [negStore EXCEPT ![n] = live \cup {Newest}]
                /\ access' = [access EXCEPT ![n] = cleaned + 1]
                /\ pending' = KeptPending(n)
           ELSE /\ negStore' = [negStore EXCEPT ![n] = live]
                /\ access' = [access EXCEPT ![n] = cleaned]
                /\ UNCHANGED pending
    /\ UNCHANGED <<stream, phase, stack, unreported, matches>>

-----------------------------------------------------------------------------
(* Collecting the matches and the end of the stream *)

\* Fault: matches collected before every listening leaf has seen the event.
SettledEarly == phase \in {"playing", "ending"} /\ stack = <<>>

Settled == phase \in {"playing", "ending"} /\ playing = {} /\ stack = <<>>

ReportMatch ==
    /\ Settled
    /\ unreported # <<>>
    /\ matches' = Append(matches, Head(unreported))
    /\ unreported' = Tail(unreported)
    /\ UNCHANGED <<stream, phase, playing, stack, negStore, access, pending>>

FinishEvent ==
    /\ Settled
    /\ unreported = <<>>
    /\ phase' = IF phase = "playing" THEN "idle" ELSE "closed"
    /\ UNCHANGED <<stream, playing, stack, negStore, access, pending, unreported,
                   matches>>

\* Tree.get_last_matches: at the end of the stream all pending matches are
\* flushed, expired or not (and stay in the list of their node).
End ==
    /\ phase = "idle"
    /\ phase' = "ending"
    /\ stack' = IF FirstUnbounded = 0 THEN stack
                                      ELSE <<AddFrame(FirstUnbounded, pending)>>
    /\ UNCHANGED <<stream, playing, negStore, access, pending, unreported,
                   matches>>

-----------------------------------------------------------------------------

Step ==
    \/ \E l \in Positive : HandlePositive(l)
    \/ \E n \in Negative : HandleNegative(n)
    \/ Climb
    \/ ReachOutput
    \/ FinishAdd
    \/ DropMatch
    \/ PassMatch
    \/ ReportMatch
    \/ FinishEvent

Next == ReadEvent \/ Step \/ End

Spec == Init /\ [][Next]_vars

\* One thread: a call that has begun goes on.  Nothing obliges an event to
\* arrive or the stream to end.
FairSpec == Spec /\ WF_vars(Step)
=============================================================================
