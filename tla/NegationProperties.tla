------------------------- MODULE NegationProperties -------------------------
(***************************************************************************)
(* What the negation nodes guarantee: nothing reported is ever prevented,  *)
(* no match gets lost between the levels, and NegationSemantics is         *)
(* implemented.                                                            *)
(***************************************************************************)
EXTENDS NegationTree

Sem == INSTANCE NegationSemantics WITH
          seen <- stream,
          reported <- Range(matches),
          output <- IF phase \in {"ending", "closed"} THEN phase ELSE "open"

EventIds == 1..Len(stream)

Match == [Positive -> EventIds]

Frame ==
    [op : {"add"}, level : 0..Levels, todo : SUBSET Match] \cup
    [op : {"compare"}, level : 1..Levels, match : Match, todo : SUBSET EventIds]

\* The type invariant.  It includes that only an unbounded node keeps matches
\* pending and that no call is in progress between two events.
TypeOK ==
    /\ \A i \in EventIds :
        stream[i] \in [type : {k.type : k \in Kind}, ts : Nat,
                       val : {k.val : k \in Kind}]
    /\ phase \in {"idle", "playing", "ending", "closed"}
    /\ playing \in SUBSET Name
    /\ \A i \in DOMAIN stack : stack[i] \in Frame
    /\ negStore \in [Negative -> SUBSET EventIds]
    /\ access \in [Negative -> Nat]
    /\ pending \in SUBSET Match
    /\ Range(unreported) \subseteq Match
    /\ Range(matches) \subseteq Match
    /\ FirstUnbounded = 0 => pending = {}
    /\ phase \in {"idle", "closed"} => playing = {} /\ stack = <<>>

\* A match that was reported is prevented by no negative event of the stream,
\* those that arrive after the report included: a pending match is released
\* neither too early nor past a negative event a cleanup has removed.
ReportedNeverPrevented ==
    \A i \in DOMAIN matches : ~ Prevented(stream, matches[i])

\* Between two events, every match that nothing prevents is either pending or
\* reported, never both and never twice, and no prevented match is pending:
\* climbs, flushes from inside a climb and deletions lose and repeat nothing.
EveryMatchAccountedFor ==
    phase = "idle" =>
        /\ pending \cup Range(matches) = Demanded(stream)
        /\ pending \cap Range(matches) = {}
        /\ IsInjective(matches)

\* The chain of negation nodes implements its abstract specification: only
\* final matches are reported, and all demanded ones before the output closes.
RefinesNegation == Sem!NegSpec

\* Once the input has ended, the last flush comes to an end and the output is
\* closed: no pending match waits for ever.
OutputCloses == phase = "ending" ~> phase = "closed"
=============================================================================
