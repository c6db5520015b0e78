-------------------------- MODULE KleeneProperties --------------------------
(***************************************************************************)
(* What a pattern with a Kleene closure reports, against its declarative   *)
(* meaning: all sets of events of the closure that fit.                    *)
(***************************************************************************)
EXTENDS KleeneTree

OfType(t) == {e \in 1..Newest : stream[e].type = t}

\* How many events of set s come before e.
Rank(s, e) == Cardinality({d \in s : d < e})

\* What a condition demands of a set of events, without lists: a place that
\* does not exist satisfies nothing, an offset compares all pairs of events
\* that are that many places apart.
Demanded(c, s) ==
    LET related(d, e) == <<stream[d].val, stream[e].val>> \in c.relation
        compared(d) == <<stream[d].val, c.value>> \in c.relation
    IN  CASE c.kind = "index" ->
                \E d, e \in s : Rank(s, d) = c.first /\ Rank(s, e) = c.second /\ related(d, e)
          [] c.kind = "offset" ->
                /\ Cardinality(s) > c.offset
                /\ \A d, e \in s : Rank(s, e) - Rank(s, d) = c.offset => related(d, e)
          [] c.kind = "value" /\ c.index = NoIndex -> \A d \in s : compared(d)
          [] OTHER -> \E d \in s : Rank(s, d) = c.index /\ compared(d)

FitsWindow(s) == \A d, e \in s : Ts(d) - Ts(e) <= Window

\* The closures of the stream.
Fitting ==
    {s \in SUBSET OfType("B") :
        /\ Cardinality(s) >= setup.min
        /\ setup.max # NoLimit => Cardinality(s) <= setup.max
        /\ FitsWindow(s)
        /\ \A c \in setup.conditions : Demanded(c, s)}

InSequence(s, c) ==
    \A e \in s : IF setup.partner = "first" THEN Ts(c) <= Ts(e) ELSE Ts(e) <= Ts(c)

\* The matches of the pattern in the stream.
Expected ==
    IF ~ Joined THEN {[closure |-> s, partner |-> {}] : s \in Fitting}
    ELSE {[closure |-> p[1], partner |-> {p[2]}] : p \in
            {p \in Fitting \X OfType("C") :
                /\ FitsWindow(p[1] \cup {p[2]})
                /\ setup.operator = "SEQ" => InSequence(p[1], p[2])}}

\* The partner is the event right after the last member of the closure.
Adjacent(m) == m.partner = {Max(m.closure) + 1}

\* Between two events, exactly the matches of the pattern have been reported,
\* except the ones whose partner follows the closure without another event in
\* between: no set is lost to lazy cleanup, to the size limits or to a
\* condition, none is built from expired members.
ReportsAllButAdjacent ==
    phase = "idle" => BagToSet(matches) = {m \in Expected : ~ Adjacent(m)}

\* Every set is built once, by the arrival of its last member, and joined once
\* with each partner, whichever of the two comes first.
ReportedOnce == \A m \in BagToSet(matches) : matches[m] = 1

\* Every match of the pattern is reported.  Serial numbers identify events:
\* an aggregated event and the event read after it are two events.
EveryMatchReported == phase = "idle" => Expected \subseteq BagToSet(matches)
=============================================================================
