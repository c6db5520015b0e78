------------------------- MODULE AdaptiveProperties -------------------------
(***************************************************************************)
(* What must not depend on when, how often and by which mechanism the      *)
(* evaluation tree is replaced.                                            *)
(***************************************************************************)
EXTENDS AdaptiveTree

\* Between two events, and at the end.
Settled == phase \in {"idle", "closed"}

\* The events of the stream the leaf of n accepts.
Accepted(n) == {e \in 1..Newest : /\ stream[e].type = TypeOf[n]
                                  /\ stream[e].val \in setup.accepts[n]}

\* Every combination of events of the stream that satisfies the positive part.
Matches == Completed([n \in Name |-> Accepted(n)])

Reported == {r.match : r \in output}

\* The replay reads one leaf per type, so the leaves of a type must agree on
\* what they accept.
ReplaySafe ==
    setup.mechanism = "trivial" =>
        \A k, l \in Used : TypeOf[k] = TypeOf[l] => setup.accepts[k] = setup.accepts[l]

\* A pattern without negation reports exactly the matches of the
\* stream, event by event, through any number of replacements: a match whose
\* events lie on both sides of an update is not lost.
ReportsExactly == Settled /\ ~ setup.negated /\ ReplaySafe => Reported = Matches

\* No match is written to the output twice, neither by the old tree and the
\* new one nor by a replay.
ReportedOnce ==
    ~ setup.negated => \A r, s \in output : r.match = s.match => r = s

\* What is read from a tree and thrown away (the comments in _tree_update and
\* in _get_matches) is in the output by the end of the step.
DiscardedWereReported ==
    [][ ReplaySafe =>
        /\ phase = "replaying" /\ phase' = "playing" /\ ~ setup.negated
            => tree.ready \subseteq Reported
        /\ phase = "collecting" /\ newTree # NoTree
            => newTree.ready \subseteq Reported' ]_vars

\* A match no negated event of the stream prevents is in the output when the
\* stream has ended, also if its tree was replaced while it was pending.
UnpreventedReported ==
    phase = "closed" /\ setup.negated /\ setup.mechanism = "simultaneous" =>
        {m \in Matches : \A e \in Accepted(Negated) : ~ Prevents(m, e)} \subseteq Reported

\* The arrival rates the optimizer compares are the numbers of events of the
\* last statistics window, for every name of a type, however events expire.
RatesCountWindow ==
    phase # "idle" =>
        \A n \in Used : rates[n] =
            Cardinality({e \in 1..Newest : /\ stream[e].type = TypeOf[n]
                                           /\ Now - stream[e].ts <= RatesWindow})
=============================================================================
