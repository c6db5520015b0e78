------------------------- MODULE NegationSemantics -------------------------
(***************************************************************************)
(* What the negation nodes promise, without a tree.  A combination of      *)
(* positive events is reported only if no negative event prevents it and   *)
(* none that may still come could; at the end of the stream every          *)
(* combination that nothing prevents has been reported.                    *)
(***************************************************************************)
EXTENDS NegationPattern

VARIABLES
    seen,       \* the events evaluated so far
    reported,   \* the set of matches
    output      \* "open", "ending" (the stream is over) or "closed"

negVars == <<seen, reported, output>>

\* No later event can prevent m: there is no unbounded negation, or the time
\* window of m is over.
IsFinal(s, m) ==
    \/ \A n \in Negative : ~ Unbounded(n)
    \/ \E l \in Positive : s[Len(s)].ts - s[m[l]].ts > Window

NegInit ==
    /\ seen = <<>>
    /\ reported = {}
    /\ output = "open"

Observe(e) ==
    /\ output = "open"
    /\ seen' = Append(seen, e)
    /\ UNCHANGED <<reported, output>>

Report(m) ==
    /\ output # "closed"
    /\ m \in Demanded(seen) \ reported
    /\ IsFinal(seen, m) \/ output = "ending"
    /\ reported' = reported \cup {m}
    /\ UNCHANGED <<seen, output>>

\* The input stream has ended: what is still pending is final now.
EndInput ==
    /\ output = "open"
    /\ output' = "ending"
    /\ UNCHANGED <<seen, reported>>

\* The output is closed only after everything demanded has been reported.
CloseOutput ==
    /\ output = "ending"
    /\ reported = Demanded(seen)
    /\ output' = "closed"
    /\ UNCHANGED <<seen, reported>>

NegNext ==
    \/ \E e \in Range(seen') : Observe(e)
    \/ \E m \in reported' : Report(m)
    \/ EndInput
    \/ CloseOutput

NegSpec == NegInit /\ [][NegNext]_negVars
=============================================================================
