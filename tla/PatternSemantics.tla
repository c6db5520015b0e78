-------------------------- MODULE PatternSemantics --------------------------
(***************************************************************************)
(* What the evaluation of a pattern promises, without a tree: after every  *)
(* event of the stream, a pattern without limiting policies has reported   *)
(* exactly the combinations of distinct events that satisfy it.  A         *)
(* combination is tested as in the brute-force matcher generate_matches of *)
(* misc/Utils.py.  That matcher also takes one event twice, for two names  *)
(* of one type; the engine does not allow it (InternalNode), and neither   *)
(* does this specification.                                                *)
(***************************************************************************)
EXTENDS TreeTopology

VARIABLES
    seen,       \* the events evaluated so far
    reported    \* [Pattern -> set of matches]

semVars == <<seen, reported>>

\* What the brute-force matcher takes for a match of pattern p: a combination
\* of events of stream s, one per name.
BruteForceMatch(s, p, m) ==
    /\ \A l \in DOMAIN m : s[m[l]].type = TypeOf[l]
    /\ WithinWindow(s, m, PatternWindow[p])
    /\ \A o \in Precedes[p] : s[m[o[1]]].ts <= s[m[o[2]]].ts
    /\ \A a \in Condition[p] : Satisfies(s, m, a)

\* A match of the engine names no event twice.
IsMatch(s, p, m) == BruteForceMatch(s, p, m) /\ IsInjective(m)

Matches(s, p) == {m \in [LeavesOf(Root[p]) -> 1..Len(s)] : IsMatch(s, p, m)}

SemInit ==
    /\ seen = <<>>
    /\ reported = [p \in Pattern |-> {}]

\* One event is evaluated: every match it completes is reported.
Evaluate(e) ==
    /\ seen' = Append(seen, e)
    /\ reported' = [p \in Pattern |->
                        reported[p] \cup
                            {m \in Matches(seen', p) : Len(seen') \in Range(m)}]

SemNext == \E e \in Range(seen') : e \in Event /\ Evaluate(e)

SemSpec == SemInit /\ [][SemNext]_semVars
=============================================================================
