-------------------------- MODULE NegationPattern --------------------------
(***************************************************************************)
(* A flat pattern with negated events, SEQ(a, NOT b, c, NOT d) or          *)
(* AND(a, NOT b), and the shape NegationAlgorithm gives its tree: the      *)
(* positive subtree with a chain of negation nodes on top, one per negated *)
(* event, each with a leaf of its own for the negative events.             *)
(*                                                                         *)
(* The positive part is what EvalTree models and RefinesSemantics promises *)
(* of it: every event completes exactly the combinations that satisfy the  *)
(* positive part, each handed to the lowest negation node once.            *)
(***************************************************************************)
EXTENDS Integers, Sequences, FiniteSets, Functions

CONSTANTS
    Positive,   \* the names of the positive events
    Chain,      \* the negated names, from the lowest negation node to the root
    Operator,   \* "SEQ" or "AND", the top operator of the pattern
    Index,      \* [names -> Nat], the places of the names in the pattern
    TypeOf,     \* [names -> event types]
    Condition,  \* the atoms of the condition, see Satisfies
    Window,     \* the time window of the pattern
    Kind        \* the [type, val] an event of the stream may have

Negative == Range(Chain)

Name == Positive \cup Negative

\* A negated event that may still come after a match is complete: in a
\* sequence the ones no positive event follows, in a conjunction all.
Unbounded(n) ==
    \/ Operator = "AND"
    \/ \A p \in Positive : Index[p] < Index[n]

\* The level of the deepest unbounded node, 0 if there is none.
FirstUnbounded ==
    IF \E i \in DOMAIN Chain : Unbounded(Chain[i])
    THEN CHOOSE i \in DOMAIN Chain :
            /\ Unbounded(Chain[i])
            /\ \A j \in 1..(i - 1) : ~ Unbounded(Chain[j])
    ELSE 0

ASSUME NegationAssumption ==
    /\ Operator \in {"SEQ", "AND"}
    /\ Positive # {} /\ IsFiniteSet(Positive)
    /\ Chain \in Seq(Negative)
    /\ Positive \cap Negative = {}
    /\ Index \in [Name -> Nat]
    /\ IsInjective(Index)
    /\ IsInjective(Chain)
    /\ DOMAIN TypeOf = Name
    /\ Window \in Nat

\* NaiveNegationAlgorithm takes the negated events in the order of the
\* pattern, StatisticNegationAlgorithm the bounded ones first: either way the
\* unbounded nodes are on top.
ASSUME ChainAssumption ==
    \A i, j \in DOMAIN Chain :
        i < j /\ Unbounded(Chain[i]) => Unbounded(Chain[j])

\* An atom is about positive events and at most one negated event.
ASSUME ConditionAssumption ==
    \A a \in Condition : /\ a.on \subseteq Name
                         /\ Cardinality(a.on \cap Negative) <= 1

-----------------------------------------------------------------------------
(* Validation, relative to the stream s.  A match is a function from names   *)
(* to event identifiers, which are positions in the stream.                  *)

\* An atom is a record [on, holds]: the names it is about and the value
\* assignments over them that satisfy it.
Satisfies(s, m, atom) == [l \in atom.on |-> s[m[l]].val] \in atom.holds

\* The checks of a SEQ or an AND node, for the atoms given to that node.
ValidFor(s, m, atoms) ==
    /\ Operator = "SEQ" =>
        \A k, l \in DOMAIN m : Index[k] < Index[l] => s[m[k]].ts <= s[m[l]].ts
    /\ \A k, l \in DOMAIN m : s[m[k]].ts - s[m[l]].ts <= Window
    /\ IsInjective(m)
    /\ \A a \in atoms : Satisfies(s, m, a)

\* The combinations of events of s that satisfy the positive part.
PositiveMatches(s) ==
    {m \in [Positive -> 1..Len(s)] :
        /\ \A l \in Positive : s[m[l]].type = TypeOf[l]
        /\ ValidFor(s, m, {a \in Condition : a.on \subseteq Positive})}

\* What the leaf of a negated event accepts.
AcceptedBy(s, n, e) ==
    /\ s[e].type = TypeOf[n]
    /\ \A a \in Condition : a.on = {n} => Satisfies(s, [k \in {n} |-> e], a)

\* The negation node of n finds m and the negative event e to fit together:
\* e invalidates m.
Invalidates(s, n, m, e) ==
    ValidFor(s, [k \in Positive \cup {n} |-> IF k = n THEN e ELSE m[k]],
             {a \in Condition : n \in a.on /\ a.on # {n}})

-----------------------------------------------------------------------------
(* What the pattern demands of a stream *)

\* The event that completes a match.
Completed(m) == CHOOSE e \in Range(m) : \A d \in Range(m) : d <= e

\* Event e of the stream prevents m.  A bounded negative event has to be in
\* the stream when m is completed; an unbounded one may come later.
PreventedBy(s, n, m, e) ==
    /\ AcceptedBy(s, n, e)
    /\ Invalidates(s, n, m, e)
    /\ Unbounded(n) \/ e < Completed(m)

Prevented(s, m) ==
    \E n \in Negative : \E e \in 1..Len(s) : PreventedBy(s, n, m, e)

\* The matches the stream s demands.
Demanded(s) == {m \in PositiveMatches(s) : ~ Prevented(s, m)}
=============================================================================
