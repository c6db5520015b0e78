----------------------------- MODULE Conditions -----------------------------
(***************************************************************************)
(* The condition of a pattern: conjunctions and disjunctions of atomic     *)
(* conditions, and how a part of it is taken out for some of the events    *)
(* (CompositeCondition, AndCondition, OrCondition, the is_condition_of     *)
(* tests of the atomic classes).                                           *)
(*                                                                         *)
(* What an atomic condition compares is abstracted to its identity and the *)
(* event names it is about; its value is a truth assignment's.             *)
(***************************************************************************)
EXTENDS Integers, Sequences, FiniteSets, SequencesExt

CONSTANT InName(_, _)    \* the text of the first name is a part of that of the second

Condition(kind, id, names, parts) ==
    [kind |-> kind, id |-> id, names |-> names, parts |-> parts]

Atom(id, names) == Condition("atom", id, names, <<>>)
KleeneAtom(id, names) == Condition("kleene", id, names, <<>>)
And(parts) == Condition("and", "", {}, parts)
Or(parts) == Condition("or", "", {}, parts)

IsCompositeCondition(c) == c.kind \in {"and", "or"}

RECURSIVE Atoms(_)
Atoms(c) ==
    IF IsCompositeCondition(c) THEN UNION {Atoms(c.parts[i]) : i \in DOMAIN c.parts}
                               ELSE {c}

\* An empty composite holds, whichever operator it has; a condition on a
\* Kleene closure counts as true where it is not evaluated.
RECURSIVE Eval(_, _)
Eval(c, truth) ==
    CASE c.kind = "and" -> \A i \in DOMAIN c.parts : Eval(c.parts[i], truth)
      [] c.kind = "or"  -> \/ c.parts = <<>>
                           \/ \E i \in DOMAIN c.parts : Eval(c.parts[i], truth)
      [] OTHER          -> truth[c.id]

\* is_condition_of: does atomic condition c speak of nothing but these events?  A
\* condition on a Kleene closure is one of the events of the closure; as many other
\* events do if the name of each is part of a name of the condition.
IsConditionOf(c, names) ==
    IF c.kind # "kleene" THEN c.names \subseteq names
    ELSE \/ c.names = names
         \/ /\ Cardinality(names) = Cardinality(c.names)
            /\ \A n \in names : \E m \in c.names : InName(n, m)

Taken(c, names, kleene) == IsConditionOf(c, names) /\ (c.kind = "kleene") = kleene

\* get_condition_of: the part of composite c over the given names, the
\* conditions on closures or the others.
RECURSIVE ConditionOf(_, _, _)
ConditionOf(c, names, kleene) ==
    LET part(p) ==
            IF IsCompositeCondition(p)
            THEN LET inner == ConditionOf(p, names, kleene)
                 IN  IF inner.parts = <<>> THEN <<>> ELSE <<inner>>
            ELSE IF Taken(p, names, kleene) THEN <<p>> ELSE <<>>
    IN  [c EXCEPT !.parts = FlattenSeq([i \in DOMAIN c.parts |-> part(c.parts[i])])]

\* What get_condition_of leaves of c if it consumes what it returns; a nested
\* composite goes when it is empty.
RECURSIVE Consumed(_, _, _)
Consumed(c, names, kleene) ==
    LET rest(p) ==
            IF IsCompositeCondition(p)
            THEN LET inner == Consumed(p, names, kleene)
                 IN  IF inner.parts = <<>> THEN <<>> ELSE <<inner>>
            ELSE IF Taken(p, names, kleene) THEN <<>> ELSE <<p>>
    IN  [c EXCEPT !.parts = FlattenSeq([i \in DOMAIN c.parts |-> rest(c.parts[i])])]

\* get_condition_projection: of any kind, a composite without parts vanishes.
RECURSIVE ConditionProjection(_, _)
ConditionProjection(c, names) ==
    IF ~ IsCompositeCondition(c) THEN IF IsConditionOf(c, names) THEN <<c>> ELSE <<>>
    ELSE LET parts == FlattenSeq([i \in DOMAIN c.parts |->
                                    ConditionProjection(c.parts[i], names)])
         IN  IF parts = <<>> THEN <<>> ELSE <<[c EXCEPT !.parts = parts]>>

\* CompositeCondition.__eq__: the same operator and the same parts in any order.
RECURSIVE EqualConditions(_, _)
EqualConditions(c, d) ==
    IF ~ IsCompositeCondition(c) \/ ~ IsCompositeCondition(d) THEN c = d
    ELSE LET among(p, ps) == \E i \in DOMAIN ps : EqualConditions(p, ps[i])
         IN  /\ c.kind = d.kind /\ Len(c.parts) = Len(d.parts)
             /\ \A i \in DOMAIN c.parts : /\ among(c.parts[i], d.parts)
                                          /\ among(d.parts[i], c.parts)
=============================================================================
