-------------------------- MODULE PatternStructures --------------------------
(***************************************************************************)
(* Pattern structures and patterns (PatternStructure, Pattern).  A         *)
(* structure is a term over event names with the operators SEQ, AND, OR    *)
(* and the unary NOT and KC; a name stands for its event type as well.     *)
(***************************************************************************)
EXTENDS Conditions

Structure(op, name, args) == [op |-> op, name |-> name, args |-> args]

Primitive(name) == Structure("event", name, <<>>)
Composite(op, args) == Structure(op, "", args)
Unary(op, arg) == Structure(op, "", <<arg>>)
NoStructure == Structure("none", "", <<>>)

IsPrimitive(s) == s.op = "event"
IsComposite(s) == s.op \in {"SEQ", "AND", "OR"}
IsUnary(s) == s.op \in {"NOT", "KC"}

\* get_all_event_names, in the order of the structure.
RECURSIVE EventNames(_)
EventNames(s) ==
    IF IsPrimitive(s) THEN <<s.name>>
    ELSE FlattenSeq([i \in DOMAIN s.args |-> EventNames(s.args[i])])

\* get_structure_projection: the structure without the other events, as a
\* sequence of at most one; an operator left without arguments vanishes.
RECURSIVE StructureProjection(_, _)
StructureProjection(s, names) ==
    IF IsPrimitive(s) THEN IF s.name \in names THEN <<s>> ELSE <<>>
    ELSE LET args == FlattenSeq([i \in DOMAIN s.args |->
                                    StructureProjection(s.args[i], names)])
         IN  IF args = <<>> THEN <<>> ELSE <<[s EXCEPT !.args = args]>>

-----------------------------------------------------------------------------

IsNegative(s) == s.op = "NOT"

\* A pattern with nothing but negations at its top level cannot be built.
EntirelyNegative(s) ==
    /\ IsComposite(s) /\ s.args # <<>>
    /\ \A i \in DOMAIN s.args : IsNegative(s.args[i])

\* __extract_negative_structure: the negations of the top level and the rest.
PositivePart(s) ==
    IF ~ IsComposite(s) THEN s
    ELSE [s EXCEPT !.args = SelectSeq(s.args, LAMBDA a : ~ IsNegative(a))]

NegativePart(s) ==
    LET args == SelectSeq(s.args, IsNegative)
    IN  IF ~ IsComposite(s) \/ args = <<>> THEN NoStructure ELSE [s EXCEPT !.args = args]

\* Pattern.__init__ (a condition that is not composite is wrapped before).
Pattern(structure, condition) ==
    [full |-> structure, positive |-> PositivePart(structure),
     negative |-> NegativePart(structure), condition |-> condition]

\* __create_dummy_subpattern
SubPatternOf(arg) == Pattern(arg, And(<<>>))

EqualPatterns(p, q) == p.full = q.full /\ EqualConditions(p.condition, q.condition)

\* get_sub_pattern, as a sequence of at most one.
SubPattern(p, names) ==
    LET structure == StructureProjection(p.full, names)
        condition == ConditionProjection(p.condition, names)
    IN  IF structure = <<>> THEN <<>>
        ELSE <<Pattern(structure[1], IF condition = <<>> THEN And(<<>>) ELSE condition[1])>>

IsSubPattern(p, q) ==
    LET projected == SubPattern(q, ToSet(EventNames(p.full)))
    IN  projected # <<>> /\ EqualPatterns(p, projected[1])

Position(x, seq) == CHOOSE i \in DOMAIN seq : seq[i] = x

\* Statistics of the events in one order, given for them in another.
ReorderedRarity(rarity, from, to) ==
    LET at(i) == Position(to[i], from)
    IN  [i \in DOMAIN to |-> [j \in DOMAIN to |-> rarity[at(i)][at(j)]]]

Reordered(stats, from, to) ==
    [rates |-> [i \in DOMAIN to |-> stats.rates[Position(to[i], from)]],
     rarity |-> ReorderedRarity(stats.rarity, from, to)]

\* create_modified_statistics: the statistics of pattern p for the events of
\* pattern q, a variation or a part of p.
ModifiedStatistics(stats, p, q) == Reordered(stats, EventNames(p.full), EventNames(q.full))
=============================================================================
