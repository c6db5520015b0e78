------------------------ MODULE PatternTransformation ------------------------
(***************************************************************************)
(* The rewriting of patterns before they are planned (PatternTransformer   *)
(* and its rules, PatternPreprocessor).                                    *)
(*                                                                         *)
(* A recursive rule rewrites a structure in place, bottom up.  The pattern *)
(* object survives if the root of the structure is the same object after   *)
(* the rule: its full structure is then the rewritten one, its positive    *)
(* and negative parts are still those of the structure it was built from.  *)
(* Otherwise a new pattern is built, with the conditions over the events   *)
(* it has left, except the conditions on Kleene closures.                  *)
(***************************************************************************)
EXTENDS PatternStructures

Rules == {"AND_AND", "NOT_OR", "NOT_AND", "TOPMOST_OR", "INNER_OR", "NOT_NOT"}

FirstOr(s) ==
    CHOOSE i \in DOMAIN s.args : /\ s.args[i].op = "OR"
                                 /\ \A j \in 1..(i - 1) : s.args[j].op # "OR"

\* Fault: the arguments before the disjunction are lost.
DistributeOrAlone(s) ==
    LET i == FirstOr(s)
        alternative(a) == [s EXCEPT !.args = <<a>> \o SubSeq(@, i + 1, Len(@))]
    IN  Composite("OR", [j \in DOMAIN s.args[i].args |-> alternative(s.args[i].args[j])])

\* AND(X, OR(A, B), Y) -> OR(AND(X, A, Y), AND(X, B, Y)), the first OR only.
DistributeOr(s) ==
    LET i == FirstOr(s)
        alternative(a) == [s EXCEPT !.args = SubSeq(@, 1, i - 1) \o <<a>>
                                                \o SubSeq(@, i + 1, Len(@))]
    IN  Composite("OR", [j \in DOMAIN s.args[i].args |-> alternative(s.args[i].args[j])])

FlattenArgs(s) ==
    FlattenSeq([i \in DOMAIN s.args |->
        IF s.args[i].op = s.op THEN s.args[i].args ELSE <<s.args[i]>>])

Negated(args) == [i \in DOMAIN args |-> Unary("NOT", args[i])]

\* _actually_transform_structure of the recursive rules.
Rewritten(rule, s) ==
    CASE rule = "AND_AND" /\ IsComposite(s) -> [s EXCEPT !.args = FlattenArgs(s)]
      [] rule = "TOPMOST_OR" /\ IsComposite(s) /\ s.op # "OR"
            /\ \E i \in DOMAIN s.args : s.args[i].op = "OR" -> DistributeOr(s)
      [] rule = "NOT_AND" /\ IsNegative(s) /\ s.args[1].op = "AND" ->
            Composite("OR", Negated(s.args[1].args))
      [] rule = "NOT_OR" /\ IsNegative(s) /\ s.args[1].op = "OR" ->
            Composite("AND", Negated(s.args[1].args))
      [] rule = "NOT_NOT" /\ IsNegative(s) /\ IsNegative(s.args[1]) -> s.args[1].args[1]
      [] OTHER -> s

RECURSIVE RewrittenInside(_, _)
RewrittenInside(rule, s) ==
    [s EXCEPT !.args = [i \in DOMAIN s.args |->
                            Rewritten(rule, RewrittenInside(rule, s.args[i]))]]

\* The structures a rule makes of structure s.
TransformStructure(rule, s) ==
    IF rule = "INNER_OR" THEN IF s.op = "OR" THEN s.args ELSE <<s>>
    ELSE <<Rewritten(rule, RewrittenInside(rule, s))>>

\* Is the root the object it was?
RootKept(rule, s) ==
    LET inside == RewrittenInside(rule, s)
    IN  IF rule = "INNER_OR" THEN s.op # "OR"
        ELSE rule = "AND_AND" \/ Rewritten(rule, inside) = inside

\* PatternTransformer.transform
Transform(rule, p) ==
    LET structures == TransformStructure(rule, p.full)
        create(s) == Pattern(s, ConditionOf(p.condition, ToSet(EventNames(s)), FALSE))
    IN  IF RootKept(rule, p.full) THEN <<[p EXCEPT !.full = structures[1]]>>
        ELSE [i \in DOMAIN structures |-> create(structures[i])]

\* __transform_pattern: each rule in turn on everything the one before left.
TransformAll(rules, p) ==
    FoldLeft(LAMBDA ps, rule : FlattenSeq([i \in DOMAIN ps |-> Transform(rule, ps[i])]),
             <<p>>, rules)

\* One pass of the loop of transform_patterns.
Pass(rules, ps) == FlattenSeq([i \in DOMAIN ps |-> TransformAll(rules, ps[i])])

Structures(ps) == [i \in DOMAIN ps |-> ps[i].full]

\* __are_patterns_modified
Modified(ps, qs) == Structures(ps) # Structures(qs)
=============================================================================
