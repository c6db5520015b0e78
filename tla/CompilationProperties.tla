------------------------ MODULE CompilationProperties ------------------------
(***************************************************************************)
(* What the way from patterns to trees must preserve.                      *)
(***************************************************************************)
EXTENDS PatternCompilation, PlanSelectionProperties

(* Rewriting.  A trace is a sequence of events, each named by the primitive *)
(* that accepts it.  Some of a trace's events may form a match of a         *)
(* structure; what is negated must be missing from the gap between its      *)
(* neighbours in a sequence, and from the whole trace elsewhere.            *)

Traces == UNION {SetToSeqs(events) : events \in SUBSET ToSet(setup.names)}

\* Is structure s but a statement about what is missing?
RECURSIVE OnlyMissing(_)
OnlyMissing(s) ==
    \/ IsNegative(s)
    \/ s.op \in {"AND", "OR"} /\ \A i \in DOMAIN s.args : OnlyMissing(s.args[i])

RECURSIVE Holds(_, _), Spans(_, _)

\* Does s hold in this part of a trace?
Holds(s, t) ==
    CASE s.op = "NOT" -> ~ Holds(s.args[1], t)
      [] s.op = "OR" -> \E i \in DOMAIN s.args : Holds(s.args[i], t)
      [] s.op = "AND" /\ OnlyMissing(s) -> \A i \in DOMAIN s.args : Holds(s.args[i], t)
      [] OTHER -> Spans(s, t) # {}

\* First and last place of the matches of s in t.
Spans(s, t) ==
    CASE IsPrimitive(s) -> {<<i, i>> : i \in {j \in DOMAIN t : t[j] = s.name}}
      [] s.op = "KC" -> Spans(s.args[1], t)
      [] s.op = "OR" -> UNION {Spans(s.args[i], t) : i \in DOMAIN s.args}
      [] s.op = "AND" ->
            LET present == SelectSeq(s.args, LAMBDA a : ~ OnlyMissing(a))
                both(S, T) == {<<Min({p[1], q[1]}), Max({p[2], q[2]})>> : p \in S, q \in T}
            IN  IF \E i \in DOMAIN s.args : OnlyMissing(s.args[i]) /\ ~ Holds(s.args[i], t)
                THEN {}
                ELSE FoldLeft(LAMBDA S, a : both(S, Spans(a, t)), Spans(present[1], t),
                              Tail(present))
      [] s.op = "SEQ" ->
            \* parts of matches: their first place (0: none yet), their last
            \* place, and what must be missing up to the next one
            LET gap(p, q) == SubSeq(t, p[2] + 1, q[1] - 1)
                clear(p, q) == \A a \in p[3] : Holds(a, gap(p, q))
                extend(P, a) ==
                    IF OnlyMissing(a) THEN {<<p[1], p[2], p[3] \cup {a}>> : p \in P}
                    ELSE {<<IF pq[1][1] = 0 THEN pq[2][1] ELSE pq[1][1], pq[2][2], {}>> :
                            pq \in {x \in P \X Spans(a, t) :
                                        x[1][2] < x[2][1] /\ clear(x[1], x[2])}}
                all == FoldLeft(extend, {<<0, 0, {}>>}, s.args)
                end == <<Len(t) + 1, Len(t) + 1>>
            IN  {<<p[1], p[2]>> : p \in {p \in all : clear(p, end)}}

(* Rewriting loses no alternative, adds none and keeps order and negations: *)
(* a trace has a match of the given pattern iff it has one of some pattern  *)
(* the rules made of it, after every pass.  The rules rewrite structures in *)
(* place, below each other and over several passes.                         *)
AlternativesPreserved ==
    phase \in {"preprocess", "plan"} /\ plans = <<>> =>
        \A t \in Traces :
            (\E i \in DOMAIN patterns : Holds(patterns[i].full, t))
                <=> (\E i \in DOMAIN setup.patterns : Holds(setup.patterns[i].full, t))

-----------------------------------------------------------------------------
(* Plans *)

Planned == {i \in DOMAIN plans : ~ Fails(plans[i])}

\* The atoms a node of plan n has, as pairs of a node and an atom.
Carried(n) == UNION {{<<m, c>> : c \in Atoms(m.condition)} : m \in Subtrees(n)}

\* What the user demands of the events of the i-th pattern.  Patterns that the
\* rules made have come from one pattern; they lose its conditions on closures.
Required(i) ==
    IF patterns = setup.patterns THEN <<patterns[i].condition>>
    ELSE ConditionProjection(setup.patterns[1].condition, ToSet(EventNames(patterns[i].full)))

\* The closures of a plan, in the order in which they take their conditions.
RECURSIVE ClosuresIn(_)
ClosuresIn(n) ==
    FlattenSeq([k \in DOMAIN n.kids |-> ClosuresIn(n.kids[k])])
        \o (IF n.kind = "kc" THEN <<n>> ELSE <<>>)

\* The closures of plan n that may take condition c on a closure.
Takers(n, c) == SelectSeq(ClosuresIn(n), LAMBDA k : IsConditionOf(c, ToSet(Names(k))))

(* No condition is lost, none is checked twice and none later than it could *)
(* be: distributing the condition consumes it piece by piece while it walks *)
(* the tree, over nested plans and closures.  For conditions over different *)
(* events that are joined by AND.  A condition on a closure is checked by   *)
(* that closure, unless one that comes before it has a name that is part of *)
(* its name: that one takes it (KCCondition.is_condition_of).               *)
ConditionsPlaced ==
    \A i \in Planned :
        LET carried == Carried(plans[i])
            required == Required(i)
            lowest(m, c) == \A k \in DOMAIN m.kids : ~ c.names \subseteq ToSet(Names(m.kids[k]))
            taker(c) == Takers(plans[i], c)[1]
            atoms == UNION {Atoms(required[k]) : k \in DOMAIN required}
            truths == [{c.id : c \in atoms} -> BOOLEAN]
        IN  /\ \A c \in atoms : Cardinality({mc \in carried : mc[2] = c}) = 1
            /\ \A mc \in carried : mc[2].kind = "atom" => lowest(mc[1], mc[2])
            /\ \A mc \in carried :
                  mc[2].kind = "kleene" /\ mc[2].names = ToSet(Names(taker(mc[2])))
                      => mc[1] = taker(mc[2])
            /\ \A truth \in truths :
                  (\A k \in DOMAIN required : Eval(required[k], truth))
                      <=> \A m \in Subtrees(plans[i]) : Eval(m.condition, truth)

\* At every level of s the operators come before the negations.
RECURSIVE OperatorsFirst(_)
OperatorsFirst(s) ==
    LET operand(a) == IF IsNegative(a) THEN a.args[1] ELSE a
    IN  /\ \A i, j \in DOMAIN s.args :
              i < j /\ IsNegative(s.args[i]) => IsPrimitive(operand(s.args[j]))
        /\ \A i \in DOMAIN s.args : OperatorsFirst(s.args[i])

\* The negations of s, one below the other or not.
RECURSIVE Negations(_)
Negations(s) ==
    Cardinality({i \in DOMAIN s.args : IsNegative(s.args[i])})
        + FoldLeft(+, 0, [i \in DOMAIN s.args |-> Negations(s.args[i])])

\* The negations of p are put on the tree in the order of p.  How those of an
\* operand are ordered is its own matter, so there may be but one in each.
NegationsInOrder(p) ==
    \/ setup.builder.negation = "naive"
    \/ /\ NegationOrder(setup.builder.negation, p, StatisticsOf(p)) = NegativeIndices(p)
       /\ \A i \in DOMAIN p.full.args : IsPrimitive(p.full.args[i]) \/ Negations(p.full.args[i]) <= 1

RECURSIVE Substructures(_)
Substructures(s) == {s} \cup UNION {Substructures(s.args[i]) : i \in DOMAIN s.args}

\* Alternatives and double negations are left to the rules.
InScope(p) ==
    /\ ~ IsPrimitive(p.full)
    /\ \A s \in Substructures(p.full) :
          s.op # "OR" /\ (IsNegative(s) => ~ IsNegative(s.args[1]))

\* The patterns the numbering of leaves is right for.
Numbered(p) == OperatorsFirst(p.full) /\ NegationsInOrder(p)


-----------------------------------------------------------------------------
(* Merging *)

\* What the nodes of a plan check: the operator, but for a negation, and the
\* conditions, and the events they are about.
Checks(plan) ==
    {<<n.kind, IF n.kind = "negative" THEN "" ELSE n.op, ToSet(Names(n)), Atoms(n.condition)>> :
        n \in Subtrees(plan)}

(* A merged plan still checks what the pattern's own plan checks, although  *)
(* its nodes are replaced by those of other patterns: the same conditions,  *)
(* under the same operators, over the same events.  Under subtree sharing   *)
(* no two nodes that could be one remain (the recursive traversal mergers). *)
(* Places and the order of the operands are not compared, README section 6. *)
MergedPlansFaithful ==
    phase = "build" =>
        /\ \A i \in DOMAIN plans : Checks(merged[i]) = Checks(plans[i])
        /\ setup.sharing = "subtrees" =>
              \A i, j \in DOMAIN merged :
                  \A m \in Subtrees(merged[i]), n \in Subtrees(merged[j]) :
                      Equivalent(m, n) => m = n
=============================================================================
