--------------------------- MODULE TreeConstruction ---------------------------
(***************************************************************************)
(* From tree plans to evaluation trees (Tree, MultiPatternTree).  The tree *)
(* walks down the plan and, beside it, down the structure of the pattern:  *)
(* a plan leaf says which argument of its operator it is, and that is what *)
(* the leaf of the tree listens to.  Plan nodes that several patterns have *)
(* in common get one tree node, built for the first pattern.               *)
(***************************************************************************)
EXTENDS TreePlanBuilding

\* A tree node: the plan node it was built for, its operator, for a leaf the
\* event it accepts and its place in the pattern it was built for, its subtrees.
TreeNode(plan, op, name, index, kids) ==
    [plan |-> plan, op |-> op, name |-> name, index |-> index, kids |-> kids]

\* __get_operator_arg_list
OperatorArgs(s) == IF IsPrimitive(s) THEN <<s>> ELSE s.args

\* An exception of the construction.
Illegal(n) == TreeNode(n, "illegal", "", 0, <<>>)

\* __handle_primitive_event: a leaf for the event under a negation, or under an
\* operator with no other argument.
RECURSIVE BuildLeaf(_, _, _)
BuildLeaf(n, arg, p) ==
    LET s == IF IsNegative(arg) THEN arg.args[1] ELSE arg
    IN  IF IsPrimitive(s)
        THEN TreeNode(n, "event", s.name, Position(s.name, EventNames(p.full)) - 1, <<>>)
        ELSE IF IsComposite(s) /\ Len(s.args) = 1 THEN BuildLeaf(n, s.args[1], p)
        ELSE Illegal(n)

\* The closure a plan node stands for: the pattern itself, or an argument.
ClosureOf(n, operator, args, isRoot) ==
    LET arg == args[n.index + 1]
    IN  IF isRoot /\ IsUnary(operator) THEN operator
        ELSE IF IsNegative(arg) THEN arg.args[1] ELSE arg

\* __construct_tree, for a node of the plan of pattern p under an operator with
\* these arguments; known are the nodes of the trees there are.
RECURSIVE ConstructTree(_, _, _, _, _, _)
ConstructTree(n, operator, args, isRoot, p, known) ==
    LET existing == {k \in known : k.plan = n}
        closure == ClosureOf(n, operator, args, isRoot)
        arg == closure.args[1]
        below == IF n.kids[1].kind = "leaf"
                 THEN ConstructTree(n.kids[1], closure, <<arg>>, FALSE, p, known)
                 ELSE ConstructTree(n.kids[1].kids[1], arg, OperatorArgs(arg), FALSE, p, known)
    IN  IF existing # {} THEN CHOOSE k \in existing : TRUE
        ELSE CASE n.kind = "leaf" -> BuildLeaf(n, args[n.original + 1], p)
               [] n.kind = "kc" ->
                    IF IsUnary(closure) THEN TreeNode(n, "KC", "", 0, <<below>>) ELSE Illegal(n)
               [] n.kind = "nested" ->
                    ConstructTree(n.kids[1], args[n.index + 1], n.args, isRoot, p, known)
               [] OTHER ->
                    TreeNode(n, n.op, "", 0,
                             [i \in DOMAIN n.kids |->
                                ConstructTree(n.kids[i], operator, args, FALSE, p, known)])

\* Tree.__init__, of the nodes.
BuildTree(plan, p, known) ==
    ConstructTree(plan, p.full, OperatorArgs(p.full), TRUE, p, known)

Legal(tree) == \A n \in Subtrees(tree) : n.op # "illegal"
=============================================================================
