------------------------------ MODULE SortedJoin ------------------------------
(***************************************************************************)
(* A binary node whose subtrees keep sorted storages, with sorting keys    *)
(* taken from the condition of the node and the priorities of the user     *)
(* (BinaryNode._get_condition_based_sorting_keys, AndNode and SeqNode      *)
(* .create_storage_unit, TreeStorageParameters(sort_storage=True)).  It    *)
(* composes two SortedStorages: a new match of one side reads the storage  *)
(* of the other side by its own key.  The condition is any combination of  *)
(* atoms by conjunction and disjunction; the keys are picked from its      *)
(* atoms alone, whatever combines them.  The window plays no part: nothing *)
(* expires here.                                                           *)
(***************************************************************************)
EXTENDS Integers, Sequences, SequencesExt

CONSTANTS
    LeftName, RightName,    \* the event names of the two subtrees
    Priority,               \* attributes_priorities, per event name
    Conditions,             \* the conditions the node may have
    Val,                    \* attribute values
    MaxSize                 \* bound: matches stored on each side

\* An atom of a condition: a relation between a name of each side.  A condition is
\* the list of its atoms (extract_atomic_conditions, which flattens conjunctions and
\* disjunctions alike) and how they combine, as the clauses of its conjunctive
\* normal form: sets of indices of atoms.
Relop == {"=", "#", ">", ">=", "<", "<="}

Atom ==
    [left : LeftName, op : Relop, right : RightName]
        \cup [left : RightName, op : Relop, right : LeftName]

IsCondition(c) ==
    /\ c.atoms \in Seq(Atom) /\ c.atoms # <<>>
    /\ c.clauses \subseteq SUBSET (DOMAIN c.atoms)

ASSUME JoinAssumption ==
    /\ LeftName \cap RightName = {}
    /\ Priority \in [LeftName \cup RightName -> Nat]
    /\ \A c \in Conditions : IsCondition(c)
    /\ Val \subseteq Nat
    /\ MaxSize \in Nat

VARIABLES
    condition,      \* the condition of the node, fixed by the pattern
    left, right,    \* the storages: sequences of [key, pm]
    joined          \* the matches created: pairs of a left and a right match

vars == <<condition, left, right, joined>>

L == INSTANCE SortedStorage WITH buffer <- left, count <- 0, byArrival <- FALSE,
        CleanUpInterval <- 1, MaxKey <- 0, MaxTime <- 0

R == INSTANCE SortedStorage WITH buffer <- right, count <- 0, byArrival <- FALSE,
        CleanUpInterval <- 1, MaxKey <- 0, MaxTime <- 0

-----------------------------------------------------------------------------
(* The sorting keys *)

\* The term of atom c over the given names, and its side.
Term(c, names) == IF c.left \in names THEN c.left ELSE c.right

\* Fault: the relation of one side read from the other side.
SideSwapped(c, names) == IF c.left \in names THEN "right" ELSE "left"

Side(c, names) == IF c.left \in names THEN "left" ELSE "right"

\* __get_params_for_sorting_keys: each side on its own takes the first of the
\* atoms whose term on that side has the highest priority.
SortAtom(names) ==
    LET atoms == condition.atoms
        rank(i) == Priority[Term(atoms[i], names)]
    IN  atoms[CHOOSE i \in DOMAIN atoms :
            \A j \in DOMAIN atoms :
                rank(i) > rank(j) \/ (rank(i) = rank(j) /\ i <= j)]

KeyOf(pm, names) == pm[Term(SortAtom(names), names)]

-----------------------------------------------------------------------------

Holds(c, l, r) ==
    LET value(n) == IF n \in LeftName THEN l[n] ELSE r[n]
    IN  L!Compare(c.op, value(c.left), value(c.right))

Satisfied(l, r) ==
    \A clause \in condition.clauses : \E i \in clause : Holds(condition.atoms[i], l, r)

Init ==
    /\ condition \in Conditions
    /\ left = <<>>
    /\ right = <<>>
    /\ joined = {}

\* A new match of the left side: stored, then joined with what the right
\* storage returns for its key, each pair validated.
NewLeft(x) ==
    /\ Len(left) < MaxSize
    /\ LET e == [key |-> KeyOf(x, LeftName), pm |-> x]
           c == SortAtom(RightName)
           candidates == ToSet(R!Get(c.op, Side(c, RightName), e.key))
       IN  /\ left' = InsertAt(left, L!Place(e) + 1, e)
           /\ joined' = joined \cup
                {<<x, f.pm>> : f \in {g \in candidates : Satisfied(x, g.pm)}}
    /\ UNCHANGED <<condition, right>>

NewRight(y) ==
    /\ Len(right) < MaxSize
    /\ LET e == [key |-> KeyOf(y, RightName), pm |-> y]
           c == SortAtom(LeftName)
           candidates == ToSet(L!Get(c.op, Side(c, LeftName), e.key))
       IN  /\ right' = InsertAt(right, R!Place(e) + 1, e)
           /\ joined' = joined \cup
                {<<f.pm, y>> : f \in {g \in candidates : Satisfied(g.pm, y)}}
    /\ UNCHANGED <<condition, left>>

Next ==
    \/ \E x \in [LeftName -> Val] : NewLeft(x)
    \/ \E y \in [RightName -> Val] : NewRight(y)

Spec == Init /\ [][Next]_vars

-----------------------------------------------------------------------------
(* Properties *)

\* The keys of l and r satisfy the relation of c, each on the side of c that its
\* subtree has.
KeysFit(c, l, r) ==
    LET lkey == KeyOf(l, LeftName)
        rkey == KeyOf(r, RightName)
    IN  IF c.left \in LeftName THEN L!Compare(c.op, lkey, rkey)
        ELSE L!Compare(c.op, rkey, lkey)

\* A new match looks at a slice of the other storage only, and which slice depends
\* on the atom that side is sorted by.  A pair that satisfies the condition of the
\* node is lost to this only if its keys fail one of the two atoms the sides are
\* sorted by (BinaryNode.handle_new_partial_match with the keys of
\* _get_condition_based_sorting_keys): neither the order of arrival, nor repeated
\* keys, nor the place in the storage costs a pair.
LostOnlyByKeys ==
    \A l \in ToSet(left), r \in ToSet(right) :
        /\ Satisfied(l.pm, r.pm)
        /\ KeysFit(SortAtom(LeftName), l.pm, r.pm)
        /\ KeysFit(SortAtom(RightName), l.pm, r.pm)
        => <<l.pm, r.pm>> \in joined

\* Every pair that satisfies the condition has been created.
JoinComplete ==
    \A l \in ToSet(left), r \in ToSet(right) :
        Satisfied(l.pm, r.pm) => <<l.pm, r.pm>> \in joined

\* Atom c must hold for the condition to: it is a clause by itself.
Required(c) == \E i \in DOMAIN condition.atoms : condition.atoms[i] = c /\ {i} \in condition.clauses

\* Sorting loses nothing at a node both of whose sides are sorted by one atom, when
\* that atom is a conjunct of the condition and not of a disjunction
\* (BinaryNode._get_condition_based_sorting_keys does not tell the two apart).
CompleteWhenSortedByConjunct ==
    SortAtom(LeftName) = SortAtom(RightName) /\ Required(SortAtom(LeftName)) => JoinComplete
===============================================================================
