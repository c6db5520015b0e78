------------------------------ MODULE MCKleene ------------------------------
(***************************************************************************)
(* Small patterns with a Kleene closure for TLC.                           *)
(***************************************************************************)
EXTENDS KleeneProperties, TLC

Less == {<<0, 1>>}
Equal == {<<0, 0>>, <<1, 1>>}

Pattern(operator, partner, min, max, conditions) ==
    [operator |-> operator, partner |-> partner, min |-> min, max |-> max,
     conditions |-> conditions,
     values |-> IF conditions = {} THEN {0} ELSE {0, 1}]

Setups ==
    {Pattern(o, "last", 1, NoLimit, {}) : o \in {"none", "SEQ", "AND"}} \cup
    {Pattern("SEQ", "first", 2, 3, {}),
     Pattern("SEQ", "last", 1, 2, {IndexCondition(0, 1, Less)}),
     Pattern("none", "last", 1, NoLimit, {OffsetCondition(1, Less \cup Equal)}),
     Pattern("none", "last", 1, NoLimit, {OffsetCondition(-2, Equal)}),
     Pattern("none", "last", 2, 3, {ValueCondition(NoIndex, 1, Equal)}),
     Pattern("none", "last", 1, 3, {ValueCondition(2, 1, Equal)})}

SetupsJoined == {Pattern("SEQ", "last", 1, NoLimit, {})}
=============================================================================
