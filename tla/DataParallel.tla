---------------------------- MODULE DataParallel ----------------------------
(***************************************************************************)
(* The data-parallel evaluation (DataParallelExecutionAlgorithm and its    *)
(* three ways to split the input).  The main thread hands every event to   *)
(* the queues of some execution units, one queue after the other; each     *)
(* unit is a thread that evaluates the events of its queue and filters its *)
(* matches into the common output stream, under a lock.  At the end of the *)
(* input the main thread closes and joins the units in turn, and then      *)
(* closes the output.                                                      *)
(*                                                                         *)
(* A unit evaluates one event in a step and hands over, in any order, the  *)
(* matches this event completes: that is what RefinesSemantics and         *)
(* EveryMatchAccountedFor show of the evaluation inside the unit, for      *)
(* patterns without unbounded negation.                                    *)
(***************************************************************************)
EXTENDS NegationPattern

CONSTANTS
    Algorithms,     \* subset of {"RIP", "GROUP_BY_KEY", "HYPER_CUBE"}
    UnitsNumber,    \* units of RIP and GROUP_BY_KEY
    Interval,       \* length of a time range of RIP, at least the window
    Shape,          \* sizes of the dimensions of the cube
    Dimensions,     \* [event types -> sets of dimensions]: attributes_dict
    InputLengths,   \* bound: the numbers of events in the input
    MaxGap          \* bound: time between consecutive events

ASSUME ParallelAssumption ==
    /\ Algorithms \subseteq {"RIP", "GROUP_BY_KEY", "HYPER_CUBE"}
    /\ UnitsNumber \in Nat \ {0}
    /\ Interval \in Nat \ {0} /\ Interval >= Window
    /\ Shape \in Seq(Nat \ {0})
    /\ "HYPER_CUBE" \in Algorithms => Shape # <<>>
    /\ \A t \in DOMAIN Dimensions :
        /\ Dimensions[t] # {} /\ Dimensions[t] \subseteq DOMAIN Shape
        /\ \A v \in DOMAIN Dimensions \ {t} : Dimensions[t] \cap Dimensions[v] = {}
    /\ InputLengths \subseteq Nat \ {0}
    /\ MaxGap \in Nat
    /\ \A q \in Kind : q.val \in Int

\* Evaluate finds a match with the event that completes it, so no negation may
\* still be open then (the terms of RIP exclude that as well).  The constructor
\* for cubes rejects a pattern with a type that occurs twice.
ASSUME TermsAssumption ==
    /\ \A n \in Negative : ~ Unbounded(n)
    /\ "HYPER_CUBE" \in Algorithms => IsInjective(TypeOf)

VARIABLES
    input,      \* the input stream
    algorithm,  \* the way it is split
    next,       \* the main thread: the next event to hand out
    todo,       \* the main thread: units still to be given the event before
    joined,     \* the main thread: number of units closed and joined
    queue,      \* [Unit -> Seq(event id)], ended by Closed
    received,   \* [Unit -> Seq(event id)], the events evaluated by a unit
    found,      \* [Unit -> matches of the last event not handed over yet]
    lock,       \* the owner of match_lock, or NoUnit
    status,     \* [Unit -> "running" or "stopped"]
    output,     \* the output stream
    outputClosed

vars == <<input, algorithm, next, todo, joined, queue, received, found, lock,
          status, output, outputClosed>>

\* None, the item that ends a stream
Closed == 0

NoUnit == -1

-----------------------------------------------------------------------------
(* Splitting the input *)

\* The number of units below a step in dimension d, row by row.
Stride(d) ==
    LET product[k \in DOMAIN Shape] ==
            IF k = Len(Shape) THEN 1 ELSE Shape[k + 1] * product[k + 1]
    IN  product[d]

CubeSize == Stride(1) * Shape[1]

Unit == 0..((IF algorithm = "HYPER_CUBE" THEN CubeSize ELSE UnitsNumber) - 1)

\* The place of a unit of the cube in dimension d.
Coordinate(u, d) == (u \div Stride(d)) % Shape[d]

\* RIP: the unit in charge of the time range t belongs to.
UnitOfTime(t) == ((t - input[1].ts) \div Interval) % UnitsNumber

\* Fault: an event goes to its own time range only.
ClassifierOwnRange(e) ==
    CASE algorithm = "RIP" -> {UnitOfTime(input[e].ts)}
      [] algorithm = "GROUP_BY_KEY" -> {input[e].val % UnitsNumber}
      [] algorithm = "HYPER_CUBE" -> Unit

\* The units an event is handed to.  RIP: its own range and the one a window
\* earlier.  A cube: the faces of all dimensions of its type.
Classifier(e) ==
    CASE algorithm = "RIP" ->
            {UnitOfTime(input[e].ts), UnitOfTime(input[e].ts - Window)}
      [] algorithm = "GROUP_BY_KEY" -> {input[e].val % UnitsNumber}
      [] algorithm = "HYPER_CUBE" ->
            IF input[e].type \in DOMAIN Dimensions
            THEN {u \in Unit : \E d \in Dimensions[input[e].type] :
                    Coordinate(u, d) = input[e].val % Shape[d]}
            ELSE Unit

FirstTimestamp(m) ==
    CHOOSE t \in {input[m[l]].ts : l \in Positive} :
        \A l \in Positive : t <= input[m[l]].ts

\* The units that are handed every event of a match.
CommonUnits(m) == {u \in Unit : \A l \in Positive : u \in Classifier(m[l])}

\* Does the filter of unit u let match m pass (skip_item)?
Keeps(u, m) ==
    CASE algorithm = "RIP" -> UnitOfTime(FirstTimestamp(m)) = u
      [] algorithm = "GROUP_BY_KEY" -> TRUE
      [] algorithm = "HYPER_CUBE" -> \A v \in CommonUnits(m) : u <= v

-----------------------------------------------------------------------------
(* States *)

Inputs ==
    {s \in UNION {[1..k -> [type : {q.type : q \in Kind}, ts : 0..(MaxGap * (k - 1)),
                            val : {q.val : q \in Kind}]] : k \in InputLengths} :
        /\ s[1].ts = 0
        /\ \A i \in DOMAIN s : [type |-> s[i].type, val |-> s[i].val] \in Kind
        /\ \A i \in 2..Len(s) : s[i].ts - s[i - 1].ts \in 0..MaxGap}

Init ==
    /\ input \in Inputs
    /\ algorithm \in Algorithms
    /\ next = 1
    /\ todo = {}
    /\ joined = 0
    /\ queue = [u \in Unit |-> <<>>]
    /\ received = [u \in Unit |-> <<>>]
    /\ found = [u \in Unit |-> {}]
    /\ lock = NoUnit
    /\ status = [u \in Unit |-> "running"]
    /\ output = <<>>
    /\ outputClosed = FALSE

-----------------------------------------------------------------------------
(* The main thread *)

\* The next event is read and classified.
Classify ==
    /\ next <= Len(input)
    /\ todo = {}
    /\ todo' = Classifier(next)
    /\ next' = next + 1
    /\ UNCHANGED <<input, algorithm, joined, queue, received, found, lock, status,
                   output, outputClosed>>

\* The units are taken in the order of a set of small integers.
HandOut(u) ==
    /\ u \in todo
    /\ \A v \in todo : u <= v
    /\ queue' = [queue EXCEPT ![u] = Append(@, next - 1)]
    /\ todo' = todo \ {u}
    /\ UNCHANGED <<input, algorithm, next, joined, received, found, lock, status,
                   output, outputClosed>>

AllHandedOut == next > Len(input) /\ todo = {}

\* Fault: a queue is closed while events are still handed out.
CloseUnitEarly(u) ==
    /\ next > Len(input)
    /\ u = joined
    /\ status[u] = "running"
    /\ Closed \notin Range(queue[u])
    /\ queue' = [queue EXCEPT ![u] = Append(@, Closed)]
    /\ UNCHANGED <<input, algorithm, next, todo, joined, received, found, lock,
                   status, output, outputClosed>>

\* ExecutionUnit.wait: the queue of the unit is closed (once).
CloseUnit(u) ==
    /\ AllHandedOut
    /\ u = joined
    /\ status[u] = "running"
    /\ Closed \notin Range(queue[u])
    /\ queue' = [queue EXCEPT ![u] = Append(@, Closed)]
    /\ UNCHANGED <<input, algorithm, next, todo, joined, received, found, lock,
                   status, output, outputClosed>>

\* The thread of the unit has ended.
JoinUnit(u) ==
    /\ AllHandedOut
    /\ u = joined
    /\ status[u] = "stopped"
    /\ joined' = joined + 1
    /\ UNCHANGED <<input, algorithm, next, todo, queue, received, found, lock,
                   status, output, outputClosed>>

CloseOutput ==
    /\ joined = Cardinality(Unit)
    /\ ~ outputClosed
    /\ outputClosed' = TRUE
    /\ UNCHANGED <<input, algorithm, next, todo, joined, queue, received, found,
                   lock, status, output>>

Main ==
    \/ Classify
    \/ \E u \in Unit : HandOut(u) \/ CloseUnit(u) \/ JoinUnit(u)
    \/ CloseOutput

-----------------------------------------------------------------------------
(* An execution unit *)

\* The matches a unit demands of the events it has received, as matches of the
\* input; those completed by its last event.
NewMatches(ids) ==
    LET own == [i \in DOMAIN ids |-> input[ids[i]]]
    IN  {[l \in Positive |-> ids[m[l]]] :
            m \in {q \in Demanded(own) : Len(own) \in Range(q)}}

\* Fault: the queue is a stack.
EvaluateLast(u) ==
    /\ found[u] = {}
    /\ lock # u
    /\ queue[u] # <<>>
    /\ LET e == queue[u][Len(queue[u])]
       IN  /\ e # Closed
           /\ received' = [received EXCEPT ![u] = Append(@, e)]
    /\ found' = [found EXCEPT ![u] = NewMatches(received'[u])]
    /\ queue' = [queue EXCEPT ![u] = SubSeq(@, 1, Len(@) - 1)]
    /\ UNCHANGED <<input, algorithm, next, todo, joined, lock, status, output,
                   outputClosed>>

Evaluate(u) ==
    /\ found[u] = {}
    /\ lock # u
    /\ queue[u] # <<>>
    /\ Head(queue[u]) # Closed
    /\ received' = [received EXCEPT ![u] = Append(@, Head(queue[u]))]
    /\ found' = [found EXCEPT ![u] = NewMatches(received'[u])]
    /\ queue' = [queue EXCEPT ![u] = Tail(@)]
    /\ UNCHANGED <<input, algorithm, next, todo, joined, lock, status, output,
                   outputClosed>>

\* FilterStream.add_item drops a match that another unit hands over.
Skip(u) ==
    /\ lock # u
    /\ \E m \in found[u] :
        /\ ~ Keeps(u, m)
        /\ found' = [found EXCEPT ![u] = @ \ {m}]
    /\ UNCHANGED <<input, algorithm, next, todo, joined, queue, received, lock,
                   status, output, outputClosed>>

Acquire(u) ==
    /\ lock = NoUnit
    /\ \E m \in found[u] : Keeps(u, m)
    /\ lock' = u
    /\ UNCHANGED <<input, algorithm, next, todo, joined, queue, received, found,
                   status, output, outputClosed>>

\* Fault: the lock is not released.
DeliverAndKeepLock(u) ==
    /\ lock = u
    /\ \E m \in found[u] :
        /\ Keeps(u, m)
        /\ output' = Append(output, m)
        /\ found' = [found EXCEPT ![u] = @ \ {m}]
    /\ UNCHANGED <<input, algorithm, next, todo, joined, queue, received, lock,
                   status, outputClosed>>

\* Under the lock, a match goes to the output and the lock is released.
Deliver(u) ==
    /\ lock = u
    /\ \E m \in found[u] :
        /\ Keeps(u, m)
        /\ output' = Append(output, m)
        /\ found' = [found EXCEPT ![u] = @ \ {m}]
    /\ lock' = NoUnit
    /\ UNCHANGED <<input, algorithm, next, todo, joined, queue, received, status,
                   outputClosed>>

Stop(u) ==
    /\ found[u] = {}
    /\ lock # u
    /\ queue[u] # <<>>
    /\ Head(queue[u]) = Closed
    /\ queue' = [queue EXCEPT ![u] = Tail(@)]
    /\ status' = [status EXCEPT ![u] = "stopped"]
    /\ UNCHANGED <<input, algorithm, next, todo, joined, received, found, lock,
                   output, outputClosed>>

Work(u) == Evaluate(u) \/ Skip(u) \/ Acquire(u) \/ Deliver(u) \/ Stop(u)

-----------------------------------------------------------------------------

Next == Main \/ \E u \in Unit : Work(u)

Spec == Init /\ [][Next]_vars

\* As long as some thread can go on, one does.  No more is needed: the input is
\* finite, so no thread can keep the others waiting for ever.
FairSpec == Spec /\ WF_vars(Next)
=============================================================================
