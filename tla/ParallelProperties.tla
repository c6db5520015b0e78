------------------------- MODULE ParallelProperties -------------------------
(***************************************************************************)
(* What the data-parallel evaluation guarantees.                           *)
(***************************************************************************)
EXTENDS DataParallel

Result == INSTANCE ResultStream WITH
            source <- input, results <- output, closed <- outputClosed

EventIds == 1..Len(input)

\* The type invariant.  A queue is closed at most once and nothing follows; a
\* unit that has stopped has nothing left to do.
TypeOK ==
    /\ next \in 1..(Len(input) + 1)
    /\ todo \subseteq Unit
    /\ joined \in 0..Cardinality(Unit)
    /\ \A u \in Unit :
        /\ Range(queue[u]) \subseteq EventIds \cup {Closed}
        /\ \A i \in 1..(Len(queue[u]) - 1) : queue[u][i] # Closed
        /\ Range(received[u]) \subseteq EventIds
        /\ found[u] \subseteq [Positive -> EventIds]
        /\ status[u] \in {"running", "stopped"}
        /\ status[u] = "stopped" => queue[u] = <<>> /\ found[u] = {}
    /\ lock \in Unit \cup {NoUnit}
    /\ Range(output) \subseteq [Positive -> EventIds]
    /\ outputClosed \in BOOLEAN

\* Whatever a unit finds in its part of the input is a match of the whole:
\* no unit misses a negative event that prevents a match the unit keeps.
KeptMatchesDemanded ==
    \A u \in Unit : \A m \in found[u] : Keeps(u, m) => m \in Demanded(input)

\* The threads together implement one evaluation of the whole input: the
\* output gets exactly the demanded matches, and is closed after the last.
RefinesResult == Result!ResultSpec

\* The output is closed in the end: no unit is left waiting for its queue to be
\* closed, the main thread for a unit, or a unit for the lock.
OutputCloses == <> outputClosed
=============================================================================
