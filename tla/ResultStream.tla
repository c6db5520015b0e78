---------------------------- MODULE ResultStream ----------------------------
(***************************************************************************)
(* What a parallel evaluation promises: the output stream receives the     *)
(* matches a single evaluation of the whole input demands, in some order,  *)
(* each once, and is closed after the last of them.                        *)
(***************************************************************************)
EXTENDS NegationPattern

VARIABLES
    source,     \* the whole input stream
    results,    \* the matches delivered so far, in order
    closed      \* the output stream has been closed

resultVars == <<source, results, closed>>

ResultInit ==
    /\ results = <<>>
    /\ closed = FALSE

Deliver(m) ==
    /\ ~ closed
    /\ m \in Demanded(source) \ Range(results)
    /\ results' = Append(results, m)
    /\ UNCHANGED <<source, closed>>

CloseResults ==
    /\ ~ closed
    /\ Range(results) = Demanded(source)
    /\ closed' = TRUE
    /\ UNCHANGED <<source, results>>

ResultNext ==
    \/ \E m \in Range(results') : Deliver(m)
    \/ CloseResults

ResultSpec == ResultInit /\ [][ResultNext]_resultVars
=============================================================================
