------------------------------ MODULE MatchStore ------------------------------
(***************************************************************************)
(* What a node needs from the storage of its partial matches, without its  *)
(* data structure: a bag that keeps every match it is given until a        *)
(* cleanup, which removes exactly the matches that began before a limit.   *)
(* PatternMatchStorage promises it, EvalTree relies on it.                 *)
(***************************************************************************)
EXTENDS Naturals, Bags

CONSTANTS Entry,            \* the matches, as records with a field first
          Stamp,            \* the limits a cleanup may be given
          CleanUpInterval   \* additions that make a cleanup due

VARIABLES held,     \* the bag of stored matches
          count     \* additions since the last cleanup

storeVars == <<held, count>>

StoreInit == held = EmptyBag /\ count = 0

Put(e) ==
    /\ held' = held (+) SetToBag({e})
    /\ count' = count + 1

\* A cleanup is done only when it is due.
Expire(earliest) ==
    /\ count >= CleanUpInterval
    /\ held' = [e \in {x \in DOMAIN held : x.first >= earliest} |-> held[e]]
    /\ count' = 0

StoreNext ==
    \/ \E e \in Entry : Put(e)
    \/ \E earliest \in Stamp : Expire(earliest)

StoreSpec == StoreInit /\ [][StoreNext]_storeVars
===============================================================================
