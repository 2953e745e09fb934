------------------------------ MODULE DayStore ------------------------------
(***************************************************************************)
(* What a day archive promises the rest of the program, without its        *)
(* columns, its index and the order it writes them in: for every day the   *)
(* fetch it holds, changed only by storing that day or by deleting it.     *)
(* A delete that was stopped loses every day, and nothing can be stored or *)
(* deleted until the loss was accepted.  Where an operation ends in a way  *)
(* the archive has no answer to, the store is torn, and nothing is         *)
(* promised of it from then on.  Module DayArchive implements this         *)
(* specification.                                                          *)
(***************************************************************************)
EXTENDS Naturals

CONSTANT Days

VARIABLES
    stored,     \* the fetch each day holds, 0 where the day is not stored
    lost,       \* a delete was stopped and not yet recovered from
    torn,       \* an operation ended in a way nothing puts right
    fetches     \* how many days were fetched so far

vars == <<stored, lost, torn, fetches>>

Nothing == [d \in Days |-> 0]

Init == stored = Nothing /\ lost = FALSE /\ torn = FALSE /\ fetches = 0

\* The store can be used: it is whole, and no loss is waiting to be accepted.
Usable == ~torn /\ ~lost

Insert(d) ==
    /\ Usable
    /\ fetches' = fetches + 1
    /\ stored' = [stored EXCEPT ![d] = fetches']
    /\ UNCHANGED <<lost, torn>>

InsertIsStopped ==
    /\ Usable
    /\ fetches' = fetches + 1
    /\ UNCHANGED <<stored, lost, torn>>

DeleteBefore(cutoff) ==
    /\ Usable
    /\ stored' = [d \in Days |-> IF d < cutoff THEN 0 ELSE stored[d]]
    /\ UNCHANGED <<lost, torn, fetches>>

DeleteAll ==
    /\ Usable
    /\ stored' = Nothing
    /\ UNCHANGED <<lost, torn, fetches>>

DeleteIsStopped ==
    /\ Usable
    /\ lost' = TRUE
    /\ stored' = Nothing
    /\ UNCHANGED <<torn, fetches>>

Recover ==
    /\ ~torn /\ lost
    /\ lost' = FALSE
    /\ UNCHANGED <<stored, torn, fetches>>

\* The other variables are not constrained.
Tear == torn' = TRUE

Next ==
    \/ \E d \in Days : Insert(d)
    \/ InsertIsStopped
    \/ \E cutoff \in Days : DeleteBefore(cutoff)
    \/ DeleteAll
    \/ DeleteIsStopped
    \/ Recover
    \/ Tear

Spec == Init /\ [][Next]_vars

=============================================================================
