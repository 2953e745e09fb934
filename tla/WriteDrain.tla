----------------------------- MODULE WriteDrain -----------------------------
(***************************************************************************)
(* What the registry of pending writes promises to the rest of the         *)
(* program, without its map, its condition variable or its locks.          *)
(*                                                                         *)
(* A thread is either writing or not.  Once the drain is closed no         *)
(* background write starts, once writing is forbidden no write of any kind *)
(* starts, and "Idle" is only ever reported at a moment when no thread is  *)
(* writing.  Module PendingWrites implements this specification.           *)
(***************************************************************************)

CONSTANT Threads

VARIABLES
    writing,    \* the threads that may be touching the disk
    closed,     \* shutdown began: background writes are rejected
    forbidden,  \* the session is read-only: every write is rejected
    report      \* what the last wait for the writes answered

vars == <<writing, closed, forbidden, report>>

Init ==
    /\ writing = {}
    /\ closed = FALSE
    /\ forbidden \in BOOLEAN
    /\ report = "NotAsked"

BeginBackgroundWrite(t) ==
    /\ t \notin writing
    /\ ~closed
    /\ ~forbidden
    /\ writing' = writing \cup {t}
    /\ UNCHANGED <<closed, forbidden, report>>

BeginShutdownWrite(t) ==
    /\ t \notin writing
    /\ ~forbidden
    /\ writing' = writing \cup {t}
    /\ UNCHANGED <<closed, forbidden, report>>

Finish(t) ==
    /\ t \in writing
    /\ writing' = writing \ {t}
    /\ UNCHANGED <<closed, forbidden, report>>

Close ==
    /\ closed' = TRUE
    /\ UNCHANGED <<writing, forbidden, report>>

Forbid ==
    /\ forbidden' = TRUE
    /\ UNCHANGED <<writing, closed, report>>

Report ==
    /\ report' = IF writing = {} THEN "Idle" ELSE "Busy"
    /\ UNCHANGED <<writing, closed, forbidden>>

Next ==
    \/ \E t \in Threads :
          \/ BeginBackgroundWrite(t)
          \/ BeginShutdownWrite(t)
          \/ Finish(t)
    \/ Close
    \/ Forbid
    \/ Report

Spec == Init /\ [][Next]_vars

=============================================================================
