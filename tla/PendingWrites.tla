--------------------------- MODULE PendingWrites ----------------------------
(***************************************************************************)
(* The registry of running on-disk writes (crates/gt-pending-writes).      *)
(*                                                                         *)
(* Every access to the registry happens under its mutex, so one locked     *)
(* section is one action.  What happens outside the mutex is a step of its *)
(* own: the write a thread performs while it holds a guard, the            *)
(* notification a dropped guard sends after it unlocked, and the time the  *)
(* waiting thread spends parked on the condition variable.                 *)
(***************************************************************************)
EXTENDS Naturals, Sequences, FiniteSets

CONSTANTS
    Threads,              \* the threads that write
    Kinds,                \* WriteKind: what interrupting a write costs
    RecentlyFinishedKept, \* RECENTLY_FINISHED_KEPT
    MaxRegistrations,     \* bound: writes registered in one behaviour
    None                  \* no guard

ASSUME ConstantsAssumption ==
    /\ RecentlyFinishedKept \in Nat
    /\ MaxRegistrations \in Nat
    /\ None \notin Nat

VARIABLES
    write_access,       \* RegistryState::write_access
    shutting_down,      \* RegistryState::shutting_down
    running,            \* RegistryState::running: WriteId -> RunningWrite
    recently_finished,  \* RegistryState::recently_finished
    next_id,            \* RegistryState::next_id
    guard,              \* the id in the PendingWriteGuard a thread holds
    notifying,          \* threads between unlocking and notify_all in Drop
    waiter,             \* where wait_until_idle_for is
    reported            \* what wait_until_idle_for last returned

vars == <<write_access, shutting_down, running, recently_finished, next_id,
          guard, notifying, waiter, reported>>

registry == <<write_access, shutting_down, running, recently_finished, next_id>>

\* The entry point a write registered through.  The program labels a write
\* freely, and the two that shutdown performs have labels of their own.
Labels == {"Background", "Shutdown"}

Writes == [label : Labels, kind : Kinds, progressReported : BOOLEAN]

TypeOK ==
    /\ write_access \in {"Owner", "ReadOnly"}
    /\ shutting_down \in BOOLEAN
    /\ DOMAIN running \subseteq Nat
    /\ running \in [DOMAIN running -> Writes]
    /\ recently_finished \in Seq(Labels)
    /\ Len(recently_finished) <= RecentlyFinishedKept
    /\ next_id \in Nat
    /\ guard \in [Threads -> Nat \cup {None}]
    /\ notifying \subseteq Threads
    /\ waiter \in {"Away", "Parked", "Notified"}
    /\ reported \in {"NotAsked", "Idle", "Busy"}

Init ==
    /\ write_access \in {"Owner", "ReadOnly"}
    /\ shutting_down = FALSE
    /\ running = [id \in {} |-> None]
    /\ recently_finished = <<>>
    /\ next_id = 0
    /\ guard = [t \in Threads |-> None]
    /\ notifying = {}
    /\ waiter = "Away"
    /\ reported = "NotAsked"

-----------------------------------------------------------------------------

\* The threads between a granted guard and its drop.
Writing == {t \in Threads : guard[t] # None}

is_idle == DOMAIN running = {}

\* The distinct consequences of stopping now (PendingWritesSnapshot).
interruption_costs == {running[id].kind : id \in DOMAIN running}

\* Slip: ids taken from the size of the map instead of a counter.
register_IdFromLen(t, label, kind) ==
    LET new == Cardinality(DOMAIN running)
    IN  /\ next_id < MaxRegistrations
        /\ next_id' = next_id + 1
        /\ running' = [id \in DOMAIN running \cup {new} |->
                          IF id = new
                          THEN [label |-> label, kind |-> kind,
                                progressReported |-> FALSE]
                          ELSE running[id]]
        /\ guard' = [guard EXCEPT ![t] = new]

register(t, label, kind) ==
    /\ next_id < MaxRegistrations
    /\ next_id' = next_id + 1
    /\ running' = [id \in DOMAIN running \cup {next_id} |->
                      IF id = next_id
                      THEN [label |-> label, kind |-> kind,
                            progressReported |-> FALSE]
                      ELSE running[id]]
    /\ guard' = [guard EXCEPT ![t] = next_id]

\* A thread is between two writes: it holds no guard and has no notification
\* left to send.
Free(t) == t \notin Writing \cup notifying

become_read_only_for_the_rest_of_the_run ==
    /\ write_access' = "ReadOnly"
    /\ UNCHANGED <<shutting_down, running, recently_finished, next_id, guard,
                   notifying, waiter, reported>>

\* A rejected try_begin changes nothing, so only the granted one is a step.
try_begin(t, kind) ==
    /\ Free(t)
    /\ write_access # "ReadOnly"
    /\ ~shutting_down
    /\ register(t, "Background", kind)
    /\ UNCHANGED <<write_access, shutting_down, recently_finished, notifying,
                   waiter, reported>>

try_begin_shutdown_write(t, kind) ==
    /\ Free(t)
    /\ write_access = "Owner"
    /\ register(t, "Shutdown", kind)
    /\ UNCHANGED <<write_access, shutting_down, recently_finished, notifying,
                   waiter, reported>>

begin_shutdown ==
    /\ shutting_down' = TRUE
    /\ UNCHANGED <<write_access, running, recently_finished, next_id, guard,
                   notifying, waiter, reported>>

\* set_progress and set_stage: both edit the entry the guard names.
edit_running_write(t) ==
    /\ t \in Writing
    /\ guard[t] \in DOMAIN running
    /\ running' = [running EXCEPT ![guard[t]].progressReported = TRUE]
    /\ UNCHANGED <<write_access, shutting_down, recently_finished, next_id,
                   guard, notifying, waiter, reported>>

\* Slip: the limit is checked before the label is pushed.
KeepRecent_OneTooMany(labels) ==
    IF Len(labels) > RecentlyFinishedKept + 1 THEN Tail(labels) ELSE labels

\* The labels kept after one more write finished, oldest first.
KeepRecent(labels) ==
    IF Len(labels) > RecentlyFinishedKept THEN Tail(labels) ELSE labels

\* Slip: the oldest write is taken out instead of the guard's own.
drop_guard_Oldest(t) ==
    LET oldest == CHOOSE id \in DOMAIN running :
                      \A other \in DOMAIN running : id <= other
    IN  /\ t \in Writing
        /\ running' = [id \in DOMAIN running \ {oldest} |-> running[id]]
        /\ guard' = [guard EXCEPT ![t] = None]
        /\ notifying' = IF DOMAIN running' = {} THEN notifying \cup {t}
                                                ELSE notifying
        /\ UNCHANGED <<write_access, shutting_down, recently_finished, next_id,
                       waiter, reported>>

\* Slip: whether the registry is idle is read before the write is taken out.
drop_guard_IdleReadTooEarly(t) ==
    /\ t \in Writing
    /\ running' = [id \in DOMAIN running \ {guard[t]} |-> running[id]]
    /\ guard' = [guard EXCEPT ![t] = None]
    /\ notifying' = IF DOMAIN running = {} THEN notifying \cup {t}
                                           ELSE notifying
    /\ UNCHANGED <<write_access, shutting_down, recently_finished, next_id,
                   waiter, reported>>

\* Drop for PendingWriteGuard, the locked section.  Whether the registry went
\* idle is read under the lock and acted on after it.
drop_guard(t) ==
    /\ t \in Writing
    /\ running' = [id \in DOMAIN running \ {guard[t]} |-> running[id]]
    /\ recently_finished' =
          IF guard[t] \in DOMAIN running
          THEN KeepRecent(Append(recently_finished, running[guard[t]].label))
          ELSE recently_finished
    /\ guard' = [guard EXCEPT ![t] = None]
    /\ notifying' = IF DOMAIN running' = {} THEN notifying \cup {t}
                                            ELSE notifying
    /\ UNCHANGED <<write_access, shutting_down, next_id, waiter, reported>>

\* Drop for PendingWriteGuard, after the lock: idle.notify_all().
notify_all(t) ==
    /\ t \in notifying
    /\ notifying' = notifying \ {t}
    /\ waiter' = IF waiter = "Parked" THEN "Notified" ELSE waiter
    /\ UNCHANGED <<registry, guard, reported>>

\* wait_until_idle_for returns what it finds under the lock.
ReturnFromWait ==
    /\ waiter' = "Away"
    /\ reported' = IF is_idle THEN "Idle" ELSE "Busy"

\* The predicate of wait_while_for is evaluated with the lock held: the
\* caller returns at once, or releases the lock and parks in one step.
WaitOrReturn ==
    \/ is_idle /\ ReturnFromWait
    \/ ~is_idle /\ waiter' = "Parked" /\ UNCHANGED reported

wait_until_idle_for ==
    /\ waiter = "Away"
    /\ WaitOrReturn
    /\ UNCHANGED <<registry, guard, notifying>>

\* Slip: a notification is taken to mean idle, without reading the map again.
WaitWakesUp_Trusting ==
    /\ waiter = "Notified"
    /\ waiter' = "Away"
    /\ reported' = "Idle"
    /\ UNCHANGED <<registry, guard, notifying>>

WaitWakesUp ==
    /\ waiter = "Notified"
    /\ WaitOrReturn
    /\ UNCHANGED <<registry, guard, notifying>>

WaitTimesOut ==
    /\ waiter = "Parked"
    /\ ReturnFromWait
    /\ UNCHANGED <<registry, guard, notifying>>

-----------------------------------------------------------------------------

ThreadStep(t) ==
    \/ \E kind \in Kinds : try_begin(t, kind)
    \/ \E kind \in Kinds : try_begin_shutdown_write(t, kind)
    \/ edit_running_write(t)
    \/ drop_guard(t)
    \/ notify_all(t)

Next ==
    \/ \E t \in Threads : ThreadStep(t)
    \/ become_read_only_for_the_rest_of_the_run
    \/ begin_shutdown
    \/ wait_until_idle_for
    \/ WaitWakesUp
    \/ WaitTimesOut

Spec == Init /\ [][Next]_vars

\* A granted write runs to its end and drops its guard, a dropped guard sends
\* its notification, and a woken thread runs.  Nothing is assumed of the
\* timeout: what has to happen must happen without it.
Fairness ==
    /\ \A t \in Threads : WF_vars(drop_guard(t)) /\ WF_vars(notify_all(t))
    /\ WF_vars(WaitWakesUp)

FairSpec == Spec /\ Fairness

-----------------------------------------------------------------------------

\* The debug_assert in edit_running_write, "a write stays registered until its
\* guard drops", and its converse: the registry holds exactly the writes whose
\* guards are alive, so it is idle exactly when no thread may touch the disk.
LiveGuardsAreTheRegistry ==
    /\ \A t \in Writing : guard[t] \in DOMAIN running
    /\ \A id \in DOMAIN running : \E t \in Threads : guard[t] = id

\* Two threads never share an id, and an id given out is below the next one:
\* dropping one guard never takes out another thread's write.
GuardsAreDistinct ==
    /\ \A t, u \in Writing : guard[t] = guard[u] => t = u
    /\ \A t \in Writing : guard[t] < next_id

\* No wake-up is lost between the unlock and notify_all in Drop: a parked wait
\* that sees no timeout still returns once the writes are done, whatever
\* starts and finishes in between.
ParkedWaitReturns == (waiter = "Parked") ~> (waiter = "Away")

\* "A write that got a guard is always one wait_until_idle_for waits for":
\* through its map of ids, its notifications and its timeouts the registry
\* implements the drain of WriteDrain.  It answers "Idle" only when no thread
\* is between a granted guard and its drop, grants no background write once
\* shutdown began, and grants no write at all once the session is read-only.
Drain ==
    INSTANCE WriteDrain WITH
        writing   <- Writing,
        closed    <- shutting_down,
        forbidden <- (write_access = "ReadOnly"),
        report    <- reported

ImplementsDrain == Drain!Spec

=============================================================================
