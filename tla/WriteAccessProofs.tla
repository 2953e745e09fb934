------------------------- MODULE WriteAccessProofs --------------------------
(***************************************************************************)
(* Who may write in the data directory, for any number of processes,       *)
(* threads, loads and writes: the lock and the files beside it, the way to *)
(* open databases, and the registry of the writes of one process.          *)
(***************************************************************************)
EXTENDS InstanceLock, StartUp, PendingWrites, SequenceTheorems, TLAPS

-----------------------------------------------------------------------------
(***************************************************************************)
(* The registry of pending writes, for any set of threads, any kinds of    *)
(* write and any bounds.                                                   *)
(***************************************************************************)

\* The inductive invariant: the types, that the guards alive are exactly the
\* registered writes, and that no two guards share an id.  Neither of the last
\* two is inductive alone: a drop keeps the other guards registered because
\* their ids differ, and ids differ because a registered id is below next_id.
RegistryInv ==
    /\ TypeOK
    /\ LiveGuardsAreTheRegistry
    /\ GuardsAreDistinct

-----------------------------------------------------------------------------

\* What is kept of the finished labels stays within its limit (Drop for
\* PendingWriteGuard pops the oldest label past the limit).
LEMMA KeepRecentType ==
    ASSUME NEW s \in Seq(Labels), Len(s) <= RecentlyFinishedKept,
           NEW l \in Labels
    PROVE  /\ KeepRecent(Append(s, l)) \in Seq(Labels)
           /\ Len(KeepRecent(Append(s, l))) <= RecentlyFinishedKept
  <1> DEFINE a == Append(s, l)
  <1>1. a \in Seq(Labels) /\ Len(a) = Len(s) + 1 /\ a # <<>>
    BY AppendProperties
  <1>2. Tail(a) \in Seq(Labels) /\ Len(Tail(a)) = Len(a) - 1
    BY <1>1, HeadTailProperties
  <1>3. Len(s) \in Nat
    BY LenProperties
  <1> HIDE DEF a
  <1>4. KeepRecent(a) \in Seq(Labels) /\ Len(KeepRecent(a)) <= RecentlyFinishedKept
    BY <1>1, <1>2, <1>3, ConstantsAssumption, SMT DEF KeepRecent
  <1> QED BY <1>4 DEF a

LEMMA InitRegistryInv == Init => RegistryInv
  <1> SUFFICES ASSUME Init PROVE RegistryInv
    OBVIOUS
  <1>1. DOMAIN running = {}
    BY DEF Init
  <1>2. Writing = {}
    BY DEF Init, Writing
  <1>3. TypeOK
    <2>1. running \in [DOMAIN running -> Writes]
      BY <1>1 DEF Init
    <2>2. recently_finished \in Seq(Labels) /\ Len(recently_finished) <= RecentlyFinishedKept
      BY ConstantsAssumption DEF Init
    <2> QED BY <1>1, <2>1, <2>2 DEF Init, TypeOK
  <1> QED
    BY <1>1, <1>2, <1>3
    DEF RegistryInv, LiveGuardsAreTheRegistry, GuardsAreDistinct

\* Both ways to register give the new write an id nobody holds.
LEMMA RegisterKeepsInv ==
    ASSUME RegistryInv, NEW t \in Threads, Free(t),
           NEW label \in Labels, NEW kind \in Kinds,
           register(t, label, kind),
           UNCHANGED <<write_access, shutting_down, recently_finished,
                       notifying, waiter, reported>>
    PROVE  RegistryInv'
  <1> USE DEF RegistryInv
  <1>1. guard' \in [Threads -> Nat \cup {None}] /\ next_id' \in Nat
    BY DEF TypeOK, register
  <1>2. DOMAIN running' = DOMAIN running \cup {next_id}
    BY DEF register
  <1>3. running' \in [DOMAIN running' -> Writes]
    BY <1>2 DEF TypeOK, register, Writes
  <1>4. TypeOK'
    BY <1>1, <1>2, <1>3 DEF TypeOK
  <1>5. guard[t] = None /\ guard'[t] = next_id
        /\ \A u \in Threads \ {t} : guard'[u] = guard[u]
    BY DEF TypeOK, register, Free, Writing
  <1>6. Writing' = Writing \cup {t}
    BY <1>5, ConstantsAssumption DEF Writing, TypeOK
  <1>7. LiveGuardsAreTheRegistry'
    <2>1. \A u \in Writing' : guard'[u] \in DOMAIN running'
      BY <1>2, <1>5, <1>6 DEF LiveGuardsAreTheRegistry, Writing
    <2>2. ASSUME NEW id \in DOMAIN running
          PROVE  \E u \in Threads : guard'[u] = id
      <3>1. PICK u \in Threads : guard[u] = id
        BY DEF LiveGuardsAreTheRegistry
      <3>2. id # None
        BY ConstantsAssumption DEF TypeOK
      <3> QED BY <3>1, <3>2, <1>5
    <2> QED BY <2>1, <2>2, <1>2, <1>5 DEF LiveGuardsAreTheRegistry
  <1>8. next_id' = next_id + 1 /\ next_id \in Nat
        /\ \A u \in Writing : guard[u] \in Nat /\ guard[u] < next_id
    BY ConstantsAssumption DEF GuardsAreDistinct, register, TypeOK, Writing
  <1>9. GuardsAreDistinct'
    <2>1. \A u \in Writing' : guard'[u] < next_id'
      BY <1>5, <1>6, <1>8 DEF Writing
    <2>2. ASSUME NEW u \in Writing', NEW v \in Writing', guard'[u] = guard'[v]
          PROVE  u = v
      <3>1. u \in Threads /\ v \in Threads
        BY DEF Writing
      <3>2. CASE u = t /\ v # t
        BY <2>2, <3>1, <3>2, <1>5, <1>6, <1>8
      <3>3. CASE u # t /\ v = t
        BY <2>2, <3>1, <3>3, <1>5, <1>6, <1>8
      <3>4. CASE u # t /\ v # t
        BY <2>2, <3>1, <3>4, <1>5, <1>6 DEF GuardsAreDistinct
      <3> QED BY <3>2, <3>3, <3>4
    <2> QED BY <2>1, <2>2 DEF GuardsAreDistinct
  <1> QED BY <1>4, <1>7, <1>9

\* Dropping a guard takes out its own write and no other.
LEMMA DropKeepsInv ==
    ASSUME RegistryInv, NEW t \in Threads, drop_guard(t)
    PROVE  /\ RegistryInv'
           /\ Writing' = Writing \ {t}
  <1> USE DEF RegistryInv
  <1>1. t \in Writing /\ guard[t] \in DOMAIN running
    BY DEF drop_guard, LiveGuardsAreTheRegistry
  <1>2. DOMAIN running' = DOMAIN running \ {guard[t]}
        /\ \A id \in DOMAIN running' : running'[id] = running[id]
    BY DEF drop_guard
  <1>3. guard' \in [Threads -> Nat \cup {None}]
        /\ guard'[t] = None /\ \A u \in Threads \ {t} : guard'[u] = guard[u]
    BY DEF drop_guard, TypeOK
  <1>4. Writing' = Writing \ {t}
    BY <1>3 DEF Writing
  <1>5. running[guard[t]].label \in Labels
    BY <1>1 DEF TypeOK, Writes
  <1>6. recently_finished' \in Seq(Labels)
        /\ Len(recently_finished') <= RecentlyFinishedKept
    BY <1>1, <1>5, KeepRecentType DEF drop_guard, TypeOK
  <1>7. running' \in [DOMAIN running' -> Writes] /\ DOMAIN running' \subseteq Nat
    BY <1>2 DEF drop_guard, TypeOK
  <1>8. notifying' \subseteq Threads
    BY DEF drop_guard, TypeOK
  <1>9. TypeOK'
    BY <1>3, <1>6, <1>7, <1>8 DEF drop_guard, TypeOK
  <1>10. LiveGuardsAreTheRegistry'
    <2>1. ASSUME NEW u \in Writing' PROVE guard'[u] \in DOMAIN running'
      BY <1>1, <1>2, <1>3, <1>4
      DEF LiveGuardsAreTheRegistry, GuardsAreDistinct, Writing
    <2>2. ASSUME NEW id \in DOMAIN running'
          PROVE  \E u \in Threads : guard'[u] = id
      BY <1>2, <1>3 DEF LiveGuardsAreTheRegistry
    <2> QED BY <2>1, <2>2 DEF LiveGuardsAreTheRegistry
  <1>11. next_id' = next_id
    BY DEF drop_guard
  <1>12. GuardsAreDistinct'
    BY <1>3, <1>4, <1>11 DEF GuardsAreDistinct, Writing
  <1> QED BY <1>4, <1>9, <1>10, <1>12

LEMMA NextKeepsInv == RegistryInv /\ [Next]_vars => RegistryInv'
  <1> SUFFICES ASSUME RegistryInv, [Next]_vars PROVE RegistryInv'
    OBVIOUS
  <1> USE DEF RegistryInv
  <1>1. ASSUME NEW t \in Threads, NEW kind \in Kinds, try_begin(t, kind)
        PROVE  RegistryInv'
    BY <1>1, RegisterKeepsInv DEF try_begin, Labels
  <1>2. ASSUME NEW t \in Threads, NEW kind \in Kinds,
               try_begin_shutdown_write(t, kind)
        PROVE  RegistryInv'
    BY <1>2, RegisterKeepsInv DEF try_begin_shutdown_write, Labels
  <1>3. ASSUME NEW t \in Threads, edit_running_write(t)
        PROVE  RegistryInv'
    <2>1. DOMAIN running' = DOMAIN running
          /\ running' \in [DOMAIN running -> Writes]
      BY <1>3 DEF edit_running_write, TypeOK, Writes
    <2>2. Writing' = Writing
      BY <1>3 DEF edit_running_write, Writing
    <2> QED
      BY <1>3, <2>1, <2>2
      DEF edit_running_write, TypeOK, LiveGuardsAreTheRegistry,
          GuardsAreDistinct
  <1>4. ASSUME NEW t \in Threads, drop_guard(t)
        PROVE  RegistryInv'
    BY <1>4, DropKeepsInv
  <1>5. ASSUME NEW t \in Threads, notify_all(t)
        PROVE  RegistryInv'
    BY <1>5
    DEF notify_all, registry, TypeOK, LiveGuardsAreTheRegistry,
        GuardsAreDistinct, Writing
  <1>6. ASSUME \/ become_read_only_for_the_rest_of_the_run
               \/ begin_shutdown
        PROVE  RegistryInv'
    BY <1>6
    DEF become_read_only_for_the_rest_of_the_run, begin_shutdown, TypeOK,
        LiveGuardsAreTheRegistry, GuardsAreDistinct, Writing
  <1>7. ASSUME wait_until_idle_for \/ WaitWakesUp \/ WaitTimesOut
        PROVE  RegistryInv'
    BY <1>7
    DEF wait_until_idle_for, WaitWakesUp, WaitTimesOut, WaitOrReturn,
        ReturnFromWait, registry, TypeOK, LiveGuardsAreTheRegistry,
        GuardsAreDistinct, Writing
  <1>8. CASE UNCHANGED vars
    BY <1>8
    DEF vars, TypeOK, LiveGuardsAreTheRegistry, GuardsAreDistinct, Writing
  <1> QED
    BY <1>1, <1>2, <1>3, <1>4, <1>5, <1>6, <1>7, <1>8 DEF Next, ThreadStep

LEMMA RegistryInvAlways == Spec => []RegistryInv
  <1> QED BY InitRegistryInv, NextKeepsInv, PTL DEF Spec

\* Every reachable state of the registry is well typed, and at most
\* RECENTLY_FINISHED_KEPT finished labels are kept.
THEOREM TypeCorrect == Spec => []TypeOK
  <1>1. RegistryInv => TypeOK
    BY DEF RegistryInv
  <1> QED BY <1>1, RegistryInvAlways, PTL

\* A write stays registered until its guard drops, and nothing else is
\* registered: is_idle answers for the threads, not just for the map.
THEOREM RegistryHoldsTheLiveGuards == Spec => []LiveGuardsAreTheRegistry
  <1>1. RegistryInv => LiveGuardsAreTheRegistry
    BY DEF RegistryInv
  <1> QED BY <1>1, RegistryInvAlways, PTL

-----------------------------------------------------------------------------

\* An id names one thread's write, and no id given out is given out again.
THEOREM GuardsStayDistinct == Spec => []GuardsAreDistinct
  <1>1. RegistryInv => GuardsAreDistinct
    BY DEF RegistryInv
  <1> QED
    BY <1>1, RegistryInvAlways, PTL

LEMMA IdleMeansNobodyWrites ==
    ASSUME RegistryInv
    PROVE  is_idle <=> Writing = {}
  <1>1. ASSUME is_idle PROVE Writing = {}
    BY <1>1 DEF is_idle, RegistryInv, LiveGuardsAreTheRegistry
  <1>2. ASSUME Writing = {} PROVE is_idle
    BY <1>2, ConstantsAssumption
    DEF is_idle, RegistryInv, LiveGuardsAreTheRegistry, Writing, TypeOK
  <1> QED BY <1>1, <1>2

LEMMA RegisterStartsTheThread ==
    ASSUME RegistryInv, NEW t \in Threads, Free(t),
           NEW label \in Labels, NEW kind \in Kinds,
           register(t, label, kind)
    PROVE  t \notin Writing /\ Writing' = Writing \cup {t}
  <1>1. guard[t] = None /\ guard'[t] = next_id
        /\ \A u \in Threads \ {t} : guard'[u] = guard[u]
    BY DEF RegistryInv, TypeOK, register, Free, Writing
  <1> QED BY <1>1, ConstantsAssumption DEF Writing, RegistryInv, TypeOK, Free

LEMMA ReturnIsAReport ==
    ASSUME RegistryInv, ReturnFromWait,
           UNCHANGED <<registry, guard, notifying>>
    PROVE  Drain!Report
  <1>1. Writing' = Writing
    BY DEF Writing
  <1>2. reported' = IF Writing = {} THEN "Idle" ELSE "Busy"
    BY IdleMeansNobodyWrites DEF ReturnFromWait
  <1> QED BY <1>1, <1>2 DEF Drain!Report, registry

LEMMA StepImplementsDrain ==
    RegistryInv /\ [Next]_vars => [Drain!Next]_(Drain!vars)
  <1> SUFFICES ASSUME RegistryInv, [Next]_vars
               PROVE  Drain!Next \/ UNCHANGED Drain!vars
    OBVIOUS
  <1>1. ASSUME NEW t \in Threads, NEW kind \in Kinds, try_begin(t, kind)
        PROVE  Drain!BeginBackgroundWrite(t)
    BY <1>1, RegisterStartsTheThread
    DEF try_begin, Labels, Drain!BeginBackgroundWrite
  <1>2. ASSUME NEW t \in Threads, NEW kind \in Kinds,
               try_begin_shutdown_write(t, kind)
        PROVE  Drain!BeginShutdownWrite(t)
    BY <1>2, RegisterStartsTheThread
    DEF try_begin_shutdown_write, Labels, Drain!BeginShutdownWrite
  <1>3. ASSUME NEW t \in Threads, edit_running_write(t) \/ notify_all(t)
        PROVE  UNCHANGED Drain!vars
    BY <1>3 DEF edit_running_write, notify_all, registry, Writing, Drain!vars
  <1>4. ASSUME NEW t \in Threads, drop_guard(t)
        PROVE  Drain!Finish(t)
    BY <1>4, DropKeepsInv DEF drop_guard, Drain!Finish
  <1>5. ASSUME become_read_only_for_the_rest_of_the_run
        PROVE  Drain!Forbid
    BY <1>5
    DEF become_read_only_for_the_rest_of_the_run, Drain!Forbid, Writing
  <1>6. ASSUME begin_shutdown PROVE Drain!Close
    BY <1>6 DEF begin_shutdown, Drain!Close, Writing
  <1>7. ASSUME wait_until_idle_for \/ WaitWakesUp \/ WaitTimesOut
        PROVE  Drain!Next \/ UNCHANGED Drain!vars
    <2>1. UNCHANGED <<registry, guard, notifying>>
      BY <1>7 DEF wait_until_idle_for, WaitWakesUp, WaitTimesOut
    <2>2. CASE ReturnFromWait
      BY <2>1, <2>2, ReturnIsAReport DEF Drain!Next
    <2>3. CASE UNCHANGED reported
      BY <2>1, <2>3 DEF registry, Writing, Drain!vars
    <2> QED
      BY <1>7, <2>2, <2>3
      DEF wait_until_idle_for, WaitWakesUp, WaitTimesOut, WaitOrReturn
  <1>8. CASE UNCHANGED vars
    BY <1>8 DEF vars, Writing, Drain!vars
  <1> QED
    BY <1>1, <1>2, <1>3, <1>4, <1>5, <1>6, <1>7, <1>8
    DEF Next, ThreadStep, Drain!Next

\* "A write that got a guard is always one wait_until_idle_for waits for": the
\* registry implements WriteDrain.
THEOREM RegistryImplementsDrain == Spec => ImplementsDrain
  <1>1. Init => Drain!Init
    BY DEF Init, Drain!Init, Writing
  <1> QED
    BY <1>1, RegistryInvAlways, StepImplementsDrain, PTL
    DEF Spec, Drain!Spec, ImplementsDrain

-----------------------------------------------------------------------------
(***************************************************************************)
(* The lock and the files beside it, for any number of processes and any   *)
(* number of them whose file operations fail.                              *)
(***************************************************************************)

Replacing(p) == step[p] \in {"Opened", "Written"}

\* A process replaces the status file only while it has the mark.
OnlyTheOwnerReportsStatus ==
    \A p \in Processes :
        Replacing(p) /\ Rewriting(p) = "status"
        => mark[p] = "MarkedByThisInstance"

\* What a process is replacing a file with is a record, never nothing.
ReplacementsAreRecords ==
    \A p \in Processes : Replacing(p) => writing[p].contents \in Contents

\* While the owner writes the status, the .new file is the one it opened; once
\* it has written it, the .new file is whole.
StatusReplacementIsPrivate ==
    \A p \in Processes :
        Rewriting(p) = "status" =>
            /\ step[p] = "Opened" => open[p] = "New" /\ new["status"] = Half
            /\ step[p] = "Written" => new["status"] # Half

\* A process that has not started is in the middle of nothing.
FreshProcessesAreIdle ==
    \A p \in Processes : mark[p] = "NotStarted" => step[p] = "Idle"

\* The status file, and its .new file, hold no record of a take-over.
StatusFileHasStatuses ==
    /\ final["status"] \in Statuses \cup {Absent, Half}
    /\ new["status"] \in Statuses \cup {Absent, Half}
    /\ \A p \in Processes :
          Rewriting(p) = "status" => writing[p].contents \in Statuses \cup {Absent}

\* A descriptor on a file's replacement is open between the two halves of
\* fs::write, and at no other step.
OpenOnlyWhileWriting ==
    \A p \in Processes : step[p] = "Opened" <=> open[p] # "None"

\* The inductive invariant.  That a reader never finds half a status rests on
\* the lock: the replacement's .new file has one writer at a time because a
\* process that writes it has the mark, and only one process has the mark.
InstanceInv ==
    /\ LockTypeOK
    /\ OwnerIsTheLockHolder
    /\ FreshProcessesAreIdle
    /\ OnlyTheOwnerReportsStatus
    /\ ReplacementsAreRecords
    /\ StatusFileHasStatuses
    /\ OpenOnlyWhileWriting
    /\ StatusReplacementIsPrivate
    /\ StatusIsNeverHalf

-----------------------------------------------------------------------------

LEMMA InitInstanceInv == LockInit => InstanceInv
  <1> SUFFICES ASSUME LockInit PROVE InstanceInv
    OBVIOUS
  <1> USE DEF LockInit, MarkInit, NothingToWrite
  <1>1. LockTypeOK
    BY DEF LockTypeOK, MarkTypeOK, Ownerships, Steps, Files
  <1>2. OwnerIsTheLockHolder
    BY NobodyAssumption DEF OwnerIsTheLockHolder
  <1>3. StatusIsNeverHalf
    BY ContentsAssumption DEF StatusIsNeverHalf, Files
  <1> QED
    BY <1>1, <1>2, <1>3 DEF InstanceInv, OnlyTheOwnerReportsStatus,
       FreshProcessesAreIdle, ReplacementsAreRecords, OpenOnlyWhileWriting, Replacing,
       StatusReplacementIsPrivate, StatusFileHasStatuses, Rewriting, Files

\* At most one process has the mark.
LEMMA OneOwner ==
    ASSUME InstanceInv, NEW p \in Processes, NEW q \in Processes,
           mark[p] = "MarkedByThisInstance", mark[q] = "MarkedByThisInstance"
    PROVE  p = q
  BY DEF InstanceInv, OwnerIsTheLockHolder

\* An attempt to take the mark leaves one process at most that has it, and
\* takes it from nobody.
LEMMA MarkOfKeepsOwner ==
    ASSUME NEW p \in Processes, MarkTypeOK, OwnerIsTheLockHolder, mark_of(p),
           mark[p] # "MarkedByThisInstance"
    PROVE  /\ MarkTypeOK'
           /\ OwnerIsTheLockHolder'
           /\ \A q \in Processes \ {p} : mark'[q] = mark[q]
  <1>1. MarkTypeOK'
    BY DEF mark_of, MarkTypeOK, Ownerships, Retryable
  <1>2. OwnerIsTheLockHolder'
    BY NobodyAssumption DEF mark_of, MarkTypeOK, OwnerIsTheLockHolder
  <1> QED
    BY <1>1, <1>2 DEF mark_of, MarkTypeOK

LEMMA EndProcessKeepsOwner ==
    ASSUME NEW p \in Processes, MarkTypeOK, OwnerIsTheLockHolder,
           end_process(p)
    PROVE  /\ MarkTypeOK'
           /\ OwnerIsTheLockHolder'
           /\ \A q \in Processes \ {p} : mark'[q] = mark[q]
  <1>1. MarkTypeOK'
    BY DEF end_process, MarkTypeOK, Ownerships
  <1>2. OwnerIsTheLockHolder'
    BY NobodyAssumption DEF end_process, MarkTypeOK, OwnerIsTheLockHolder
  <1> QED
    BY <1>1, <1>2 DEF end_process, MarkTypeOK

\* A step that leaves the files alone keeps the invariant if no process loses
\* the mark in it.
LEMMA FilesUntouched ==
    ASSUME InstanceInv, LockTypeOK', OwnerIsTheLockHolder',
           UNCHANGED <<step, writing, open, final, new>>,
           \A q \in Processes : Replacing(q) => mark'[q] = mark[q],
           \A q \in Processes : mark'[q] = "NotStarted" => mark[q] = "NotStarted"
    PROVE  InstanceInv'
  <1>1. OnlyTheOwnerReportsStatus'
    BY DEF InstanceInv, OnlyTheOwnerReportsStatus, Replacing, Rewriting
  <1>2. ReplacementsAreRecords' /\ OpenOnlyWhileWriting'
    BY DEF InstanceInv, ReplacementsAreRecords, OpenOnlyWhileWriting, Replacing
  <1>3. StatusReplacementIsPrivate' /\ StatusIsNeverHalf'
    BY DEF InstanceInv, StatusReplacementIsPrivate, StatusIsNeverHalf, Rewriting
  <1>4. FreshProcessesAreIdle' /\ StatusFileHasStatuses'
    BY DEF InstanceInv, FreshProcessesAreIdle, StatusFileHasStatuses, Rewriting
  <1> QED
    BY <1>1, <1>2, <1>3, <1>4 DEF InstanceInv

\* The owner starts to report its status: no other process is at it.
LEMMA ReportKeepsInv ==
    ASSUME InstanceInv, NEW p \in Processes, NEW state \in InstanceState,
           MarkTypeOK', OwnerIsTheLockHolder',
           \A q \in Processes \ {p} : mark'[q] = mark[q],
           step[p] = "Idle", mark'[p] = "MarkedByThisInstance",
           write_status(p, state),
           shutdown' \subseteq Processes,
           wait' \in [Processes -> {"None", "Waiting", "TookOver"}],
           UNCHANGED <<final, seen, io_failed>>
    PROVE  InstanceInv'
  <1> DEFINE report == [process_id |-> p, state |-> state]
  <1>1. report \in Contents /\ "status" \in Files
    BY DEF Contents, Statuses, Files
  <1>2. /\ step' = [step EXCEPT ![p] = "Opened"]
        /\ writing' = [writing EXCEPT ![p] = [file |-> "status", contents |-> report]]
        /\ open' = [open EXCEPT ![p] = "New"]
        /\ new' = [new EXCEPT !["status"] = Half]
    BY DEF write_status, StartReplacing
  <1> HIDE DEF report
  <1>3. LockTypeOK'
    BY <1>1, <1>2 DEF InstanceInv, LockTypeOK, Steps
  <1>4. step'[p] = "Opened" /\ open'[p] = "New" /\ new'["status"] = Half
        /\ writing'[p] = [file |-> "status", contents |-> report]
    BY <1>1, <1>2 DEF InstanceInv, LockTypeOK
  <1>5. \A q \in Processes \ {p} :
           step'[q] = step[q] /\ open'[q] = open[q] /\ writing'[q] = writing[q]
    BY <1>2 DEF InstanceInv, LockTypeOK
  <1>6. ASSUME NEW q \in Processes \ {p}, Replacing(q)
        PROVE  Rewriting(q) # "status"
    <2>1. CASE mark[q] = "MarkedByThisInstance"
      BY <2>1 DEF OwnerIsTheLockHolder
    <2> QED
      BY <1>6, <2>1 DEF InstanceInv, OnlyTheOwnerReportsStatus
  <1>7. OnlyTheOwnerReportsStatus'
    BY <1>4, <1>5, <1>6 DEF InstanceInv, OnlyTheOwnerReportsStatus, Replacing, Rewriting
  <1>8. ReplacementsAreRecords' /\ OpenOnlyWhileWriting'
    BY <1>1, <1>4, <1>5
    DEF InstanceInv, ReplacementsAreRecords, OpenOnlyWhileWriting, Replacing
  <1>9. StatusReplacementIsPrivate'
    BY <1>4, <1>5, <1>6 DEF StatusReplacementIsPrivate, Replacing, Rewriting
  <1>10. StatusIsNeverHalf' /\ FreshProcessesAreIdle'
    BY <1>5 DEF InstanceInv, StatusIsNeverHalf, FreshProcessesAreIdle
  <1>11. StatusFileHasStatuses'
    <2>1. report \in Statuses
      BY DEF report, Statuses
    <2> QED
      BY <1>4, <1>5, <2>1 DEF InstanceInv, StatusFileHasStatuses, Rewriting
  <1> QED
    BY <1>3, <1>7, <1>8, <1>9, <1>10, <1>11 DEF InstanceInv

\* Recording a take-over touches another file.
LEMMA TakeOverKeepsInv ==
    ASSUME InstanceInv, NEW p \in Processes, record_take_over(p)
    PROVE  InstanceInv'
  <1> DEFINE record == [taken_by |-> p, taken_from |-> ProcessSeen(p)]
  <1>1. record \in Contents /\ "take_over" \in Files /\ "status" \in Files
    BY DEF Contents, TakeOvers, Files, ProcessSeen, Statuses, InstanceInv, LockTypeOK
  <1>2. /\ step' = [step EXCEPT ![p] = "Opened"]
        /\ writing' = [writing EXCEPT ![p] = [file |-> "take_over", contents |-> record]]
        /\ open' = [open EXCEPT ![p] = "New"]
        /\ new' = [new EXCEPT !["take_over"] = Half]
    BY DEF record_take_over, StartReplacing
  <1>3. UNCHANGED <<lock_holder, mark, final, shutdown, seen, io_failed>>
        /\ wait' = [wait EXCEPT ![p] = "TookOver"]
    BY DEF record_take_over, markVars
  <1> HIDE DEF record
  <1>4. LockTypeOK' /\ OwnerIsTheLockHolder'
    BY <1>1, <1>2, <1>3
    DEF InstanceInv, LockTypeOK, MarkTypeOK, Steps, OwnerIsTheLockHolder
  <1>5. step'[p] = "Opened" /\ open'[p] = "New"
        /\ writing'[p] = [file |-> "take_over", contents |-> record]
        /\ new'["status"] = new["status"]
    BY <1>1, <1>2 DEF InstanceInv, LockTypeOK
  <1>6. \A q \in Processes \ {p} :
           step'[q] = step[q] /\ open'[q] = open[q] /\ writing'[q] = writing[q]
    BY <1>2 DEF InstanceInv, LockTypeOK
  <1>7. OnlyTheOwnerReportsStatus'
    BY <1>3, <1>5, <1>6 DEF InstanceInv, OnlyTheOwnerReportsStatus, Replacing, Rewriting
  <1>8. ReplacementsAreRecords' /\ OpenOnlyWhileWriting'
    BY <1>1, <1>5, <1>6
    DEF InstanceInv, ReplacementsAreRecords, OpenOnlyWhileWriting, Replacing
  <1>9. StatusReplacementIsPrivate' /\ StatusIsNeverHalf'
    BY <1>3, <1>5, <1>6
    DEF InstanceInv, StatusReplacementIsPrivate, StatusIsNeverHalf, Rewriting
  <1>10. FreshProcessesAreIdle'
    BY <1>3, <1>6 DEF InstanceInv, FreshProcessesAreIdle, record_take_over,
       Idle, Running
  <1>11. StatusFileHasStatuses'
    BY <1>3, <1>5, <1>6 DEF InstanceInv, StatusFileHasStatuses, Rewriting
  <1> QED
    BY <1>4, <1>7, <1>8, <1>9, <1>10, <1>11 DEF InstanceInv

\* fs::write fills the file its descriptor is on: the status's own .new file
\* for a status, some name of the other file for a take-over.
LEMMA WriteContentsKeepsInv ==
    ASSUME InstanceInv, NEW p \in Processes, WriteContents(p)
    PROVE  InstanceInv'
  <1> DEFINE file == Rewriting(p)
             contents == writing[p].contents
  <1>1. /\ file \in Files /\ contents \in Contents
        /\ contents # Half /\ "status" \in Files
    BY ContentsAssumption
    DEF WriteContents, InstanceInv, LockTypeOK, Rewriting, Files,
        ReplacementsAreRecords, Replacing
  <1>2. /\ step[p] = "Opened"
        /\ step' = [step EXCEPT ![p] = "Written"]
        /\ open' = [open EXCEPT ![p] = "None"]
        /\ UNCHANGED <<lock_holder, mark, writing, shutdown, wait, seen, io_failed>>
    BY DEF WriteContents, markVars
  <1>3. /\ new' \in [Files -> Contents \cup {Absent, Half}]
        /\ final' \in [Files -> Contents \cup {Absent, Half}]
        /\ final'["status"] # Half
        /\ file = "status" => new'["status"] # Half
        /\ \A q \in Processes \ {p} :
              Replacing(q) /\ Rewriting(q) = "status"
              => new'["status"] = new["status"]
    <2>1. CASE file = "status"
      <3>1. open[p] = "New" /\ new["status"] = Half
        BY <1>2, <2>1 DEF InstanceInv, StatusReplacementIsPrivate
      <3>2. new' = [new EXCEPT !["status"] = contents] /\ UNCHANGED final
        BY <2>1, <3>1 DEF WriteContents, Overwritten
      <3>3. ASSUME NEW q \in Processes \ {p}, Replacing(q)
            PROVE  Rewriting(q) # "status"
        BY <1>2, <2>1, <3>3
        DEF InstanceInv, OnlyTheOwnerReportsStatus, OwnerIsTheLockHolder, Replacing
      <3> QED BY <1>1, <3>2, <3>3 DEF InstanceInv, LockTypeOK, StatusIsNeverHalf
    <2>2. CASE file # "status"
      <3>1. PICK c \in Contents \cup {Half} :
              \/ new' = [new EXCEPT ![file] = c] /\ UNCHANGED final
              \/ final' = [final EXCEPT ![file] = c] /\ UNCHANGED new
              \/ UNCHANGED <<final, new>>
        BY <1>1 DEF WriteContents, Overwritten
      <3> QED BY <1>1, <2>2, <3>1 DEF InstanceInv, LockTypeOK, StatusIsNeverHalf
    <2> QED BY <2>1, <2>2
  <1>4. LockTypeOK' /\ OwnerIsTheLockHolder'
    BY <1>2, <1>3
    DEF InstanceInv, LockTypeOK, MarkTypeOK, Steps, OwnerIsTheLockHolder
  <1>5. step'[p] = "Written" /\ open'[p] = "None"
        /\ \A q \in Processes \ {p} : step'[q] = step[q] /\ open'[q] = open[q]
    BY <1>2 DEF InstanceInv, LockTypeOK
  <1>6. OnlyTheOwnerReportsStatus' /\ FreshProcessesAreIdle'
    BY <1>2, <1>5
    DEF InstanceInv, OnlyTheOwnerReportsStatus, FreshProcessesAreIdle, Replacing,
        Rewriting
  <1>7. ReplacementsAreRecords' /\ OpenOnlyWhileWriting'
    BY <1>2, <1>5
    DEF InstanceInv, ReplacementsAreRecords, OpenOnlyWhileWriting, Replacing
  <1>8. StatusReplacementIsPrivate' /\ StatusIsNeverHalf'
    BY <1>2, <1>3, <1>5
    DEF InstanceInv, StatusReplacementIsPrivate, StatusIsNeverHalf, Replacing,
        Rewriting
  <1>9. StatusFileHasStatuses'
    <2>1. /\ final'["status"] \in Statuses \cup {Absent, Half}
          /\ new'["status"] \in Statuses \cup {Absent, Half}
      <3>1. CASE file = "status"
        <4>1. contents \in Statuses \cup {Absent}
          BY <3>1 DEF InstanceInv, StatusFileHasStatuses
        <4> QED
          BY <1>1, <3>1, <4>1
          DEF WriteContents, Overwritten, InstanceInv, LockTypeOK, StatusFileHasStatuses
      <3>2. CASE file # "status"
        BY <1>1, <3>2
        DEF WriteContents, InstanceInv, LockTypeOK, StatusFileHasStatuses
      <3> QED BY <3>1, <3>2
    <2> QED BY <1>2, <2>1 DEF InstanceInv, StatusFileHasStatuses, Rewriting
  <1> QED
    BY <1>4, <1>6, <1>7, <1>8, <1>9 DEF InstanceInv

\* The rename puts a whole status in place: what the process that has the mark
\* wrote into the .new file.
LEMMA RenameOverKeepsInv ==
    ASSUME InstanceInv, NEW p \in Processes, RenameOver(p)
    PROVE  InstanceInv'
  <1> DEFINE file == Rewriting(p)
  <1>1. /\ step[p] = "Written"
        /\ step' = [step EXCEPT ![p] = "Idle"]
        /\ writing' = [writing EXCEPT ![p] = NothingToWrite]
        /\ UNCHANGED <<lock_holder, mark, shutdown, wait, seen>>
    BY DEF RenameOver, DoneReplacing, markVars
  <1>2. file \in Files /\ "status" \in Files /\ NothingToWrite.file = "status"
        /\ NothingToWrite \in [file : Files, contents : Contents \cup {Absent}]
    BY DEF InstanceInv, LockTypeOK, Rewriting, Files, NothingToWrite
  <1>3. /\ final' \in [Files -> Contents \cup {Absent, Half}]
        /\ new' \in [Files -> Contents \cup {Absent, Half}]
        /\ io_failed' \subseteq Processes
        /\ open' \in [Processes -> {"None", "New", "Final", "Unlinked"}]
    <2>1. /\ final \in [Files -> Contents \cup {Absent, Half}]
          /\ new \in [Files -> Contents \cup {Absent, Half}]
          /\ io_failed \subseteq Processes
          /\ open \in [Processes -> {"None", "New", "Final", "Unlinked"}]
      BY DEF InstanceInv, LockTypeOK
    <2>2. \A q \in Processes :
             NameAfterRename(q, file) \in {"None", "New", "Final", "Unlinked"}
      BY <2>1 DEF NameAfterRename
    <2>3. CASE open' = [q \in Processes |-> NameAfterRename(q, file)]
               /\ new' = [new EXCEPT ![file] = Absent]
               /\ final' = [final EXCEPT ![file] = new[file]]
               /\ UNCHANGED io_failed
      <3>1. open' \in [Processes -> {"None", "New", "Final", "Unlinked"}]
        BY <2>2, <2>3
      <3>2. new[file] \in Contents \cup {Absent, Half}
        BY <1>2, <2>1
      <3> QED BY <2>1, <2>3, <3>1, <3>2
    <2>4. CASE UNCHANGED <<final, new, open>> /\ io_failed' = io_failed \cup {p}
      BY <2>1, <2>4
    <2> QED BY <2>3, <2>4 DEF RenameOver
  <1>4. /\ final'["status"] # Half
        /\ file # "status" => new'["status"] = new["status"]
    BY <1>1, <1>2, ContentsAssumption
    DEF RenameOver, InstanceInv, LockTypeOK, StatusIsNeverHalf,
        StatusReplacementIsPrivate, Rewriting
  <1>5. ASSUME NEW q \in Processes \ {p}, Replacing(q), Rewriting(q) = "status"
        PROVE  file # "status"
    BY <1>1, <1>5
    DEF InstanceInv, OnlyTheOwnerReportsStatus, OwnerIsTheLockHolder, Replacing
  <1>6. /\ \A q \in Processes : (open'[q] = "None") <=> (open[q] = "None")
        /\ \A q \in Processes : Rewriting(q) # file => open'[q] = open[q]
    BY DEF RenameOver, NameAfterRename, InstanceInv, LockTypeOK
  <1>7. step'[p] = "Idle"
        /\ \A q \in Processes \ {p} : step'[q] = step[q] /\ writing'[q] = writing[q]
    BY <1>1 DEF InstanceInv, LockTypeOK
  <1>8. LockTypeOK' /\ OwnerIsTheLockHolder'
    BY <1>1, <1>2, <1>3
    DEF InstanceInv, LockTypeOK, MarkTypeOK, Steps, OwnerIsTheLockHolder
  <1>9. OnlyTheOwnerReportsStatus' /\ FreshProcessesAreIdle'
    BY <1>1, <1>7
    DEF InstanceInv, OnlyTheOwnerReportsStatus, FreshProcessesAreIdle, Replacing,
        Rewriting
  <1>10. ReplacementsAreRecords' /\ OpenOnlyWhileWriting'
    BY <1>1, <1>6, <1>7
    DEF InstanceInv, ReplacementsAreRecords, OpenOnlyWhileWriting, Replacing
  <1>11. StatusReplacementIsPrivate' /\ StatusIsNeverHalf'
    BY <1>4, <1>5, <1>6, <1>7
    DEF InstanceInv, StatusReplacementIsPrivate, StatusIsNeverHalf, Replacing,
        Rewriting
  <1>12. StatusFileHasStatuses'
    <2>1. /\ final'["status"] \in Statuses \cup {Absent, Half}
          /\ new'["status"] \in Statuses \cup {Absent, Half}
      BY <1>2 DEF RenameOver, InstanceInv, LockTypeOK, StatusFileHasStatuses
    <2>2. writing'[p] = NothingToWrite
      BY <1>1 DEF InstanceInv, LockTypeOK
    <2> QED
      BY <1>7, <2>1, <2>2
      DEF InstanceInv, StatusFileHasStatuses, Rewriting, NothingToWrite
  <1> QED
    BY <1>8, <1>9, <1>10, <1>11, <1>12 DEF InstanceInv

\* A failed write or rename ends the replacement, and touches neither file.
LEMMA ReplacingFailsKeepsInv ==
    ASSUME InstanceInv, NEW p \in Processes, ReplacingFails(p)
    PROVE  InstanceInv'
  <1>1. /\ step[p] \in {"Opened", "Written"}
        /\ step' = [step EXCEPT ![p] = "Idle"]
        /\ writing' = [writing EXCEPT ![p] = NothingToWrite]
        /\ open' = [open EXCEPT ![p] = "None"]
        /\ io_failed' = io_failed \cup {p}
        /\ UNCHANGED <<lock_holder, mark, final, new, shutdown, wait, seen>>
    BY DEF ReplacingFails, DoneReplacing, markVars
  <1>2. step'[p] = "Idle" /\ open'[p] = "None"
        /\ \A q \in Processes \ {p} :
              step'[q] = step[q] /\ writing'[q] = writing[q] /\ open'[q] = open[q]
    BY <1>1 DEF InstanceInv, LockTypeOK
  <1>3. LockTypeOK' /\ OwnerIsTheLockHolder'
    BY <1>1 DEF InstanceInv, LockTypeOK, MarkTypeOK, Steps, OwnerIsTheLockHolder,
                NothingToWrite, Files
  <1>4. OnlyTheOwnerReportsStatus' /\ FreshProcessesAreIdle'
    BY <1>1, <1>2
    DEF InstanceInv, OnlyTheOwnerReportsStatus, FreshProcessesAreIdle, Replacing,
        Rewriting
  <1>5. ReplacementsAreRecords' /\ OpenOnlyWhileWriting'
    BY <1>1, <1>2
    DEF InstanceInv, ReplacementsAreRecords, OpenOnlyWhileWriting, Replacing
  <1>6. StatusReplacementIsPrivate' /\ StatusIsNeverHalf'
    BY <1>1, <1>2
    DEF InstanceInv, StatusReplacementIsPrivate, StatusIsNeverHalf, Rewriting
  <1>7. StatusFileHasStatuses'
    <2>1. writing'[p] = NothingToWrite
      BY <1>1 DEF InstanceInv, LockTypeOK
    <2> QED
      BY <1>1, <1>2, <2>1
      DEF InstanceInv, StatusFileHasStatuses, Rewriting, NothingToWrite
  <1> QED
    BY <1>3, <1>4, <1>5, <1>6, <1>7 DEF InstanceInv

\* A clean exit starts by removing the status file.
LEMMA RemoveStatusKeepsInv ==
    ASSUME InstanceInv, NEW p \in Processes, remove_status(p)
    PROVE  InstanceInv'
  <1>1. /\ step[p] = "Idle" /\ Running(p)
        /\ step' = [step EXCEPT ![p] = "Closing"]
        /\ UNCHANGED <<lock_holder, mark, writing, open, new, shutdown, wait, seen>>
    BY DEF remove_status, Idle, markVars
  <1>2. /\ final' \in [Files -> Contents \cup {Absent, Half}]
        /\ final'["status"] # Half
        /\ io_failed' \subseteq Processes
    BY ContentsAssumption
    DEF remove_status, InstanceInv, LockTypeOK, StatusIsNeverHalf, Files
  <1>3. step'[p] = "Closing" /\ \A q \in Processes \ {p} : step'[q] = step[q]
    BY <1>1 DEF InstanceInv, LockTypeOK
  <1>4. LockTypeOK' /\ OwnerIsTheLockHolder'
    BY <1>1, <1>2 DEF InstanceInv, LockTypeOK, MarkTypeOK, Steps, OwnerIsTheLockHolder
  <1>5. OnlyTheOwnerReportsStatus' /\ FreshProcessesAreIdle'
    BY <1>1, <1>3
    DEF InstanceInv, OnlyTheOwnerReportsStatus, FreshProcessesAreIdle, Replacing,
        Rewriting, Running
  <1>6. ReplacementsAreRecords' /\ OpenOnlyWhileWriting'
    BY <1>1, <1>3
    DEF InstanceInv, ReplacementsAreRecords, OpenOnlyWhileWriting, Replacing
  <1>7. StatusReplacementIsPrivate' /\ StatusIsNeverHalf'
    BY <1>1, <1>2, <1>3
    DEF InstanceInv, StatusReplacementIsPrivate, StatusIsNeverHalf, Rewriting
  <1>8. StatusFileHasStatuses'
    <2>1. final'["status"] \in Statuses \cup {Absent, Half}
      BY DEF remove_status, InstanceInv, LockTypeOK, StatusFileHasStatuses
    <2> QED
      BY <1>1, <2>1 DEF InstanceInv, StatusFileHasStatuses, Rewriting
  <1> QED
    BY <1>4, <1>5, <1>6, <1>7, <1>8 DEF InstanceInv

\* A process that ends, cleanly or not, is in the middle of nothing.
LEMMA ProcessGoneKeepsInv ==
    ASSUME InstanceInv, NEW p \in Processes, end_process(p), ForgetMemory(p),
           NEW how \in {"Exited", "Killed"}, step' = [step EXCEPT ![p] = how],
           UNCHANGED <<final, new, io_failed>>
    PROVE  InstanceInv'
  <1>1. /\ MarkTypeOK' /\ OwnerIsTheLockHolder'
        /\ \A q \in Processes \ {p} : mark'[q] = mark[q]
    BY EndProcessKeepsOwner DEF InstanceInv, LockTypeOK
  <1>2. mark'[p] = "Ended"
    BY DEF end_process, InstanceInv, LockTypeOK, MarkTypeOK
  <1>3. step'[p] = how /\ open'[p] = "None"
        /\ \A q \in Processes \ {p} :
              step'[q] = step[q] /\ writing'[q] = writing[q] /\ open'[q] = open[q]
    BY DEF InstanceInv, LockTypeOK, ForgetMemory
  <1>4. LockTypeOK'
    BY <1>1 DEF InstanceInv, LockTypeOK, Steps, ForgetMemory, NothingToWrite, Files
  <1>5. OnlyTheOwnerReportsStatus' /\ FreshProcessesAreIdle'
    BY <1>1, <1>2, <1>3
    DEF InstanceInv, OnlyTheOwnerReportsStatus, FreshProcessesAreIdle, Replacing,
        Rewriting
  <1>6. ReplacementsAreRecords' /\ OpenOnlyWhileWriting'
    BY <1>3
    DEF InstanceInv, ReplacementsAreRecords, OpenOnlyWhileWriting, Replacing
  <1>7. StatusReplacementIsPrivate' /\ StatusIsNeverHalf'
    BY <1>3
    DEF InstanceInv, StatusReplacementIsPrivate, StatusIsNeverHalf, Rewriting
  <1>8. StatusFileHasStatuses'
    <2>1. writing'[p] = NothingToWrite
      BY DEF ForgetMemory, InstanceInv, LockTypeOK
    <2> QED
      BY <1>3, <2>1 DEF InstanceInv, StatusFileHasStatuses, Rewriting, NothingToWrite
  <1> QED
    BY <1>1, <1>4, <1>5, <1>6, <1>7, <1>8 DEF InstanceInv

\* An attempt to take the mark, the first or a later one, and the report that
\* follows it in the same call.
LEMMA AttemptKeepsInv ==
    ASSUME InstanceInv, NEW p \in Processes, step[p] = "Idle",
           MarkTypeOK', OwnerIsTheLockHolder', mark'[p] # "NotStarted",
           \A q \in Processes \ {p} : mark'[q] = mark[q],
           ReportIfMarked(p),
           wait' \in [Processes -> {"None", "Waiting", "TookOver"}],
           UNCHANGED <<final, shutdown, seen, io_failed>>
    PROVE  InstanceInv'
  <1>1. CASE mark'[p] = "MarkedByThisInstance"
    <2>1. "Running" \in InstanceState
      BY DEF InstanceState
    <2>2. write_status(p, "Running") /\ shutdown' \subseteq Processes
      BY <1>1 DEF ReportIfMarked, InstanceInv, LockTypeOK
    <2> QED BY <1>1, <2>1, <2>2, ReportKeepsInv
  <1>2. CASE mark'[p] # "MarkedByThisInstance"
    <2>1. UNCHANGED <<step, writing, open, new>>
      BY <1>2 DEF ReportIfMarked
    <2>2. LockTypeOK'
      BY <2>1 DEF InstanceInv, LockTypeOK
    <2>3. \A q \in Processes : Replacing(q) => mark'[q] = mark[q]
      BY DEF Replacing
    <2> QED BY <2>1, <2>2, <2>3, FilesUntouched
  <1> QED BY <1>1, <1>2

LEMMA AcquireKeepsInv ==
    ASSUME InstanceInv, NEW p \in Processes, acquire(p)
    PROVE  InstanceInv'
  <1>1. /\ acquire_mark(p) /\ ReportIfMarked(p)
        /\ mark[p] = "NotStarted" /\ step[p] = "Idle"
        /\ UNCHANGED <<final, shutdown, seen, io_failed>>
    BY DEF acquire, acquire_mark, InstanceInv, FreshProcessesAreIdle
  <1>2. wait' \in [Processes -> {"None", "Waiting", "TookOver"}]
    BY DEF acquire, InstanceInv, LockTypeOK
  <1>3. /\ MarkTypeOK' /\ OwnerIsTheLockHolder' /\ mark'[p] # "NotStarted"
        /\ \A q \in Processes \ {p} : mark'[q] = mark[q]
    <2>1. MarkTypeOK /\ OwnerIsTheLockHolder
      BY DEF InstanceInv, LockTypeOK
    <2>2. CASE mark_of(p)
      <3>1. mark'[p] # "NotStarted"
        BY <2>1, <2>2 DEF mark_of, MarkTypeOK
      <3> QED BY <1>1, <2>1, <2>2, <3>1, MarkOfKeepsOwner
    <2>3. CASE /\ mark' = [mark EXCEPT ![p] = "NoDataDirectory"]
               /\ UNCHANGED lock_holder
      BY <1>1, <2>1, <2>3 DEF MarkTypeOK, OwnerIsTheLockHolder, Ownerships
    <2> QED BY <1>1, <2>2, <2>3 DEF acquire_mark
  <1> QED BY <1>1, <1>2, <1>3, AttemptKeepsInv

LEMMA RetryKeepsInv ==
    ASSUME InstanceInv, NEW p \in Processes,
           retry_marking_the_data_directory(p)
    PROVE  InstanceInv'
  <1>1. /\ mark_of(p) /\ ReportIfMarked(p) /\ step[p] = "Idle"
        /\ mark[p] # "MarkedByThisInstance"
        /\ UNCHANGED <<final, shutdown, wait, seen, io_failed>>
    BY DEF retry_marking_the_data_directory, retry_mark, Retryable, Idle
  <1>2. /\ MarkTypeOK /\ OwnerIsTheLockHolder
        /\ wait' \in [Processes -> {"None", "Waiting", "TookOver"}]
    BY <1>1 DEF InstanceInv, LockTypeOK
  <1>3. mark'[p] # "NotStarted"
    BY <1>1, <1>2 DEF mark_of, MarkTypeOK
  <1>4. /\ MarkTypeOK' /\ OwnerIsTheLockHolder'
        /\ \A q \in Processes \ {p} : mark'[q] = mark[q]
    BY <1>1, <1>2, MarkOfKeepsOwner
  <1> QED BY <1>1, <1>2, <1>3, <1>4, AttemptKeepsInv

LEMMA GiveUpKeepsInv ==
    ASSUME InstanceInv, NEW p \in Processes,
           give_up_marking_the_data_directory(p)
    PROVE  InstanceInv'
  <1>1. /\ step[p] = "Idle" /\ mark[p] \in Retryable
        /\ mark' = [mark EXCEPT ![p] = "NoDataDirectory"]
        /\ wait' = [wait EXCEPT ![p] = "None"]
        /\ UNCHANGED <<lock_holder, step, writing, open, final, new, shutdown,
                       seen, io_failed>>
    BY DEF give_up_marking_the_data_directory, give_up_mark, Idle
  <1>2. LockTypeOK'
    BY <1>1 DEF InstanceInv, LockTypeOK, MarkTypeOK, Ownerships
  <1>3. OwnerIsTheLockHolder'
    BY <1>1 DEF InstanceInv, LockTypeOK, MarkTypeOK, OwnerIsTheLockHolder, Retryable
  <1>4. /\ \A q \in Processes : Replacing(q) => mark'[q] = mark[q]
        /\ \A q \in Processes : mark'[q] = "NotStarted" => mark[q] = "NotStarted"
    BY <1>1 DEF InstanceInv, LockTypeOK, MarkTypeOK, Replacing
  <1> QED BY <1>1, <1>2, <1>3, <1>4, FilesUntouched

LEMMA ReadStatusKeepsInv ==
    ASSUME InstanceInv, NEW p \in Processes, status_of_the_holding_instance(p)
    PROVE  InstanceInv'
  <1>1. /\ seen' = [seen EXCEPT ![p] = final["status"]]
        /\ UNCHANGED <<lock_holder, mark, step, writing, open, final, new,
                       shutdown, wait, io_failed>>
    BY DEF status_of_the_holding_instance, markVars
  <1>2. seen' \in [Processes -> Statuses \cup {Absent, Half}]
    BY <1>1 DEF InstanceInv, LockTypeOK, StatusFileHasStatuses
  <1>3. LockTypeOK' /\ OwnerIsTheLockHolder'
    BY <1>1, <1>2 DEF InstanceInv, LockTypeOK, MarkTypeOK, OwnerIsTheLockHolder
  <1> QED BY <1>1, <1>3, FilesUntouched

LEMMA MarkShuttingDownKeepsInv ==
    ASSUME InstanceInv, NEW p \in Processes, mark_shutting_down(p)
    PROVE  InstanceInv'
  <1>1. /\ step[p] = "Idle" /\ shutdown' = shutdown \cup {p}
        /\ UNCHANGED <<lock_holder, mark, final, wait, seen, io_failed>>
    BY DEF mark_shutting_down, Idle, markVars
  <1>2. /\ MarkTypeOK' /\ OwnerIsTheLockHolder'
        /\ shutdown' \subseteq Processes
        /\ wait' \in [Processes -> {"None", "Waiting", "TookOver"}]
    BY <1>1 DEF InstanceInv, LockTypeOK, MarkTypeOK, OwnerIsTheLockHolder
  <1>3. CASE mark[p] = "MarkedByThisInstance"
    <2>1. "ShuttingDown" \in InstanceState
      BY DEF InstanceState
    <2>2. write_status(p, "ShuttingDown")
      BY <1>3 DEF mark_shutting_down
    <2> QED BY <1>1, <1>2, <1>3, <2>1, <2>2, ReportKeepsInv
  <1>4. CASE mark[p] # "MarkedByThisInstance"
    <2>1. UNCHANGED <<step, writing, open, new>>
      BY <1>4 DEF mark_shutting_down
    <2>2. LockTypeOK'
      BY <1>1, <1>2, <2>1 DEF InstanceInv, LockTypeOK
    <2> QED BY <1>1, <1>2, <2>1, <2>2, FilesUntouched
  <1> QED BY <1>3, <1>4

LEMMA NextKeepsInstanceInv == InstanceInv /\ [LockNext]_lockVars => InstanceInv'
  <1> SUFFICES ASSUME InstanceInv, [LockNext]_lockVars PROVE InstanceInv'
    OBVIOUS
  <1>1. CASE UNCHANGED lockVars
    <2>1. LockTypeOK' /\ OwnerIsTheLockHolder'
      BY <1>1 DEF lockVars, InstanceInv, LockTypeOK, MarkTypeOK, OwnerIsTheLockHolder
    <2> QED BY <1>1, <2>1, FilesUntouched DEF lockVars
  <1>2. ASSUME NEW p \in Processes, ProcessStep(p) PROVE InstanceInv'
    <2>1. CASE acquire(p)
      BY <2>1, AcquireKeepsInv
    <2>2. CASE retry_marking_the_data_directory(p)
      BY <2>2, RetryKeepsInv
    <2>3. CASE give_up_marking_the_data_directory(p)
      BY <2>3, GiveUpKeepsInv
    <2>4. CASE status_of_the_holding_instance(p)
      BY <2>4, ReadStatusKeepsInv
    <2>5. CASE record_take_over(p)
      BY <2>5, TakeOverKeepsInv
    <2>6. CASE mark_shutting_down(p)
      BY <2>6, MarkShuttingDownKeepsInv
    <2>7. CASE WriteContents(p)
      BY <2>7, WriteContentsKeepsInv
    <2>8. CASE RenameOver(p)
      BY <2>8, RenameOverKeepsInv
    <2>9. CASE ReplacingFails(p)
      BY <2>9, ReplacingFailsKeepsInv
    <2>10. CASE remove_status(p)
      BY <2>10, RemoveStatusKeepsInv
    <2>11. CASE close_lock(p) \/ Killed(p)
      <3>1. PICK how \in {"Exited", "Killed"} :
              /\ end_process(p) /\ ForgetMemory(p)
              /\ step' = [step EXCEPT ![p] = how]
              /\ UNCHANGED <<final, new, io_failed>>
        BY <2>11 DEF close_lock, Killed
      <3> QED BY <3>1, ProcessGoneKeepsInv
    <2> QED
      BY <1>2, <2>1, <2>2, <2>3, <2>4, <2>5, <2>6, <2>7, <2>8, <2>9, <2>10, <2>11
      DEF ProcessStep
  <1> QED BY <1>1, <1>2 DEF LockNext

-----------------------------------------------------------------------------

\* The invariant holds throughout every behaviour of the lock and its files.
THEOREM InstanceInvariance == LockSpec => []InstanceInv
  <1> QED BY InitInstanceInv, NextKeepsInstanceInv, PTL DEF LockSpec

\* Every variable keeps its type, whatever operations fail or are killed.
THEOREM InstanceTypeCorrect == LockSpec => []LockTypeOK
  <1>1. InstanceInv => LockTypeOK
    BY DEF InstanceInv
  <1> QED BY <1>1, InstanceInvariance, PTL

\* At most one live process owns the data directory, and it is the one the
\* operating system gave the lock (DataDirectoryMark::of, and what a process
\* caches of it), for any number of processes.
THEOREM OwnersHoldTheLock == LockSpec => []OwnerIsTheLockHolder
  <1>1. InstanceInv => OwnerIsTheLockHolder
    BY DEF InstanceInv
  <1> QED BY <1>1, InstanceInvariance, PTL

\* replace_status_file's promise: a reader never finds half a status, at any
\* step of any number of processes, through crashes and failed writes.
THEOREM ReadersFindWholeStatuses == LockSpec => []StatusIsNeverHalf
  <1>1. InstanceInv => StatusIsNeverHalf
    BY DEF InstanceInv
  <1> QED BY <1>1, InstanceInvariance, PTL

-----------------------------------------------------------------------------

\* What the status file should say of the owner.
Report(p) ==
    [process_id |-> p,
     state |-> IF p \in shutdown THEN "ShuttingDown" ELSE "Running"]

\* What the owner has written is on its way into the status file: it is what
\* the owner is writing, then what the .new file holds, then the file itself.
ReportIsUnderWay ==
    \A p \in Processes :
        mark[p] = "MarkedByThisInstance" /\ p \notin io_failed =>
            /\ step[p] = "Idle" => final["status"] = Report(p)
            /\ Replacing(p) => writing[p] = [file |-> "status", contents |-> Report(p)]
            /\ step[p] = "Written" => new["status"] = Report(p)

\* A process that has not started has not begun to shut down.
FreshProcessesAreNotShuttingDown ==
    \A p \in Processes : mark[p] = "NotStarted" => p \notin shutdown

\* What is inductive about the owner's report, given InstanceInv.
ReportInv == ReportIsUnderWay /\ FreshProcessesAreNotShuttingDown

\* A step of another process leaves the owner's report, and the files it is in,
\* as they are: the other process has not the mark.
LEMMA OthersLeaveTheReport ==
    ASSUME InstanceInv, OwnerIsTheLockHolder', NEW p \in Processes,
           NEW q \in Processes \ {p},
           mark'[p] = "MarkedByThisInstance", ProcessStep(q)
    PROVE  /\ mark[p] = "MarkedByThisInstance"
           /\ step'[p] = step[p] /\ writing'[p] = writing[p]
           /\ p \in shutdown' <=> p \in shutdown
           /\ p \notin io_failed' => p \notin io_failed
           /\ final'["status"] = final["status"]
           /\ new'["status"] = new["status"]
  <1> USE DEF InstanceInv, LockTypeOK, MarkTypeOK
  <1>1. mark'[q] # "MarkedByThisInstance"
    BY DEF OwnerIsTheLockHolder
  <1>2. mark[p] = "MarkedByThisInstance"
    BY DEF ProcessStep, acquire, acquire_mark, mark_of,
       retry_marking_the_data_directory, retry_mark,
       give_up_marking_the_data_directory, give_up_mark,
       status_of_the_holding_instance, record_take_over, mark_shutting_down,
       WriteContents, RenameOver, ReplacingFails, remove_status, close_lock,
       Killed, end_process, markVars
  <1>3. mark[q] # "MarkedByThisInstance"
    BY <1>2 DEF OwnerIsTheLockHolder
  <1>4. Replacing(q) => Rewriting(q) \in Files /\ Rewriting(q) # "status"
    BY <1>3 DEF OnlyTheOwnerReportsStatus, Rewriting
  <1>5. CASE acquire(q) \/ retry_marking_the_data_directory(q)
    BY <1>1, <1>2, <1>5 DEF acquire, retry_marking_the_data_directory, ReportIfMarked
  <1>6. CASE give_up_marking_the_data_directory(q)
             \/ status_of_the_holding_instance(q)
    BY <1>2, <1>6
    DEF give_up_marking_the_data_directory, status_of_the_holding_instance
  <1>7. CASE record_take_over(q)
    BY <1>2, <1>7 DEF record_take_over, StartReplacing, Files
  <1>8. CASE mark_shutting_down(q)
    BY <1>2, <1>3, <1>8 DEF mark_shutting_down
  <1>9. CASE WriteContents(q)
    <2>1. /\ step' = [step EXCEPT ![q] = "Written"]
          /\ UNCHANGED <<writing, shutdown, io_failed>>
          /\ Rewriting(q) # "status"
      BY <1>4, <1>9 DEF WriteContents, Replacing
    <2>2. final'["status"] = final["status"] /\ new'["status"] = new["status"]
      BY <1>9, <2>1 DEF WriteContents, Files
    <2> QED BY <1>2, <2>1, <2>2
  <1>10. CASE RenameOver(q)
    <2>1. /\ step' = [step EXCEPT ![q] = "Idle"]
          /\ writing' = [writing EXCEPT ![q] = NothingToWrite]
          /\ UNCHANGED shutdown /\ io_failed \subseteq io_failed'
          /\ Rewriting(q) # "status"
      BY <1>4, <1>10 DEF RenameOver, DoneReplacing, Replacing
    <2>2. final'["status"] = final["status"] /\ new'["status"] = new["status"]
      BY <1>10, <2>1 DEF RenameOver, Files
    <2> QED BY <1>2, <2>1, <2>2
  <1>11. CASE ReplacingFails(q)
    BY <1>2, <1>11 DEF ReplacingFails, DoneReplacing
  <1>12. CASE remove_status(q)
    BY <1>3, <1>12 DEF remove_status
  <1>13. CASE close_lock(q) \/ Killed(q)
    BY <1>2, <1>13 DEF close_lock, Killed, ForgetMemory
  <1> QED
    BY <1>5, <1>6, <1>7, <1>8, <1>9, <1>10, <1>11, <1>12, <1>13 DEF ProcessStep

\* What a process does while it has the mark, or to get it, keeps its own
\* report under way: each change of what there is to report starts a report.
LEMMA OwnStepKeepsTheReport ==
    ASSUME InstanceInv, ReportInv, NEW p \in Processes, ProcessStep(p),
           mark'[p] = "MarkedByThisInstance", p \notin io_failed'
    PROVE  /\ step'[p] = "Idle" => final'["status"] = Report(p)'
           /\ Replacing(p)'
              => writing'[p] = [file |-> "status", contents |-> Report(p)']
           /\ step'[p] = "Written" => new'["status"] = Report(p)'
  <1> USE DEF InstanceInv, LockTypeOK, MarkTypeOK
  <1>1. CASE acquire(p) \/ retry_marking_the_data_directory(p)
    <2>1. write_status(p, "Running") /\ UNCHANGED shutdown
      BY <1>1 DEF acquire, retry_marking_the_data_directory, ReportIfMarked
    <2>2. p \notin shutdown
      BY <1>1 DEF acquire, acquire_mark, retry_marking_the_data_directory,
         ReportInv, FreshProcessesAreNotShuttingDown
    <2> QED BY <2>1, <2>2 DEF write_status, StartReplacing, Report
  <1>2. CASE mark_shutting_down(p)
    <2>1. write_status(p, "ShuttingDown") /\ p \in shutdown'
      BY <1>2 DEF mark_shutting_down, markVars
    <2> QED BY <2>1 DEF write_status, StartReplacing, Report
  <1>3. CASE WriteContents(p) \/ RenameOver(p)
    <2>1. /\ Replacing(p) /\ mark[p] = "MarkedByThisInstance"
          /\ p \notin io_failed /\ UNCHANGED shutdown
      BY <1>3 DEF WriteContents, RenameOver, Replacing, markVars
    <2>2. /\ writing[p] = [file |-> "status", contents |-> Report(p)]
          /\ step[p] = "Written" => new["status"] = Report(p)
      BY <2>1 DEF ReportInv, ReportIsUnderWay
    <2>3. Report(p)' = Report(p) /\ Rewriting(p) = "status" /\ "status" \in Files
      BY <2>1, <2>2 DEF Report, Rewriting, Files
    <2>4. CASE WriteContents(p)
      <3>1. /\ step' = [step EXCEPT ![p] = "Written"] /\ UNCHANGED writing
            /\ open[p] = "New" /\ new["status"] = Half
        BY <2>3, <2>4 DEF WriteContents, StatusReplacementIsPrivate
      <3>2. new' = [new EXCEPT !["status"] = Report(p)]
        BY <2>2, <2>3, <2>4, <3>1 DEF WriteContents, Overwritten
      <3> QED BY <2>2, <2>3, <3>1, <3>2
    <2>5. CASE RenameOver(p)
      <3>1. /\ step[p] = "Written" /\ step' = [step EXCEPT ![p] = "Idle"]
            /\ final' = [final EXCEPT !["status"] = new["status"]]
        BY <2>3, <2>5 DEF RenameOver, DoneReplacing
      <3> QED BY <2>2, <2>3, <3>1 DEF Replacing
    <2> QED BY <1>3, <2>4, <2>5
  <1>4. CASE remove_status(p)
    BY <1>4 DEF remove_status, Replacing
  <1>5. ~(\/ give_up_marking_the_data_directory(p)
          \/ status_of_the_holding_instance(p) \/ record_take_over(p)
          \/ ReplacingFails(p) \/ close_lock(p) \/ Killed(p))
    BY DEF give_up_marking_the_data_directory, give_up_mark,
       status_of_the_holding_instance, record_take_over, Retryable,
       ReplacingFails, close_lock, Killed, end_process, markVars
  <1> QED
    BY <1>1, <1>2, <1>3, <1>4, <1>5 DEF ProcessStep

LEMMA NextKeepsReportInv ==
    InstanceInv /\ InstanceInv' /\ ReportInv /\ [LockNext]_lockVars => ReportInv'
  <1> SUFFICES ASSUME InstanceInv, InstanceInv', ReportInv, [LockNext]_lockVars
               PROVE  ReportInv'
    OBVIOUS
  <1>1. CASE UNCHANGED lockVars
    BY <1>1 DEF lockVars, ReportInv, ReportIsUnderWay, Report, Replacing,
       FreshProcessesAreNotShuttingDown
  <1>2. ASSUME NEW q \in Processes, ProcessStep(q) PROVE ReportInv'
    <2>1. ReportIsUnderWay'
      <3> SUFFICES ASSUME NEW p \in Processes,
                          mark'[p] = "MarkedByThisInstance", p \notin io_failed'
                   PROVE  /\ step'[p] = "Idle" => final'["status"] = Report(p)'
                          /\ Replacing(p)' => writing'[p] =
                                [file |-> "status", contents |-> Report(p)']
                          /\ step'[p] = "Written" => new'["status"] = Report(p)'
        BY DEF ReportIsUnderWay
      <3>1. CASE p = q
        BY <1>2, <3>1, OwnStepKeepsTheReport
      <3>2. CASE p # q
        <4>1. OwnerIsTheLockHolder'
          BY DEF InstanceInv
        <4>2. /\ mark[p] = "MarkedByThisInstance"
              /\ step'[p] = step[p] /\ writing'[p] = writing[p]
              /\ p \in shutdown' <=> p \in shutdown
              /\ p \notin io_failed
              /\ final'["status"] = final["status"]
              /\ new'["status"] = new["status"]
          BY <1>2, <3>2, <4>1, OthersLeaveTheReport
        <4>3. Report(p)' = Report(p)
          BY <4>2 DEF Report
        <4> QED BY <4>2, <4>3 DEF ReportInv, ReportIsUnderWay, Replacing
      <3> QED BY <3>1, <3>2
    <2>2. FreshProcessesAreNotShuttingDown'
      <3>1. ASSUME NEW p \in Processes, mark'[p] = "NotStarted"
            PROVE  mark[p] = "NotStarted" /\ shutdown' \subseteq shutdown \cup {q}
                   /\ p # q
        <4> USE DEF InstanceInv, LockTypeOK, MarkTypeOK
        <4>1. mark[p] = "NotStarted" /\ p # q
          BY <1>2, <3>1
          DEF ProcessStep, acquire, acquire_mark, mark_of,
              retry_marking_the_data_directory, retry_mark, Retryable,
              give_up_marking_the_data_directory, give_up_mark,
              status_of_the_holding_instance, record_take_over,
              mark_shutting_down, WriteContents, RenameOver, ReplacingFails,
              remove_status, close_lock, Killed, end_process, markVars,
              Idle, Running, FreshProcessesAreIdle
        <4>2. shutdown' \subseteq shutdown \cup {q}
          BY <1>2
          DEF ProcessStep, acquire, retry_marking_the_data_directory,
              give_up_marking_the_data_directory,
              status_of_the_holding_instance, record_take_over,
              mark_shutting_down, WriteContents, RenameOver, ReplacingFails,
              remove_status, close_lock, Killed, ForgetMemory
        <4> QED BY <4>1, <4>2
      <3> QED
        BY <3>1 DEF ReportInv, FreshProcessesAreNotShuttingDown
    <2> QED BY <2>1, <2>2 DEF ReportInv
  <1> QED BY <1>1, <1>2 DEF LockNext

\* The owner's status file tells what the owner is doing whenever the owner is
\* between operations (report_shutdown_progress, mark_shutting_down, and the
\* report each attempt that takes the mark ends with).
THEOREM StatusTellsOfTheOwner == LockSpec => []StatusTellsTheHolder
  <1>1. LockInit => ReportInv
    BY DEF LockInit, MarkInit, ReportInv, ReportIsUnderWay,
       FreshProcessesAreNotShuttingDown
  <1>2. InstanceInv /\ ReportInv => StatusTellsTheHolder
    BY DEF InstanceInv, OwnerIsTheLockHolder, ReportInv, ReportIsUnderWay,
       StatusTellsTheHolder, Report
  <1> QED
    BY <1>1, <1>2, InstanceInvariance, NextKeepsReportInv, PTL DEF LockSpec

-----------------------------------------------------------------------------

\* A file's contents are a status of process q.
Tells(contents, q) == contents \in Statuses /\ contents.process_id = q

StatusesAreTheWritersOwn ==
    \A p \in Processes :
        Rewriting(p) = "status" /\ writing[p].contents \in Statuses
        => writing[p].contents.process_id = p

\* A process that was not killed and whose writes did not fail is named by the
\* status file while it has the mark and has not removed the file, and by the
\* .new file only between its write and its rename.
StatusesAreOfTheLiving ==
    \A q \in Processes :
        q \notin io_failed /\ step[q] # "Killed" =>
            /\ Tells(final["status"], q) =>
                  mark[q] = "MarkedByThisInstance" /\ step[q] # "Closing"
            /\ Tells(new["status"], q) =>
                  /\ mark[q] = "MarkedByThisInstance"
                  /\ step[q] = "Written" /\ Rewriting(q) = "status"

RemainsInv == StatusesAreTheWritersOwn /\ StatusesAreOfTheLiving

LEMMA NothingTellsNothing ==
    /\ NothingToWrite.file = "status" /\ NothingToWrite.contents \notin Statuses
    /\ \A q : ~Tells(Half, q) /\ ~Tells(Absent, q)
  BY ContentsAssumption DEF NothingToWrite, Tells, Contents

LEMMA StepKeepsWritersOwn ==
    ASSUME InstanceInv, RemainsInv, NEW p \in Processes, ProcessStep(p)
    PROVE  StatusesAreTheWritersOwn'
  <1> USE DEF InstanceInv, LockTypeOK, MarkTypeOK
  <1>1. \/ writing' = writing
        \/ writing' = [writing EXCEPT ![p] = NothingToWrite]
        \/ \E state \in InstanceState :
              writing' = [writing EXCEPT ![p] = [file |-> "status",
                             contents |-> [process_id |-> p, state |-> state]]]
        \/ \E contents : writing' = [writing EXCEPT ![p] =
                             [file |-> "take_over", contents |-> contents]]
    <2>1. CASE acquire(p) \/ retry_marking_the_data_directory(p)
      BY <2>1 DEF acquire, retry_marking_the_data_directory, ReportIfMarked,
         write_status, StartReplacing, InstanceState
    <2>2. CASE mark_shutting_down(p)
      BY <2>2 DEF mark_shutting_down, write_status, StartReplacing, InstanceState
    <2>3. CASE record_take_over(p)
      BY <2>3 DEF record_take_over, StartReplacing
    <2>4. CASE \/ RenameOver(p) \/ ReplacingFails(p)
               \/ close_lock(p) \/ Killed(p)
      BY <2>4 DEF RenameOver, ReplacingFails, DoneReplacing, close_lock, Killed,
         ForgetMemory
    <2>5. CASE \/ give_up_marking_the_data_directory(p)
               \/ status_of_the_holding_instance(p)
               \/ WriteContents(p) \/ remove_status(p)
      BY <2>5 DEF give_up_marking_the_data_directory,
         status_of_the_holding_instance, WriteContents, remove_status
    <2> QED BY <2>1, <2>2, <2>3, <2>4, <2>5 DEF ProcessStep
  <1>2. \A q \in Processes : q # p => writing'[q] = writing[q]
    BY <1>1
  <1>3. ASSUME Rewriting(p)' = "status", writing'[p].contents \in Statuses
        PROVE  writing'[p].contents.process_id = p
    BY <1>1, <1>3, NothingTellsNothing
    DEF Rewriting, RemainsInv, StatusesAreTheWritersOwn
  <1> QED
    BY <1>2, <1>3 DEF Rewriting, RemainsInv, StatusesAreTheWritersOwn

\* A step of one process leaves what the others keep.
LEMMA StepIsOfOneProcess ==
    ASSUME InstanceInv, NEW p \in Processes, ProcessStep(p)
    PROVE  /\ \A q \in Processes \ {p} :
                 mark'[q] = mark[q] /\ step'[q] = step[q] /\ writing'[q] = writing[q]
           /\ io_failed \subseteq io_failed'
  <1> USE DEF InstanceInv, LockTypeOK, MarkTypeOK
  <1>1. \A q \in Processes \ {p} : mark'[q] = mark[q]
    BY DEF ProcessStep, acquire, acquire_mark, mark_of,
       retry_marking_the_data_directory, retry_mark,
       give_up_marking_the_data_directory, give_up_mark,
       status_of_the_holding_instance, record_take_over, mark_shutting_down,
       WriteContents, RenameOver, ReplacingFails, remove_status, close_lock,
       Killed, end_process, markVars
  <1>2. \A q \in Processes \ {p} : step'[q] = step[q] /\ writing'[q] = writing[q]
    BY DEF ProcessStep, acquire, retry_marking_the_data_directory, ReportIfMarked,
       give_up_marking_the_data_directory, status_of_the_holding_instance,
       record_take_over, mark_shutting_down, write_status, StartReplacing,
       WriteContents, RenameOver, ReplacingFails, DoneReplacing, remove_status,
       close_lock, Killed, ForgetMemory
  <1>3. io_failed \subseteq io_failed'
    BY DEF ProcessStep, acquire, retry_marking_the_data_directory,
       give_up_marking_the_data_directory, status_of_the_holding_instance,
       record_take_over, mark_shutting_down, WriteContents, RenameOver,
       ReplacingFails, remove_status, close_lock, Killed
  <1> QED BY <1>1, <1>2, <1>3

\* It is enough to look at what the step makes the files tell, of the process
\* itself and of the others.
LEMMA LivingByParts ==
    ASSUME InstanceInv, RemainsInv, NEW p \in Processes, ProcessStep(p),
           \A q \in Processes \ {p} :
              /\ Tells(final'["status"], q) => Tells(final["status"], q)
              /\ Tells(new'["status"], q) => Tells(new["status"], q),
           p \notin io_failed' /\ step'[p] # "Killed" =>
              /\ Tells(final'["status"], p) =>
                    mark'[p] = "MarkedByThisInstance" /\ step'[p] # "Closing"
              /\ Tells(new'["status"], p) =>
                    /\ mark'[p] = "MarkedByThisInstance"
                    /\ step'[p] = "Written" /\ writing'[p].file = "status"
    PROVE  StatusesAreOfTheLiving'
  <1>1. /\ \A q \in Processes \ {p} :
              mark'[q] = mark[q] /\ step'[q] = step[q] /\ writing'[q] = writing[q]
        /\ io_failed \subseteq io_failed'
    BY StepIsOfOneProcess
  <1> QED
    BY <1>1 DEF RemainsInv, StatusesAreOfTheLiving, Rewriting

LEMMA StepKeepsLiving ==
    ASSUME InstanceInv, RemainsInv, NEW p \in Processes, ProcessStep(p)
    PROVE  StatusesAreOfTheLiving'
  <1> USE DEF InstanceInv, LockTypeOK, MarkTypeOK
  <1>1. p \notin io_failed /\ step[p] # "Killed" =>
           /\ Tells(final["status"], p) =>
                 mark[p] = "MarkedByThisInstance" /\ step[p] # "Closing"
           /\ Tells(new["status"], p) =>
                 /\ mark[p] = "MarkedByThisInstance"
                 /\ step[p] = "Written" /\ Rewriting(p) = "status"
    BY DEF RemainsInv, StatusesAreOfTheLiving
  <1>2. CASE acquire(p) \/ retry_marking_the_data_directory(p)
    <2>1. step[p] = "Idle" /\ mark[p] # "MarkedByThisInstance"
      BY <1>2 DEF acquire, acquire_mark, retry_marking_the_data_directory,
         retry_mark, Retryable, Idle, FreshProcessesAreIdle
    <2>2. UNCHANGED <<final, io_failed>>
      BY <1>2 DEF acquire, retry_marking_the_data_directory
    <2>3. new'["status"] \in {new["status"], Half}
      BY <1>2 DEF acquire, retry_marking_the_data_directory, ReportIfMarked,
         write_status, StartReplacing, Files
    <2>4. p \notin io_failed =>
             ~Tells(final["status"], p) /\ ~Tells(new["status"], p)
      BY <1>1, <2>1
    <2> QED
      BY <2>2, <2>3, <2>4, NothingTellsNothing, LivingByParts
  <1>3. CASE mark_shutting_down(p) \/ record_take_over(p)
    <2>1. step[p] = "Idle" /\ step'[p] # "Closing" /\ UNCHANGED <<mark, final, io_failed>>
      BY <1>3 DEF mark_shutting_down, record_take_over, Idle, write_status,
         StartReplacing, markVars
    <2>2. new'["status"] \in {new["status"], Half}
      BY <1>3 DEF mark_shutting_down, record_take_over, write_status,
         StartReplacing, Files
    <2> QED
      BY <1>1, <2>1, <2>2, NothingTellsNothing, LivingByParts
  <1>4. CASE \/ give_up_marking_the_data_directory(p)
             \/ status_of_the_holding_instance(p)
    <2>1. /\ step[p] = "Idle" /\ mark[p] # "MarkedByThisInstance"
          /\ UNCHANGED <<final, new, io_failed>>
      BY <1>4 DEF give_up_marking_the_data_directory, give_up_mark, Idle,
         status_of_the_holding_instance, Retryable
    <2> QED
      BY <1>1, <2>1, LivingByParts
  <1>5. CASE WriteContents(p)
    <2>1. /\ step[p] = "Opened" /\ step' = [step EXCEPT ![p] = "Written"]
          /\ UNCHANGED <<mark, writing, io_failed>>
      BY <1>5 DEF WriteContents, markVars
    <2>2. p \notin io_failed => ~Tells(new["status"], p)
      BY <1>1, <2>1
    <2>3. CASE Rewriting(p) # "status"
      <3>1. final'["status"] = final["status"] /\ new'["status"] = new["status"]
        BY <1>5, <2>3 DEF WriteContents, Rewriting, Files
      <3> QED
        BY <1>1, <2>1, <2>2, <3>1, LivingByParts
    <2>4. CASE Rewriting(p) = "status"
      <3>1. open[p] = "New" /\ new["status"] = Half
        BY <2>1, <2>4 DEF StatusReplacementIsPrivate
      <3>2. UNCHANGED final /\ new'["status"] = writing[p].contents
        BY <1>5, <2>4, <3>1 DEF WriteContents, Overwritten, Files
      <3>3. \A q \in Processes \ {p} : ~Tells(new'["status"], q)
        BY <2>4, <3>2 DEF Tells, RemainsInv, StatusesAreTheWritersOwn
      <3>4. mark[p] = "MarkedByThisInstance"
        BY <2>1, <2>4 DEF OnlyTheOwnerReportsStatus, Replacing
      <3> QED
        BY <1>1, <2>1, <2>4, <3>2, <3>3, <3>4, LivingByParts DEF Rewriting
    <2> QED
      BY <2>3, <2>4
  <1>6. CASE RenameOver(p)
    <2>1. /\ step[p] = "Written" /\ step' = [step EXCEPT ![p] = "Idle"]
          /\ mark' = mark
      BY <1>6 DEF RenameOver, DoneReplacing, markVars
    <2>2. CASE Rewriting(p) # "status"
      <3>1. final'["status"] = final["status"] /\ new'["status"] = new["status"]
        BY <1>6, <2>2 DEF RenameOver, Rewriting, Files
      <3>2. p \notin io_failed' => p \notin io_failed /\ ~Tells(new["status"], p)
        BY <1>1, <2>1, <2>2, StepIsOfOneProcess
      <3> QED
        BY <1>1, <2>1, <3>1, <3>2, LivingByParts
    <2>3. CASE Rewriting(p) = "status" /\ new["status"] = Absent
      <3>1. p \in io_failed' /\ UNCHANGED <<final, new>>
        BY <1>6, <2>3 DEF RenameOver
      <3> QED
        BY <3>1, LivingByParts
    <2>4. CASE Rewriting(p) = "status" /\ new["status"] # Absent
      <3>1. /\ final'["status"] = new["status"] /\ new'["status"] = Absent
            /\ UNCHANGED io_failed
        BY <1>6, <2>4 DEF RenameOver, Files
      <3>2. mark[p] = "MarkedByThisInstance"
        BY <2>1, <2>4 DEF OnlyTheOwnerReportsStatus, Replacing
      <3>3. \A q \in Processes \ {p} : mark[q] # "MarkedByThisInstance"
        BY <3>2 DEF OwnerIsTheLockHolder
      <3>4. ASSUME NEW q \in Processes, q \notin io_failed', step'[q] # "Killed"
            PROVE  /\ Tells(final'["status"], q) =>
                          mark'[q] = "MarkedByThisInstance" /\ step'[q] # "Closing"
                   /\ ~Tells(new'["status"], q)
        <4>1. q \notin io_failed /\ step[q] # "Killed"
          BY <2>1, <3>1, <3>4
        <4>2. Tells(new["status"], q) => q = p
          BY <3>3, <4>1 DEF RemainsInv, StatusesAreOfTheLiving
        <4> QED
          BY <2>1, <3>1, <3>2, <4>2, NothingTellsNothing
      <3> QED
        BY <3>4 DEF StatusesAreOfTheLiving
    <2> QED
      BY <2>2, <2>3, <2>4
  <1>7. CASE ReplacingFails(p)
    <2>1. p \in io_failed' /\ UNCHANGED <<final, new>>
      BY <1>7 DEF ReplacingFails
    <2> QED
      BY <2>1, LivingByParts
  <1>8. CASE remove_status(p)
    <2>1. /\ step[p] = "Idle" /\ UNCHANGED <<mark, new>>
          /\ \/ p \in io_failed' /\ final' = final
             \/ final'["status"] = Absent
          /\ io_failed \subseteq io_failed'
      BY <1>8, StepIsOfOneProcess DEF remove_status, Idle, markVars, Files
    <2> QED
      BY <1>1, <2>1, NothingTellsNothing, LivingByParts
  <1>9. CASE close_lock(p)
    <2>1. /\ \/ step[p] = "Closing"
             \/ step[p] = "Idle" /\ mark[p] # "MarkedByThisInstance"
          /\ UNCHANGED <<final, new, io_failed>>
      BY <1>9 DEF close_lock, Idle
    <2> QED
      BY <1>1, <2>1, LivingByParts
  <1>10. CASE Killed(p)
    <2>1. step'[p] = "Killed" /\ UNCHANGED <<final, new>>
      BY <1>10 DEF Killed
    <2> QED
      BY <2>1, LivingByParts
  <1> QED
    BY <1>2, <1>3, <1>4, <1>5, <1>6, <1>7, <1>8, <1>9, <1>10 DEF ProcessStep

\* A status file that names a process without the directory was left by one
\* that was killed or whose file operations failed: a clean exit removes its
\* status before it gives up the lock (Drop for MarkedDataDirectory), and
\* nobody else's report can name it.
THEOREM StatusesAreLeftByTheKilled == LockSpec => []StatusOutlivesOnlyTheKilled
  <1>1. LockInit => RemainsInv
    BY NothingTellsNothing
    DEF LockInit, RemainsInv, StatusesAreTheWritersOwn, StatusesAreOfTheLiving, Files
  <1>2. InstanceInv /\ RemainsInv /\ [LockNext]_lockVars => RemainsInv'
    <2>1. CASE UNCHANGED lockVars
      BY <2>1 DEF lockVars, RemainsInv, StatusesAreTheWritersOwn,
         StatusesAreOfTheLiving, Rewriting
    <2>2. ASSUME InstanceInv, RemainsInv, NEW p \in Processes, ProcessStep(p)
          PROVE  RemainsInv'
      BY <2>2, StepKeepsWritersOwn, StepKeepsLiving DEF RemainsInv
    <2> QED
      BY <2>1, <2>2 DEF LockNext
  <1>3. InstanceInv /\ RemainsInv => StatusOutlivesOnlyTheKilled
    BY DEF InstanceInv, OwnerIsTheLockHolder, RemainsInv, StatusesAreOfTheLiving,
       StatusOutlivesOnlyTheKilled, Tells
  <1> QED
    BY <1>1, <1>2, <1>3, InstanceInvariance, PTL DEF LockSpec

-----------------------------------------------------------------------------
(***************************************************************************)
(* The way to open databases, for any number of processes: what each state *)
(* keeps, who may write beside the holder of the mark, and what becomes of *)
(* deletes that are under way or were interrupted.                         *)
(***************************************************************************)

\* What queues and what started to load.
Loads == Seq(1..MaxLoads)

LEMMA LoadsGrow ==
    /\ <<>> \in Loads
    /\ \A s, t \in Loads : s \o t \in Loads
    /\ \A s \in Loads : Len(s) \in Nat
    /\ \A s \in Loads, n \in 1..MaxLoads : Append(s, n) \in Loads
<1>1. \A s, t \in Seq(1..MaxLoads) : s \o t \in Seq(1..MaxLoads)
  BY ConcatProperties
<1>2. QED
  BY <1>1 DEF Loads

AppState ==
    [storage : {"NotStarted", "Waiting", "Inspecting", "Asking",
                "Opening", "Finished"},
     landed : BOOLEAN,
     finding : {"None", "Interrupted", "Held"},
     plan : Plans,
     archive : {"None", "Owner", "ReadOnly"},
     access : {"Owner", "ReadOnly"},
     taken_over : BOOLEAN,
     retrying : BOOLEAN,
     unusable : 0..UnusableRetries - 1,
     closing : BOOLEAN,
     queued : Loads,
     loaded : Loads]

BeforeTheOpen == {"NotStarted", "Waiting"}

\* What a process may have come to, given what it knows of the mark.
Stands(a, m) ==
    /\ m = "NotStarted" => a.storage = "NotStarted"
    /\ a.storage \in BeforeTheOpen => ~a.taken_over /\ a.access = "Owner"
    /\ a.archive # "None" => a.storage \in {"Opening", "Finished"}
    /\ a.archive = "Owner" => a.access = "Owner"
    /\ a.access = "ReadOnly" => m \in {"NoDataDirectory", "Ended"}
    /\ a.taken_over /\ a.storage = "Opening" =>
          \/ a.plan \in {"Decline", "LeaveClosed"}
          \/ a.finding = "Interrupted"
    /\ (/\ m \notin {"NotStarted", "Ended"}
        /\ a.access = "Owner" /\ a.storage \notin BeforeTheOpen) =>
          \/ m = "MarkedByThisInstance"
          \/ a.taken_over
          \/ LockFileFails /\ (a.retrying \/ m = "LockFileUnavailable")

LEMMA OpeningStands ==
    ASSUME NEW a \in AppState, NEW m, NEW plan \in Plans,
           a.access = "Owner", a.archive = "None", ~a.taken_over,
           m \in {"MarkedByThisInstance", "LockFileUnavailable"},
           m = "LockFileUnavailable" => LockFileFails
    PROVE  Opening(a, plan) \in AppState /\ Stands(Opening(a, plan), m)
<1>1. Opening(a, plan) \in AppState
  BY DEF Opening, AppState
<1>2. Stands(Opening(a, plan), m)
  BY DEF Opening, AppState, Stands, BeforeTheOpen
<1>3. QED BY <1>1, <1>2

LEMMA WithoutStands ==
    ASSUME NEW a \in AppState, NEW m \in Ownerships, NEW t \in BOOLEAN,
           a.access = "Owner", a.archive = "None", m # "NotStarted",
           t \/ LockFileFails
    PROVE  open_without_the_mark(a, t) \in AppState /\ Stands(open_without_the_mark(a, t), m)
<1>1. open_without_the_mark(a, t) \in AppState
  BY DEF open_without_the_mark, AppState
<1>2. Stands(open_without_the_mark(a, t), m)
  BY DEF open_without_the_mark, AppState, Stands, BeforeTheOpen
<1>3. QED BY <1>1, <1>2

\* Who deletes has the archive open, who wrote it had the open behind it.
FilesStand ==
    /\ archive.deleter # Nobody => archive.writer = archive.deleter
    /\ \A p \in Processes : archive.deleter = p =>
          app[p].storage = "Finished" /\ app[p].archive = "Owner"
    /\ \A p \in Processes : archive.writer = p =>
          app[p].access = "Owner" /\ app[p].storage \notin BeforeTheOpen

FilesTyped ==
    /\ archive \in [state : {"Settled", "InFlight"},
                    deleter : Processes \cup {Nobody},
                    writer : Processes \cup {Nobody}]
    /\ settings \in Processes \cup {Nobody}
    /\ deletes \in 0..MaxDeletes

MarkStands == MarkTypeOK /\ OwnerIsTheLockHolder

AppsStand ==
    /\ app \in [Processes -> AppState]
    /\ \A p \in Processes : Stands(app[p], mark[p])

IInv == MarkStands /\ AppsStand /\ FilesTyped /\ FilesStand

LEMMA TypeParts == StartTypeOK <=> MarkTypeOK /\ app \in [Processes -> AppState] /\ FilesTyped
BY Zenon DEF StartTypeOK, AppState, Loads, FilesTyped

LEMMA InitIInv == StartInit => IInv
<1> SUFFICES ASSUME StartInit PROVE IInv
  OBVIOUS
<1>1. MarkStands
  BY NobodyAssumption DEF StartInit, MarkInit, MarkStands, MarkTypeOK, Ownerships,
                          OwnerIsTheLockHolder
<1>2. AppsStand
  <2> DEFINE fresh == [storage |-> "NotStarted", landed |-> FALSE, finding |-> "None",
          plan |-> "None", archive |-> "None", access |-> "Owner",
          taken_over |-> FALSE, retrying |-> FALSE, unusable |-> 0,
          closing |-> FALSE, queued |-> <<>>, loaded |-> <<>>]
  <2>1. fresh \in AppState
    BY LoadsGrow, BoundsAssumption DEF AppState, Plans
  <2>2. Stands(fresh, "NotStarted")
    BY DEF Stands, BeforeTheOpen
  <2> HIDE DEF fresh
  <2>3. app = [p \in Processes |-> fresh]
    BY Zenon DEF StartInit, fresh
  <2>4. mark = [p \in Processes |-> "NotStarted"]
    BY Zenon DEF StartInit, MarkInit
  <2> QED
    BY <2>1, <2>2, <2>3, <2>4 DEF AppsStand
<1>3. FilesTyped
  BY BoundsAssumption DEF StartInit, FilesTyped
<1>4. FilesStand
  BY NobodyAssumption DEF StartInit, FilesStand
<1> QED
  BY <1>1, <1>2, <1>3, <1>4 DEF IInv

\* The lock changes hands as DataDirectoryMark says, for one process at a time.
LEMMA AttemptStands ==
    ASSUME MarkStands, NEW p \in Processes,
           acquire_mark(p) \/ retry_mark(p) \/ give_up_mark(p)
    PROVE  /\ MarkStands'
           /\ mark' = [mark EXCEPT ![p] = mark'[p]]
           /\ mark'[p] \in Ownerships \ {"NotStarted", "Ended"}
BY NobodyAssumption DEF MarkStands, MarkTypeOK, OwnerIsTheLockHolder, Ownerships,
   Retryable, acquire_mark, retry_mark, give_up_mark, mark_of

LEMMA EndStands ==
    ASSUME MarkStands, NEW p \in Processes, end_process(p)
    PROVE  /\ MarkStands'
           /\ mark' = [mark EXCEPT ![p] = "Ended"]
BY NobodyAssumption DEF MarkStands, MarkTypeOK, OwnerIsTheLockHolder, Ownerships,
   end_process

\* One process moves on, as far as its own state allows, and the others stay.
LEMMA Moves ==
    ASSUME IInv, NEW p \in Processes, NEW a \in AppState,
           Change(p, a), Stands(a, mark'[p]),
           MarkStands', \A q \in Processes : q # p => mark'[q] = mark[q],
           UNCHANGED <<archive, deletes>>, settings' \in {settings, p},
           app[p].storage = "Finished" =>
              a.storage = "Finished" /\ a.archive = app[p].archive,
           app[p].storage \notin BeforeTheOpen =>
              a.access = app[p].access /\ a.storage \notin BeforeTheOpen
    PROVE  IInv'
<1>1. /\ app \in [Processes -> AppState]
      /\ app' = [app EXCEPT ![p] = a]
  BY DEF IInv, AppsStand, Change
<1>2. /\ app' \in [Processes -> AppState]
      /\ app'[p] = a
      /\ \A q \in Processes : q # p => app'[q] = app[q]
  BY <1>1
<1>3. AppsStand'
  BY <1>2 DEF IInv, AppsStand
<1>4. FilesTyped'
  BY DEF IInv, FilesTyped
<1>5. FilesStand'
  BY <1>2, SMT DEF IInv, FilesStand
<1> QED
  BY <1>3, <1>4, <1>5 DEF IInv

-----------------------------------------------------------------------------
\* The wait for the directory and the ways out of it.

LEMMA StartIInv == ASSUME IInv, NEW p \in Processes, Start(p) PROVE IInv'
<1>1. /\ MarkStands' /\ mark' = [mark EXCEPT ![p] = mark'[p]]
      /\ mark'[p] \in Ownerships \ {"NotStarted", "Ended"}
  BY AttemptStands DEF IInv, Start
<1>2. /\ app[p] \in AppState /\ app[p].storage = "NotStarted"
      /\ app[p].access = "Owner" /\ app[p].archive = "None" /\ ~app[p].taken_over
  BY DEF IInv, AppsStand, Start, acquire_mark, Stands, BeforeTheOpen, AppState
<1>3. \A q \in Processes : q # p => mark'[q] = mark[q]
  BY <1>1 DEF IInv, MarkStands, MarkTypeOK
<1>4. UNCHANGED <<archive, deletes>> /\ settings' = settings
  BY DEF Start, shared
<1>5. CASE mark'[p] = "HeldByAnotherInstance"
  <2> DEFINE a == [app[p] EXCEPT !.storage = "Waiting"]
  <2>1. Change(p, a)
    BY <1>5 DEF Start
  <2>2. a \in AppState /\ Stands(a, mark'[p]) /\ a.storage = "Waiting"
    BY <1>2, <1>5 DEF AppState, Stands, BeforeTheOpen
  <2> QED
    BY <1>1, <1>2, <1>3, <1>4, <2>1, <2>2, Moves DEF BeforeTheOpen
<1>6. CASE mark'[p] # "HeldByAnotherInstance"
  <2> DEFINE a == Opening(app[p], "Automatic")
  <2>1. Change(p, a)
    BY <1>6, Zenon DEF Start
  <2>2. mark'[p] \in {"MarkedByThisInstance", "LockFileUnavailable"}
    BY <1>1, <1>6 DEF Start, Ownerships, Retryable
  <2>3. mark'[p] = "LockFileUnavailable" => LockFileFails
    BY DEF Start, LockFileOutcome
  <2>4. a \in AppState /\ Stands(a, mark'[p])
    BY <1>2, <2>2, <2>3, OpeningStands DEF Plans
  <2> QED
    BY <1>1, <1>2, <1>3, <1>4, <2>1, <2>4, Moves DEF BeforeTheOpen
<1> QED
  BY <1>5, <1>6

\* What is known of a process in the wait.
LEMMA Waits ==
    ASSUME IInv, NEW p \in Processes, app[p].storage = "Waiting"
    PROVE  /\ app[p] \in AppState /\ app[p].access = "Owner"
           /\ app[p].archive = "None" /\ ~app[p].taken_over
           /\ mark[p] # "NotStarted" /\ Stands(app[p], mark[p])
BY DEF IInv, AppsStand, Stands, BeforeTheOpen, AppState

LEMMA WaitIInv ==
    ASSUME IInv, NEW p \in Processes, wait_for_the_data_directory(p) PROVE IInv'
<1>1. /\ MarkStands' /\ mark' = [mark EXCEPT ![p] = mark'[p]]
      /\ mark'[p] \in Ownerships \ {"NotStarted", "Ended"}
  BY AttemptStands DEF IInv, wait_for_the_data_directory
<1>2. /\ app[p] \in AppState /\ app[p].storage = "Waiting"
      /\ app[p].access = "Owner" /\ app[p].archive = "None" /\ ~app[p].taken_over
  BY Waits DEF wait_for_the_data_directory
<1>3. \A q \in Processes : q # p => mark'[q] = mark[q]
  BY <1>1 DEF IInv, MarkStands, MarkTypeOK
<1>4. UNCHANGED <<archive, deletes>> /\ settings' = settings
  BY DEF wait_for_the_data_directory, shared
<1>5. ASSUME NEW n \in 0..UnusableRetries - 1,
             Change(p, [app[p] EXCEPT !.unusable = n])
      PROVE  IInv'
  <2> DEFINE a == [app[p] EXCEPT !.unusable = n]
  <2>1. a \in AppState /\ Stands(a, mark'[p]) /\ a.storage = "Waiting"
    BY <1>1, <1>2 DEF AppState, Stands, BeforeTheOpen
  <2> QED
    BY <1>1, <1>2, <1>3, <1>4, <1>5, <2>1, Moves DEF BeforeTheOpen
<1>6. CASE mark'[p] = "MarkedByThisInstance" /\ Change(p, Opening(app[p], "Automatic"))
  BY <1>1, <1>2, <1>3, <1>4, <1>6, OpeningStands, Moves DEF BeforeTheOpen, Plans
<1>7. CASE LockFileFails /\ Change(p, open_without_the_mark(app[p], FALSE))
  BY <1>1, <1>2, <1>3, <1>4, <1>7, WithoutStands, Moves DEF BeforeTheOpen
<1>8. CASE Change(p, [app[p] EXCEPT !.unusable = 0])
  BY <1>5, <1>8, BoundsAssumption
<1>9. CASE /\ app[p].unusable + 1 < UnusableRetries
           /\ Change(p, [app[p] EXCEPT !.unusable = @ + 1])
  <2>1. app[p].unusable + 1 \in 0..UnusableRetries - 1
    BY <1>2, <1>9, BoundsAssumption DEF AppState
  <2> QED
    BY <1>5, <1>9, <2>1
<1> QED
  BY <1>6, <1>7, <1>8, <1>9 DEF wait_for_the_data_directory, LockFileOutcome

LEMMA TakeOverIInv ==
    ASSUME IInv, NEW p \in Processes, TakeOverWriteAccess(p) PROVE IInv'
<1>1. /\ app[p] \in AppState /\ app[p].storage = "Waiting" /\ mark[p] # "NotStarted"
      /\ app[p].access = "Owner" /\ app[p].archive = "None" /\ ~app[p].taken_over
  BY Waits DEF TakeOverWriteAccess
<1>2. mark' = mark /\ MarkStands' /\ mark[p] \in Ownerships
  BY DEF IInv, MarkStands, MarkTypeOK, OwnerIsTheLockHolder, TakeOverWriteAccess, markVars
<1>3. UNCHANGED <<archive, deletes>> /\ settings' = settings
  BY DEF TakeOverWriteAccess, shared
<1>4. Change(p, open_without_the_mark(app[p], TRUE))
  BY DEF TakeOverWriteAccess
<1> QED
  BY <1>1, <1>2, <1>3, <1>4, WithoutStands, Moves DEF BeforeTheOpen

LEMMA ReadOnlyIInv ==
    ASSUME IInv, NEW p \in Processes, start_read_only_session(p) PROVE IInv'
<1>1. /\ app[p] \in AppState /\ app[p].storage = "Waiting"
      /\ app[p].access = "Owner" /\ app[p].archive = "None" /\ ~app[p].taken_over
  BY Waits DEF start_read_only_session
<1>2. MarkStands' /\ mark' = [mark EXCEPT ![p] = mark'[p]]
  BY AttemptStands DEF IInv, start_read_only_session
<1>3. mark'[p] = "NoDataDirectory"
  BY DEF start_read_only_session, give_up_mark, IInv, MarkStands, MarkTypeOK
<1>4. \A q \in Processes : q # p => mark'[q] = mark[q]
  BY <1>2 DEF IInv, MarkStands, MarkTypeOK
<1>5. UNCHANGED <<archive, deletes>> /\ settings' = settings
  BY DEF start_read_only_session, shared
<1> DEFINE a == [Opening(app[p], "Automatic") EXCEPT !.access = "ReadOnly"]
<1>6. Change(p, a)
  BY DEF start_read_only_session
<1>7. a \in AppState /\ Stands(a, mark'[p])
  BY <1>1, <1>3 DEF AppState, Stands, BeforeTheOpen, Opening, Plans
<1> QED
  BY <1>1, <1>2, <1>4, <1>5, <1>6, <1>7, Moves DEF BeforeTheOpen

LEMMA RetryIInv ==
    ASSUME IInv, NEW p \in Processes, retry_in_the_background(p) PROVE IInv'
<1>1. /\ MarkStands' /\ mark' = [mark EXCEPT ![p] = mark'[p]]
      /\ mark'[p] \in Ownerships \ {"NotStarted", "Ended"}
  BY AttemptStands DEF IInv, retry_in_the_background
<1>2. /\ app[p] \in AppState /\ Stands(app[p], mark[p]) /\ app[p].retrying
      /\ mark[p] \in Retryable
  BY DEF IInv, AppsStand, retry_in_the_background, retry_mark
<1>3. \A q \in Processes : q # p => mark'[q] = mark[q]
  BY <1>1 DEF IInv, MarkStands, MarkTypeOK
<1>4. UNCHANGED <<archive, deletes>> /\ settings' = settings
  BY DEF retry_in_the_background, shared
<1> DEFINE a == [app[p] EXCEPT !.retrying = mark'[p] # "MarkedByThisInstance"]
<1>5. Change(p, a)
  BY DEF retry_in_the_background
<1>6. /\ a \in AppState /\ Stands(a, mark'[p])
      /\ a.storage = app[p].storage /\ a.archive = app[p].archive
      /\ a.access = app[p].access
  BY <1>1, <1>2 DEF AppState, Stands, BeforeTheOpen, Retryable
<1> QED
  BY <1>1, <1>2, <1>3, <1>4, <1>5, <1>6, Moves

-----------------------------------------------------------------------------
\* The inspection, its prompts, the loads and the end of a session.

\* A step of one process that leaves the mark and the archive alone.
LEMMA Keeps ==
    ASSUME IInv, NEW p \in Processes, NEW a \in AppState,
           Change(p, a), UNCHANGED <<markVars, archive, deletes>>,
           settings' \in {settings, p}, Stands(a, mark[p]),
           app[p].storage = "Finished" =>
              a.storage = "Finished" /\ a.archive = app[p].archive,
           app[p].storage \notin BeforeTheOpen =>
              a.access = app[p].access /\ a.storage \notin BeforeTheOpen
    PROVE  IInv'
<1>1. mark' = mark /\ MarkStands'
  BY DEF IInv, MarkStands, MarkTypeOK, OwnerIsTheLockHolder, markVars
<1> QED
  BY <1>1, Moves

LEMMA InspectIInv ==
    ASSUME IInv, NEW p \in Processes, inspect_archives(p) PROVE IInv'
<1>1. /\ app[p] \in AppState /\ Stands(app[p], mark[p])
      /\ app[p].storage = "Inspecting"
  BY DEF IInv, AppsStand, inspect_archives
<1> DEFINE found == IF archive.deleter # Nobody THEN "Held"
                    ELSE IF archive.state = "InFlight" THEN "Interrupted" ELSE "None"
           a == [app[p] EXCEPT !.landed = TRUE, !.finding = found]
<1>2. Change(p, a) /\ UNCHANGED <<markVars, archive, deletes, settings>>
  BY DEF inspect_archives, shared
<1>3. /\ a \in AppState /\ Stands(a, mark[p])
      /\ a.storage = "Inspecting" /\ a.access = app[p].access
  BY <1>1 DEF AppState, Stands, BeforeTheOpen
<1> QED
  BY <1>1, <1>2, <1>3, Keeps DEF BeforeTheOpen

LEMMA AdoptInspectionIInv ==
    ASSUME IInv, NEW p \in Processes, adopt_finished_archive_inspection(p) PROVE IInv'
<1>1. /\ app[p] \in AppState /\ Stands(app[p], mark[p])
      /\ app[p].storage = "Inspecting"
  BY DEF IInv, AppsStand, adopt_finished_archive_inspection
<1>2. UNCHANGED <<markVars, archive, deletes, settings>>
  BY DEF adopt_finished_archive_inspection, shared
<1> DEFINE opened == Opening(app[p], "Decline")
           asked  == [app[p] EXCEPT !.storage = "Asking", !.landed = FALSE]
<1>3. Change(p, opened) \/ Change(p, asked)
  BY DEF adopt_finished_archive_inspection
<1>4. /\ opened \in AppState /\ Stands(opened, mark[p])
      /\ opened.storage = "Opening" /\ opened.access = app[p].access
  BY <1>1 DEF AppState, Stands, BeforeTheOpen, Opening, Plans
<1>5. /\ asked \in AppState /\ Stands(asked, mark[p])
      /\ asked.storage = "Asking" /\ asked.access = app[p].access
  BY <1>1 DEF AppState, Stands, BeforeTheOpen
<1> QED
  BY <1>1, <1>2, <1>3, <1>4, <1>5, Keeps DEF BeforeTheOpen

LEMMA ChoiceIInv ==
    ASSUME IInv, NEW p \in Processes, RecordChoice(p) PROVE IInv'
<1>1. /\ app[p] \in AppState /\ Stands(app[p], mark[p])
      /\ app[p].storage = "Asking"
  BY DEF IInv, AppsStand, RecordChoice
<1>2. UNCHANGED <<markVars, archive, deletes, settings>>
  BY DEF RecordChoice, shared
<1>3. PICK plan \in {"Recover", "LeaveClosed"} :
          /\ Change(p, Opening(app[p], plan))
          /\ plan = "Recover" => app[p].finding = "Interrupted"
  BY DEF RecordChoice
<1> DEFINE a == Opening(app[p], plan)
<1>4. /\ a \in AppState /\ Stands(a, mark[p])
      /\ a.storage = "Opening" /\ a.access = app[p].access
  BY <1>1, <1>3 DEF AppState, Stands, BeforeTheOpen, Opening, Plans
<1> QED
  BY <1>1, <1>2, <1>3, <1>4, Keeps DEF BeforeTheOpen

LEMMA AdoptOpenIInv ==
    ASSUME IInv, NEW p \in Processes, adopt_finished_storage_open(p) PROVE IInv'
<1>1. /\ app[p] \in AppState /\ Stands(app[p], mark[p])
      /\ app[p].storage = "Opening"
  BY DEF IInv, AppsStand, adopt_finished_storage_open
<1>2. UNCHANGED <<markVars, archive, deletes, settings>>
  BY DEF adopt_finished_storage_open, shared
<1> DEFINE both == app[p].loaded \o app[p].queued
<1>3. both \in Loads /\ <<>> \in Loads
  BY <1>1, LoadsGrow DEF AppState
<1> DEFINE dropped == [app[p] EXCEPT !.storage = "Finished", !.archive = "None",
                                     !.queued = <<>>]
           kept    == [app[p] EXCEPT !.storage = "Finished", !.queued = <<>>,
                                     !.loaded = both]
<1>4. Change(p, dropped) \/ Change(p, kept)
  BY DEF adopt_finished_storage_open
<1> HIDE DEF both
<1>5. /\ dropped \in AppState /\ Stands(dropped, mark[p])
      /\ dropped.storage = "Finished" /\ dropped.access = app[p].access
  BY <1>1, <1>3 DEF AppState, Stands, BeforeTheOpen
<1>6. /\ kept \in AppState /\ Stands(kept, mark[p])
      /\ kept.storage = "Finished" /\ kept.access = app[p].access
  BY <1>1, <1>3 DEF AppState, Stands, BeforeTheOpen
<1> QED
  BY <1>1, <1>2, <1>4, <1>5, <1>6, Keeps DEF BeforeTheOpen

LEMMA LoadIInv ==
    ASSUME IInv, NEW p \in Processes, load_arriving_files(p) PROVE IInv'
<1> DEFINE next == Len(app[p].queued) + Len(app[p].loaded) + 1
           longer == Append(app[p].loaded, next)
           more   == Append(app[p].queued, next)
           started == [app[p] EXCEPT !.loaded = longer]
           parked  == [app[p] EXCEPT !.queued = more]
<1>1. app[p] \in AppState /\ Stands(app[p], mark[p])
  BY DEF IInv, AppsStand
<1>2. UNCHANGED <<markVars, archive, deletes, settings>>
  BY DEF load_arriving_files, shared
<1>3. next <= MaxLoads
  BY DEF load_arriving_files
<1>4. app[p].queued \in Loads /\ app[p].loaded \in Loads
  BY <1>1 DEF AppState
<1>5. longer \in Loads /\ more \in Loads
  <2>1. Len(app[p].queued) \in Nat /\ Len(app[p].loaded) \in Nat
    BY <1>4, LoadsGrow
  <2>2. \A n, m \in Nat : n + m + 1 <= MaxLoads => n + m + 1 \in 1..MaxLoads
    BY BoundsAssumption
  <2>3. next \in 1..MaxLoads
    BY <1>3, <2>1, <2>2, Zenon
  <2> HIDE DEF next
  <2> QED
    BY <1>4, <2>3, LoadsGrow
<1>6. Change(p, started) \/ Change(p, parked)
  BY DEF load_arriving_files
<1> HIDE DEF longer, more
<1>7. /\ started \in AppState /\ Stands(started, mark[p])
      /\ started.storage = app[p].storage /\ started.access = app[p].access
      /\ started.archive = app[p].archive
  BY <1>1, <1>5 DEF AppState, Stands
<1>8. /\ parked \in AppState /\ Stands(parked, mark[p])
      /\ parked.storage = app[p].storage /\ parked.access = app[p].access
      /\ parked.archive = app[p].archive
  BY <1>1, <1>5 DEF AppState, Stands
<1> QED
  BY <1>2, <1>6, <1>7, <1>8, Keeps

LEMMA BeginShutdownIInv ==
    ASSUME IInv, NEW p \in Processes, begin_shutdown_of(p) PROVE IInv'
<1>1. app[p] \in AppState /\ Stands(app[p], mark[p])
  BY DEF IInv, AppsStand
<1> DEFINE a == [app[p] EXCEPT !.closing = TRUE]
<1>2. /\ Change(p, a) /\ UNCHANGED <<markVars, archive, deletes>>
      /\ settings' \in {settings, p}
  BY DEF begin_shutdown_of
<1>3. /\ a \in AppState /\ Stands(a, mark[p])
      /\ a.storage = app[p].storage /\ a.access = app[p].access
      /\ a.archive = app[p].archive
  BY <1>1 DEF AppState, Stands
<1> QED
  BY <1>2, <1>3, Keeps

LEMMA FlushIInv ==
    ASSUME IInv, NEW p \in Processes, flush_settings(p) PROVE IInv'
<1>1. UNCHANGED <<lock_holder, mark, app, archive, deletes>> /\ settings' = p
  BY DEF flush_settings, markVars
<1> QED
  BY <1>1 DEF IInv, MarkStands, MarkTypeOK, OwnerIsTheLockHolder, AppsStand,
              FilesTyped, FilesStand

-----------------------------------------------------------------------------
\* The archive.

LEMMA OpenIInv ==
    ASSUME IInv, NEW p \in Processes, StorageOpenThread(p) PROVE IInv'
<1>1. /\ app[p] \in AppState /\ Stands(app[p], mark[p])
      /\ app[p].storage = "Opening"
  BY DEF IInv, AppsStand, StorageOpenThread
<1>2. UNCHANGED <<markVars, deletes, settings>>
  BY DEF StorageOpenThread
<1>3. PICK handle \in {"None", app[p].access} :
          /\ Change(p, [app[p] EXCEPT !.landed = TRUE, !.archive = handle])
          /\ \/ UNCHANGED archive
             \/ /\ archive.deleter = Nobody /\ app[p].access = "Owner"
                /\ Discarded(p)
  <2>1. app[p].access \in {"Owner", "ReadOnly"}
    BY <1>1 DEF AppState
  <2> QED
    BY <2>1, Zenon DEF StorageOpenThread, open_archive
<1> DEFINE a == [app[p] EXCEPT !.landed = TRUE, !.archive = handle]
<1>4. /\ a \in AppState /\ Stands(a, mark[p])
      /\ a.storage = "Opening" /\ a.access = app[p].access
  BY <1>1 DEF AppState, Stands, BeforeTheOpen
<1>5. CASE UNCHANGED archive
  BY <1>1, <1>2, <1>3, <1>4, <1>5, Keeps DEF BeforeTheOpen
<1>6. CASE archive.deleter = Nobody /\ app[p].access = "Owner" /\ Discarded(p)
  <2>1. mark' = mark /\ MarkStands'
    BY <1>2 DEF IInv, MarkStands, MarkTypeOK, OwnerIsTheLockHolder, markVars
  <2>2. /\ app' \in [Processes -> AppState] /\ app'[p] = a
        /\ \A q \in Processes : q # p => app'[q] = app[q]
    <3>1. app \in [Processes -> AppState] /\ app' = [app EXCEPT ![p] = a]
      BY <1>3 DEF IInv, AppsStand, Change
    <3> QED
      BY <1>4, <3>1
  <2>3. AppsStand'
    BY <1>4, <2>1, <2>2 DEF IInv, AppsStand
  <2>4. archive' = [archive EXCEPT !.state = "Settled", !.writer = p]
    BY <1>6 DEF Discarded
  <2>5. FilesTyped'
    BY <1>2, <2>4 DEF IInv, FilesTyped
  <2>6. archive'.deleter = Nobody /\ archive'.writer = p
    BY <1>6, <2>4 DEF IInv, FilesTyped
  <2>7. FilesStand'
    BY <1>4, <1>6, <2>2, <2>6, NobodyAssumption DEF FilesStand, BeforeTheOpen
  <2> QED
    BY <2>1, <2>3, <2>5, <2>7 DEF IInv
<1> QED
  BY <1>3, <1>5, <1>6

LEMMA BeginDeleteIInv ==
    ASSUME IInv, NEW p \in Processes, BeginDelete(p) PROVE IInv'
<1>1. UNCHANGED <<lock_holder, mark, app, settings>>
  BY DEF BeginDelete, markVars
<1>2. MarkStands' /\ AppsStand'
  BY <1>1 DEF IInv, MarkStands, MarkTypeOK, OwnerIsTheLockHolder, AppsStand
<1>3. FilesTyped'
  BY <1>1, BoundsAssumption DEF IInv, FilesTyped, BeginDelete
<1>4. FilesStand'
  BY <1>1 DEF IInv, FilesStand, BeginDelete, BeforeTheOpen
<1> QED
  BY <1>2, <1>3, <1>4 DEF IInv

LEMMA EndDeleteIInv ==
    ASSUME IInv, NEW p \in Processes, EndDelete(p) PROVE IInv'
<1>1. UNCHANGED <<lock_holder, mark, app, settings, deletes>>
  BY DEF EndDelete, markVars
<1>2. PICK state \in {"Settled", "InFlight"} :
          archive' = [archive EXCEPT !.state = state, !.deleter = Nobody]
  BY DEF EndDelete
<1>3. MarkStands' /\ AppsStand'
  BY <1>1 DEF IInv, MarkStands, MarkTypeOK, OwnerIsTheLockHolder, AppsStand
<1>4. FilesTyped'
  BY <1>1, <1>2 DEF IInv, FilesTyped
<1>5. archive'.deleter = Nobody /\ archive'.writer = archive.writer
  BY <1>2 DEF IInv, FilesTyped
<1>6. FilesStand'
  BY <1>1, <1>5, NobodyAssumption DEF IInv, FilesStand
<1> QED
  BY <1>3, <1>4, <1>6 DEF IInv

LEMMA EndsIInv ==
    ASSUME IInv, NEW p \in Processes, Ends(p) PROVE IInv'
<1>1. UNCHANGED <<app, settings, deletes>> /\ end_process(p) /\ Running(p)
  BY DEF Ends
<1>2. MarkStands' /\ mark' = [mark EXCEPT ![p] = "Ended"]
  BY <1>1, EndStands DEF IInv
<1>3. AppsStand'
  BY <1>1, <1>2 DEF IInv, AppsStand, Stands, MarkStands, MarkTypeOK, BeforeTheOpen
<1>4. archive' \in {archive, [archive EXCEPT !.deleter = Nobody]}
  BY DEF Ends
<1>5. FilesTyped'
  BY <1>1, <1>4 DEF IInv, FilesTyped
<1>6. /\ archive'.deleter \in {archive.deleter, Nobody}
      /\ archive'.writer = archive.writer
  BY <1>4 DEF IInv, FilesTyped
<1>7. FilesStand'
  BY <1>1, <1>6, NobodyAssumption DEF IInv, FilesStand
<1> QED
  BY <1>2, <1>3, <1>5, <1>7 DEF IInv

LEMMA StutterIInv == IInv /\ UNCHANGED startVars => IInv'
BY DEF IInv, MarkStands, MarkTypeOK, OwnerIsTheLockHolder, AppsStand, FilesTyped,
       FilesStand, startVars

LEMMA NextIInv == IInv /\ [StartNext]_startVars => IInv'
<1> SUFFICES ASSUME IInv, [StartNext]_startVars PROVE IInv'
  OBVIOUS
<1>1. CASE UNCHANGED startVars
  BY <1>1, StutterIInv
<1>2. ASSUME NEW p \in Processes, Frame(p) PROVE IInv'
  BY <1>2, WaitIInv, AdoptInspectionIInv, AdoptOpenIInv, RetryIInv DEF Frame
<1>3. ASSUME NEW p \in Processes, User(p) PROVE IInv'
  BY <1>3, StartIInv, TakeOverIInv, ReadOnlyIInv, ChoiceIInv, LoadIInv,
     BeginDeleteIInv, FlushIInv, BeginShutdownIInv DEF User
<1>4. ASSUME NEW p \in Processes,
             \/ inspect_archives(p) \/ StorageOpenThread(p) \/ EndDelete(p)
             \/ Exit(p) \/ Kill(p)
      PROVE  IInv'
  BY <1>4, InspectIInv, OpenIInv, EndDeleteIInv, EndsIInv DEF Exit, Kill
<1> QED
  BY <1>1, <1>2, <1>3, <1>4 DEF StartNext

LEMMA Invariance == StartSpec => []IInv
BY InitIInv, NextIInv, PTL DEF StartSpec

-----------------------------------------------------------------------------
\* The results.

\* Every variable keeps its type, for any number of processes, loads, deletes
\* and failing tries of the lock file (src/app/instance_wait.rs,
\* src/app/archive_recovery.rs, src/app/storage.rs).
THEOREM StartTypeCorrect == StartSpec => []StartTypeOK
<1>1. IInv => StartTypeOK
  BY TypeParts DEF IInv, MarkStands, AppsStand
<1>2. QED
  BY <1>1, Invariance, PTL

\* However many processes there are: one that may write to the databases has
\* the mark, took write access, or met a lock file that cannot be used; of
\* those that did not take over, one at most writes while lock files work; and
\* a read-only session never has the archive open to write
\* (wait_for_the_data_directory, start_read_only_session).
THEOREM WritersAreOwners == StartSpec => []OnlyATakeOverWritesBesideTheHolder
<1> SUFFICES IInv => OnlyATakeOverWritesBesideTheHolder
  BY Invariance, PTL
<1> SUFFICES ASSUME IInv PROVE OnlyATakeOverWritesBesideTheHolder
  OBVIOUS
<1>1. ASSUME NEW p \in Processes, MayWrite(p)
      PROVE  \/ mark[p] = "MarkedByThisInstance"
             \/ app[p].taken_over
             \/ LockFileFails /\ (app[p].retrying \/ mark[p] = "LockFileUnavailable")
  <2>1. app[p].storage \notin BeforeTheOpen
    BY <1>1 DEF IInv, AppsStand, Stands, MayWrite, BeforeTheOpen
  <2> QED
    BY <1>1, <2>1 DEF IInv, AppsStand, Stands, MayWrite, Running
<1>2. ASSUME ~LockFileFails, NEW p \in Processes, NEW q \in Processes,
             MayWrite(p), MayWrite(q), ~app[p].taken_over, ~app[q].taken_over
      PROVE  p = q
  <2>1. mark[p] = "MarkedByThisInstance" /\ mark[q] = "MarkedByThisInstance"
    BY <1>1, <1>2
  <2> QED
    BY <2>1 DEF IInv, MarkStands, OwnerIsTheLockHolder
<1>3. ASSUME NEW p \in Processes, app[p].access = "ReadOnly"
      PROVE  /\ mark[p] \in {"NoDataDirectory", "Ended"}
             /\ app[p].archive # "Owner"
             /\ archive.deleter # p /\ archive.writer # p
  BY <1>3 DEF IInv, AppsStand, Stands, FilesStand
<1> QED
  BY <1>1, <1>2, <1>3 DEF OnlyATakeOverWritesBesideTheHolder

\* Who changed the archive, step by step.
LEMMA WhoDiscards ==
    ASSUME IInv, [StartNext]_startVars, NEW p \in Processes, DiscardsBy(p)
    PROVE  /\ StorageOpenThread(p)
           /\ app[p].access = "Owner" /\ app[p].plan \notin {"Decline", "LeaveClosed"}
<1>1. archive' # archive
  BY DEF DiscardsBy
<1>2. PICK q \in Processes :
          \/ BeginDelete(q) \/ EndDelete(q) \/ Ends(q) \/ StorageOpenThread(q)
  BY <1>1 DEF StartNext, startVars, Frame, User, wait_for_the_data_directory,
     adopt_finished_archive_inspection, adopt_finished_storage_open,
     retry_in_the_background, Start, TakeOverWriteAccess, start_read_only_session,
     RecordChoice, load_arriving_files, flush_settings, begin_shutdown_of,
     inspect_archives, Exit, Kill, shared
<1>3. ~BeginDelete(q)
  BY DEF BeginDelete, DiscardsBy
<1>4. ~EndDelete(q)
  <2> SUFFICES ASSUME EndDelete(q) PROVE FALSE
    OBVIOUS
  <2>1. archive.deleter = q /\ archive.writer = q
    BY NobodyAssumption DEF EndDelete, IInv, FilesStand
  <2>2. archive'.writer = archive.writer
    BY DEF EndDelete, IInv, FilesTyped
  <2> QED
    BY <2>1, <2>2 DEF DiscardsBy
<1>5. ~Ends(q)
  BY DEF Ends, DiscardsBy, IInv, FilesTyped
<1>6. StorageOpenThread(q) /\ app[q].access \in {"Owner", "ReadOnly"}
  BY <1>2, <1>3, <1>4, <1>5 DEF IInv, AppsStand, AppState
<1>7. /\ Discarded(q) /\ app[q].access = "Owner"
      /\ app[q].plan \notin {"Decline", "LeaveClosed"}
  BY <1>1, <1>6 DEF StorageOpenThread, open_archive
<1>8. archive'.writer = q
  BY <1>7 DEF Discarded, IInv, FilesTyped
<1> QED
  BY <1>6, <1>7, <1>8 DEF DiscardsBy

\* A process that took write access discards days only where its own inspection
\* found the interrupted delete and the user chose to recover, whatever deletes
\* other processes began, ended or left behind since
\* (adopt_finished_archive_inspection, open_archive).
THEOREM TakeOversAskFirst == StartSpec => TakenOverSessionsAskBeforeDiscarding
<1>1. ASSUME IInv, [StartNext]_startVars
      PROVE  [\A p \in Processes :
                 DiscardsBy(p) /\ app[p].taken_over
                     => app[p].finding = "Interrupted"]_startVars
  <2> SUFFICES ASSUME NEW p \in Processes, DiscardsBy(p), app[p].taken_over
               PROVE  app[p].finding = "Interrupted"
    OBVIOUS
  <2>1. /\ app[p].storage = "Opening"
        /\ app[p].plan \notin {"Decline", "LeaveClosed"}
    BY <1>1, WhoDiscards DEF StorageOpenThread
  <2> QED
    BY <1>1, <2>1 DEF IInv, AppsStand, Stands
<1>2. QED
  BY <1>1, Invariance, PTL DEF StartSpec, TakenOverSessionsAskBeforeDiscarding

\* While one process moves rows, no other writes the archive, whatever way the
\* others came to open it (open_archive, begin_delete).
THEOREM DeletesAreLeftAlone == StartSpec => RunningDeletesAreLeftAlone
<1>1. ASSUME IInv, [StartNext]_startVars
      PROVE  [archive.deleter # Nobody =>
                 \/ archive'.writer = archive.writer
                 \/ archive'.writer = archive.deleter]_startVars
  <2> SUFFICES ASSUME archive.deleter # Nobody, archive'.writer # archive.writer
               PROVE  FALSE
    OBVIOUS
  <2>1. PICK q \in Processes :
            \/ BeginDelete(q) \/ EndDelete(q) \/ Ends(q) \/ StorageOpenThread(q)
    BY <1>1 DEF StartNext, startVars, Frame, User, wait_for_the_data_directory,
       adopt_finished_archive_inspection, adopt_finished_storage_open,
       retry_in_the_background, Start, TakeOverWriteAccess, start_read_only_session,
       RecordChoice, load_arriving_files, flush_settings, begin_shutdown_of,
       inspect_archives, Exit, Kill, shared
  <2>2. ~BeginDelete(q)
    BY DEF BeginDelete
  <2>3. ~EndDelete(q) /\ ~Ends(q)
    BY <1>1 DEF EndDelete, Ends, IInv, FilesTyped
  <2>4. ~StorageOpenThread(q)
    BY DEF StorageOpenThread, open_archive, Discarded
  <2> QED
    BY <2>1, <2>2, <2>3, <2>4
<1>2. QED
  BY <1>1, Invariance, PTL DEF StartSpec, RunningDeletesAreLeftAlone

=============================================================================
