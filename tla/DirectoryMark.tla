--------------------------- MODULE DirectoryMark ----------------------------
(***************************************************************************)
(* The mark on the data directory (crates/gt-instance-lock): an exclusive  *)
(* advisory lock on instance.lock, kept on an open file descriptor, and    *)
(* the outcome each process caches of its last attempt to take it.         *)
(*                                                                         *)
(* The lock belongs to the operating system: it is free as soon as the     *)
(* process holding it is gone, however it went.  The cached outcome        *)
(* belongs to the process, and says nothing new until the process retries. *)
(***************************************************************************)

CONSTANTS
    Processes,  \* GeoTrace processes, each run once
    Nobody      \* the lock is free

ASSUME NobodyAssumption == Nobody \notin Processes

VARIABLES
    lock_holder,  \* the process whose descriptor has the lock
    mark          \* DataDirectoryMark of each process

markVars == <<lock_holder, mark>>

\* The outcomes that leave a directory to retry (directory_to_retry).
Retryable == {"HeldByAnotherInstance", "LockFileUnavailable"}

\* DataDirectoryOwnership, and a process before and after its run.
Ownerships ==
    Retryable \cup {"MarkedByThisInstance", "NoDataDirectory"}
              \cup {"NotStarted", "Ended"}

Running(p) == mark[p] \notin {"NotStarted", "Ended"}

MarkTypeOK ==
    /\ lock_holder \in Processes \cup {Nobody}
    /\ mark \in [Processes -> Ownerships]

MarkInit ==
    /\ lock_holder = Nobody
    /\ mark = [p \in Processes |-> "NotStarted"]

\* Slip: any error taking the lock is read as a lock file that cannot be used
\* and the run goes on as if it had the directory.
mark_of_AnyErrorIsMarked(p) ==
    /\ mark' = [mark EXCEPT ![p] = "MarkedByThisInstance"]
    /\ lock_holder' = IF lock_holder = Nobody THEN p ELSE lock_holder

\* DataDirectoryMark::of: take the lock, find it taken, or fail to open or
\* lock the file at all.
mark_of(p) ==
    \/ /\ lock_holder = Nobody
       /\ lock_holder' = p
       /\ mark' = [mark EXCEPT ![p] = "MarkedByThisInstance"]
    \/ /\ lock_holder # Nobody
       /\ mark' = [mark EXCEPT ![p] = "HeldByAnotherInstance"]
       /\ UNCHANGED lock_holder
    \/ /\ mark' = [mark EXCEPT ![p] = "LockFileUnavailable"]
       /\ UNCHANGED lock_holder

\* acquire, with a data directory or with none.
acquire_mark(p) ==
    /\ mark[p] = "NotStarted"
    /\ \/ mark_of(p)
       \/ /\ mark' = [mark EXCEPT ![p] = "NoDataDirectory"]
          /\ UNCHANGED lock_holder

\* Slip: only a lock file that would not open is tried again.
retry_mark_OnlyUnavailable(p) ==
    /\ mark[p] = "LockFileUnavailable"
    /\ mark_of(p)

\* retry_marking_the_data_directory.
retry_mark(p) ==
    /\ mark[p] \in Retryable
    /\ mark_of(p)

\* give_up_marking_the_data_directory; its debug_assert rules out a process
\* that holds the mark.
give_up_mark(p) ==
    /\ mark[p] \in Retryable
    /\ mark' = [mark EXCEPT ![p] = "NoDataDirectory"]
    /\ UNCHANGED lock_holder

\* The process is gone and the operating system closed its descriptors.
end_process(p) ==
    /\ mark' = [mark EXCEPT ![p] = "Ended"]
    /\ lock_holder' = IF lock_holder = p THEN Nobody ELSE lock_holder

-----------------------------------------------------------------------------

\* The cached outcome "marked" is right for as long as it is cached, and the
\* lock is held by a process that knows it: at most one live process owns the
\* directory, and nobody owns it without the operating system agreeing.
OwnerIsTheLockHolder ==
    \A p \in Processes : (mark[p] = "MarkedByThisInstance") <=> (lock_holder = p)

=============================================================================
