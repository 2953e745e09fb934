---------------------------- MODULE InstanceLock ----------------------------
(***************************************************************************)
(* The files beside the lock (crates/gt-instance-lock): the status the     *)
(* holder of the data directory keeps there, and the record a take-over    *)
(* leaves.  Each is replaced by writing a second file and renaming it over *)
(* the first, and each system call is a step other processes interleave    *)
(* with.  Inside one process the operations exclude each other (one        *)
(* mutex), so a process is in at most one of them.                         *)
(***************************************************************************)
EXTENDS DirectoryMark, Naturals, FiniteSets

CONSTANTS
    Absent,  \* there is no such file
    Half,    \* a file a reader cannot parse: truncated, or partly written
    MaxFailingProcesses  \* bound: processes whose writes or removals may fail

VARIABLES
    step,       \* what the process is in the middle of
    writing,    \* the file and contents of the replacement under way
    open,       \* which name the descriptor it writes through goes by now
    final,      \* file -> contents under its own name
    new,        \* file -> contents under its .new name
    shutdown,   \* processes that began shutting down
    wait,       \* the wait for the directory, and how it went on
    seen,       \* what a process last read of the status file
    io_failed   \* processes that had a write, a rename or a removal fail

fileVars == <<step, writing, open, final, new, shutdown, wait, seen,
              io_failed>>

lockVars == <<lock_holder, mark, step, writing, open, final, new, shutdown, wait,
          seen, io_failed>>

Files == {"status", "take_over"}

InstanceState == {"Running", "ShuttingDown"}

\* InstanceStatus without its list of writes and its clock reading.
Statuses == [process_id : Processes, state : InstanceState]

\* TakeOverRecord without its clock reading; Nobody where no status was read.
TakeOvers == [taken_by : Processes, taken_from : Processes \cup {Nobody}]

Contents == Statuses \cup TakeOvers

\* A file that cannot be parsed, or is not there, is no record.
ASSUME ContentsAssumption ==
    Half # Absent /\ {Half, Absent} \cap Contents = {}

Steps == {"Idle", "Opened", "Written", "Closing", "Exited", "Killed"}

LockTypeOK ==
    /\ MarkTypeOK
    /\ step \in [Processes -> Steps]
    /\ writing \in [Processes -> [file : Files, contents : Contents \cup {Absent}]]
    /\ open \in [Processes -> {"None", "New", "Final", "Unlinked"}]
    /\ final \in [Files -> Contents \cup {Absent, Half}]
    /\ new \in [Files -> Contents \cup {Absent, Half}]
    /\ shutdown \subseteq Processes
    /\ wait \in [Processes -> {"None", "Waiting", "TookOver"}]
    /\ seen \in [Processes -> Statuses \cup {Absent, Half}]
    /\ io_failed \subseteq Processes

NothingToWrite == [file |-> "status", contents |-> Absent]

LockInit ==
    /\ MarkInit
    /\ step = [p \in Processes |-> "Idle"]
    /\ writing = [p \in Processes |-> NothingToWrite]
    /\ open = [p \in Processes |-> "None"]
    /\ final = [f \in Files |-> Absent]
    /\ new = [f \in Files |-> Absent]
    /\ shutdown = {}
    /\ wait = [p \in Processes |-> "None"]
    /\ seen = [p \in Processes |-> Absent]
    /\ io_failed = {}

-----------------------------------------------------------------------------
(***************************************************************************)
(* replace_status_file and TakeOverRecord::replace_in.                     *)
(***************************************************************************)

\* fs::write creates or truncates the .new file and holds it open.
StartReplacing(p, file, contents) ==
    /\ step' = [step EXCEPT ![p] = "Opened"]
    /\ writing' = [writing EXCEPT ![p] = [file |-> file, contents |-> contents]]
    /\ open' = [open EXCEPT ![p] = "New"]
    /\ new' = [new EXCEPT ![file] = Half]

Rewriting(p) == writing[p].file

\* What a file holds after `contents` is written into it from its start:
\* over a file another process filled meanwhile, the longer of the two
\* records may stick out.
Overwritten(old, contents) ==
    IF old = Half THEN {contents} ELSE {contents, Half}

\* fs::write puts the bytes into the file it opened, whatever name that file
\* goes by now, and closes it.
WriteContents(p) ==
    /\ step[p] = "Opened"
    /\ step' = [step EXCEPT ![p] = "Written"]
    /\ open' = [open EXCEPT ![p] = "None"]
    /\ \/ /\ open[p] = "New"
          /\ \E c \in Overwritten(new[Rewriting(p)], writing[p].contents) :
                new' = [new EXCEPT ![Rewriting(p)] = c]
          /\ UNCHANGED final
       \/ /\ open[p] = "Final"
          /\ \E c \in Overwritten(final[Rewriting(p)], writing[p].contents) :
                final' = [final EXCEPT ![Rewriting(p)] = c]
          /\ UNCHANGED new
       \/ /\ open[p] = "Unlinked"
          /\ UNCHANGED <<final, new>>
    /\ UNCHANGED <<markVars, writing, shutdown, wait, seen, io_failed>>

DoneReplacing(p) ==
    /\ step' = [step EXCEPT ![p] = "Idle"]
    /\ writing' = [writing EXCEPT ![p] = NothingToWrite]

\* The name a descriptor of q on `file` goes by once .new is renamed over it.
NameAfterRename(q, file) ==
    IF open[q] = "None" \/ Rewriting(q) # file THEN open[q]
    ELSE IF open[q] = "New" THEN "Final" ELSE "Unlinked"

\* Slip: the .new file is copied over the old one, not renamed: a reader, or a
\* crash, may find the copy half done.
RenameOver_Copied(p) ==
    /\ step[p] = "Written"
    /\ \E copied \in {Half, new[Rewriting(p)]} :
          final' = [final EXCEPT ![Rewriting(p)] = copied]
    /\ DoneReplacing(p)
    /\ UNCHANGED <<markVars, new, open, shutdown, wait, seen, io_failed>>

\* fs::rename replaces the file in one step.  It fails where another process
\* renamed the .new file away meanwhile.
RenameOver(p) ==
    /\ step[p] = "Written"
    /\ \/ /\ new[Rewriting(p)] # Absent
          /\ final' = [final EXCEPT ![Rewriting(p)] = new[Rewriting(p)]]
          /\ new' = [new EXCEPT ![Rewriting(p)] = Absent]
          /\ open' = [q \in Processes |-> NameAfterRename(q, Rewriting(p))]
          /\ UNCHANGED io_failed
       \/ /\ new[Rewriting(p)] = Absent
          /\ io_failed' = io_failed \cup {p}
          /\ UNCHANGED <<final, new, open>>
    /\ DoneReplacing(p)
    /\ UNCHANGED <<markVars, shutdown, wait, seen>>

\* One more process may be one whose file operations fail.
MayFail(p) == Cardinality(io_failed \cup {p}) <= MaxFailingProcesses

\* The write or the rename fails (a full disk): logged, and the run goes on.
ReplacingFails(p) ==
    /\ step[p] \in {"Opened", "Written"}
    /\ MayFail(p)
    /\ DoneReplacing(p)
    /\ open' = [open EXCEPT ![p] = "None"]
    /\ io_failed' = io_failed \cup {p}
    /\ UNCHANGED <<markVars, final, new, shutdown, wait, seen>>

-----------------------------------------------------------------------------
(***************************************************************************)
(* The operations of DataDirectoryLock.                                    *)
(***************************************************************************)

Idle(p) == Running(p) /\ step[p] = "Idle"

write_status(p, state) ==
    StartReplacing(p, "status", [process_id |-> p, state |-> state])

\* Slip: only the first attempt to take the mark is followed by the report.
ReportIfMarked_NotWhileWaiting(p) ==
    IF mark'[p] = "MarkedByThisInstance" /\ wait[p] = "None"
    THEN write_status(p, "Running")
    ELSE UNCHANGED <<step, writing, open, new>>

\* A mark just taken is followed by the status "Running" in the same call.
ReportIfMarked(p) ==
    IF mark'[p] = "MarkedByThisInstance"
    THEN write_status(p, "Running")
    ELSE UNCHANGED <<step, writing, open, new>>

\* Only a run that found another instance waits (GeoTrace::new): one whose
\* lock file would not open goes on without the mark, and never retries it.
acquire(p) ==
    /\ acquire_mark(p)
    /\ ReportIfMarked(p)
    /\ wait' = IF mark'[p] = "HeldByAnotherInstance"
               THEN [wait EXCEPT ![p] = "Waiting"] ELSE wait
    /\ UNCHANGED <<final, shutdown, seen, io_failed>>

\* The wait retries, and so does the run that took write access over, until
\* its own shutdown begins.
retry_marking_the_data_directory(p) ==
    /\ Idle(p)
    /\ wait[p] # "None"
    /\ p \notin shutdown
    /\ retry_mark(p)
    /\ ReportIfMarked(p)
    /\ UNCHANGED <<final, shutdown, wait, seen, io_failed>>

\* The user starts the session read-only.
give_up_marking_the_data_directory(p) ==
    /\ Idle(p)
    /\ wait[p] = "Waiting"
    /\ p \notin shutdown
    /\ give_up_mark(p)
    /\ wait' = [wait EXCEPT ![p] = "None"]
    /\ UNCHANGED <<step, writing, open, final, new, shutdown, seen, io_failed>>

\* The read is allowed by the cached outcome, not by the lock.
status_of_the_holding_instance(p) ==
    /\ Idle(p)
    /\ mark[p] = "HeldByAnotherInstance"
    /\ seen' = [seen EXCEPT ![p] = final["status"]]
    /\ UNCHANGED <<markVars, step, writing, open, final, new, shutdown, wait,
                   io_failed>>

\* Slip: what was read is recorded as it is, parsed or not.
ProcessSeen_AsRead(p) == seen[p]

ProcessSeen(p) == IF seen[p] \in Statuses THEN seen[p].process_id ELSE Nobody

\* The app records a take-over while it waits for the directory, and then
\* waits no longer.
record_take_over(p) ==
    /\ Idle(p)
    /\ p \notin shutdown
    /\ wait[p] = "Waiting"
    /\ wait' = [wait EXCEPT ![p] = "TookOver"]
    /\ mark[p] \in Retryable
    /\ StartReplacing(p, "take_over",
                      [taken_by |-> p, taken_from |-> ProcessSeen(p)])
    /\ UNCHANGED <<markVars, final, shutdown, seen, io_failed>>

\* mark_shutting_down writes the first report, report_shutdown_progress the
\* later ones; a process without the mark writes none.
mark_shutting_down(p) ==
    /\ Idle(p)
    /\ shutdown' = shutdown \cup {p}
    /\ IF mark[p] = "MarkedByThisInstance"
       THEN write_status(p, "ShuttingDown")
       ELSE UNCHANGED <<step, writing, open, new>>
    /\ UNCHANGED <<markVars, final, wait, seen, io_failed>>

\* Slip: the lock is closed first, the status file removed after it.
remove_status_LockFirst(p) ==
    /\ Idle(p)
    /\ mark[p] = "MarkedByThisInstance"
    /\ step' = [step EXCEPT ![p] = "Closing"]
    /\ lock_holder' = Nobody
    /\ mark' = [mark EXCEPT ![p] = "NoDataDirectory"]
    /\ UNCHANGED <<writing, open, final, new, shutdown, wait, seen, io_failed>>

\* Drop for MarkedDataDirectory: the status file goes first...
remove_status(p) ==
    /\ Idle(p)
    /\ mark[p] = "MarkedByThisInstance"
    /\ step' = [step EXCEPT ![p] = "Closing"]
    /\ \/ final' = [final EXCEPT !["status"] = Absent] /\ UNCHANGED io_failed
       \/ MayFail(p) /\ io_failed' = io_failed \cup {p} /\ UNCHANGED final
    /\ UNCHANGED <<markVars, writing, open, new, shutdown, wait, seen>>

\* What the process had in memory is gone with it.
ForgetMemory(p) ==
    /\ writing' = [writing EXCEPT ![p] = NothingToWrite]
    /\ open' = [open EXCEPT ![p] = "None"]
    /\ shutdown' = shutdown \ {p}
    /\ wait' = [wait EXCEPT ![p] = "None"]
    /\ seen' = [seen EXCEPT ![p] = Absent]

\* ...and the lock file closes after it.
close_lock(p) ==
    /\ \/ step[p] = "Closing"
       \/ Idle(p) /\ mark[p] # "MarkedByThisInstance"
    /\ end_process(p)
    /\ step' = [step EXCEPT ![p] = "Exited"]
    /\ ForgetMemory(p)
    /\ UNCHANGED <<final, new, io_failed>>

\* A crash, or process::exit, which runs no destructor: at any step.
Killed(p) ==
    /\ Running(p)
    /\ end_process(p)
    /\ step' = [step EXCEPT ![p] = "Killed"]
    /\ ForgetMemory(p)
    /\ UNCHANGED <<final, new, io_failed>>

-----------------------------------------------------------------------------

ProcessStep(p) ==
    \/ acquire(p)
    \/ retry_marking_the_data_directory(p)
    \/ give_up_marking_the_data_directory(p)
    \/ status_of_the_holding_instance(p)
    \/ record_take_over(p)
    \/ mark_shutting_down(p)
    \/ WriteContents(p)
    \/ RenameOver(p)
    \/ ReplacingFails(p)
    \/ remove_status(p)
    \/ close_lock(p)
    \/ Killed(p)

LockNext == \E p \in Processes : ProcessStep(p)

LockSpec == LockInit /\ [][LockNext]_lockVars

-----------------------------------------------------------------------------

\* "A reader never finds half a status": instance-status.json parses at every
\* moment, through crashes and failed writes, because one process at a time
\* replaces it.
StatusIsNeverHalf == final["status"] # Half

\* A status file names the process that holds the directory.  One that names
\* another process was left by a process that was killed, or that could not
\* write or remove its files: a clean exit leaves nothing behind.
StatusOutlivesOnlyTheKilled ==
    \A q \in Processes :
        (/\ final["status"] \in Statuses
         /\ final["status"].process_id = q
         /\ lock_holder # q)
        => step[q] = "Killed" \/ q \in io_failed

\* While the holder is between operations its status file says what it is
\* doing: its own process id, and "ShuttingDown" once it is.
StatusTellsTheHolder ==
    \A p \in Processes :
        (lock_holder = p /\ step[p] = "Idle" /\ p \notin io_failed)
        => final["status"] = [process_id |-> p,
                              state |-> IF p \in shutdown THEN "ShuttingDown"
                                                          ELSE "Running"]

=============================================================================
