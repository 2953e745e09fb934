------------------------------ MODULE StartUp -------------------------------
(***************************************************************************)
(* From a started process to open databases (src/app/instance_wait.rs,     *)
(* src/app/archive_recovery.rs, src/app/storage.rs): the wait for the data *)
(* directory, the ways out of it, the prompts about interrupted deletes,   *)
(* the open on a thread of its own, and the loads that queue up meanwhile. *)
(*                                                                         *)
(* The processes share the directory's mark, one day archive and the       *)
(* settings file.  The archive is reduced to what an open reads of it: its *)
(* delete-in-flight mark (module DayArchive) and the process that has the  *)
(* file locked while a delete moves its rows.                              *)
(***************************************************************************)
EXTENDS DirectoryMark, Naturals, Sequences

CONSTANTS
    LockFileFails,  \* whether instance.lock may fail to open or lock
    UnusableRetries,\* UNUSABLE_LOCK_FILE_RETRIES_BEFORE_THE_WAIT_ENDS
    MaxDeletes,     \* bound: deletes begun in one behaviour
    MaxLoads        \* bound: loads arriving at one process

ASSUME BoundsAssumption ==
    /\ LockFileFails \in BOOLEAN
    /\ UnusableRetries \in Nat \ {0}
    /\ MaxDeletes \in Nat
    /\ MaxLoads \in Nat

VARIABLES
    app,        \* what each process keeps
    archive,    \* the archive file: its mark, who is deleting, who wrote last
    settings,   \* the process config.toml was last written by
    deletes     \* how many deletes began

startVars == <<lock_holder, mark, app, archive, settings, deletes>>

Plans == {"None", "Automatic", "Recover", "Decline", "LeaveClosed"}

StartTypeOK ==
    /\ MarkTypeOK
    /\ app \in [Processes ->
         [storage : {"NotStarted", "Waiting", "Inspecting", "Asking",
                     "Opening", "Finished"},
          landed : BOOLEAN,         \* the background thread sent its result
          finding : {"None", "Interrupted", "Held"},
          plan : Plans,
          archive : {"None", "Owner", "ReadOnly"},
          access : {"Owner", "ReadOnly"},
          taken_over : BOOLEAN,     \* instance_taken_over_from
          retrying : BOOLEAN,       \* background_mark_retry
          unusable : 0..UnusableRetries - 1,
          closing : BOOLEAN,        \* shutdown.has_begun
          queued : Seq(1..MaxLoads),
          loaded : Seq(1..MaxLoads)]]
    /\ archive \in [state : {"Settled", "InFlight"},
                    deleter : Processes \cup {Nobody},
                    writer : Processes \cup {Nobody}]
    /\ settings \in Processes \cup {Nobody}
    /\ deletes \in 0..MaxDeletes

StartInit ==
    /\ MarkInit
    /\ app = [p \in Processes |->
         [storage |-> "NotStarted", landed |-> FALSE, finding |-> "None",
          plan |-> "None", archive |-> "None", access |-> "Owner",
          taken_over |-> FALSE, retrying |-> FALSE, unusable |-> 0,
          closing |-> FALSE, queued |-> <<>>, loaded |-> <<>>]]
    /\ archive \in [state : {"Settled", "InFlight"}, deleter : {Nobody},
                    writer : {Nobody}]
    /\ settings = Nobody
    /\ deletes = 0

-----------------------------------------------------------------------------

Change(p, new) == app' = [app EXCEPT ![p] = new]

shared == <<archive, settings, deletes>>

\* The process is up and its window paints the app, not the shutdown.
InUse(p) == Running(p) /\ ~app[p].closing

\* open_in_background_under: the databases open on a thread of their own.
Opening(a, plan) ==
    [a EXCEPT !.storage = "Opening", !.landed = FALSE, !.plan = plan]

LockFileOutcome(p) == LockFileFails \/ mark'[p] # "LockFileUnavailable"

\* Slip: the databases open whatever became of the mark.
Start_OpensWhileHeld(p) ==
    /\ acquire_mark(p)
    /\ mark'[p] # "NoDataDirectory"
    /\ LockFileOutcome(p)
    /\ Change(p, Opening(app[p], "Automatic"))
    /\ UNCHANGED shared

\* main and App::new: the mark is taken before the window, and only a
\* directory another instance holds is waited for.
Start(p) ==
    /\ acquire_mark(p)
    /\ mark'[p] # "NoDataDirectory"
    /\ LockFileOutcome(p)
    /\ Change(p, IF mark'[p] = "HeldByAnotherInstance"
                 THEN [app[p] EXCEPT !.storage = "Waiting"]
                 ELSE Opening(app[p], "Automatic"))
    /\ UNCHANGED shared

\* open_the_databases_without_the_mark.
open_without_the_mark(a, taken_over) ==
    [a EXCEPT !.storage = "Inspecting", !.landed = FALSE,
              !.taken_over = taken_over, !.retrying = TRUE]

\* Slip: the wait goes on for one failure past the limit.
wait_for_the_data_directory_OneTooMany(p) ==
    /\ InUse(p)
    /\ app[p].storage = "Waiting"
    /\ retry_mark(p)
    /\ LockFileOutcome(p)
    /\ Change(p, IF mark'[p] = "MarkedByThisInstance"
                 THEN Opening(app[p], "Automatic")
                 ELSE IF mark'[p] = "HeldByAnotherInstance"
                 THEN [app[p] EXCEPT !.unusable = 0]
                 ELSE IF app[p].unusable + 1 <= UnusableRetries
                 THEN [app[p] EXCEPT !.unusable = @ + 1]
                 ELSE open_without_the_mark(app[p], FALSE))
    /\ UNCHANGED shared

\* wait_for_the_data_directory, the retry of it (outcome_of_a_fresh_read).
wait_for_the_data_directory(p) ==
    /\ InUse(p)
    /\ app[p].storage = "Waiting"
    /\ retry_mark(p)
    /\ LockFileOutcome(p)
    /\ \/ /\ mark'[p] = "MarkedByThisInstance"
          /\ Change(p, Opening(app[p], "Automatic"))
       \/ /\ mark'[p] = "HeldByAnotherInstance"
          /\ Change(p, [app[p] EXCEPT !.unusable = 0])
       \/ /\ mark'[p] = "LockFileUnavailable"
          /\ app[p].unusable + 1 < UnusableRetries
          /\ Change(p, [app[p] EXCEPT !.unusable = @ + 1])
       \/ /\ mark'[p] = "LockFileUnavailable"
          /\ app[p].unusable + 1 = UnusableRetries
          /\ Change(p, open_without_the_mark(app[p], FALSE))
    /\ UNCHANGED shared

\* The user's ways out of the wait.
TakeOverWriteAccess(p) ==
    /\ InUse(p)
    /\ app[p].storage = "Waiting"
    /\ Change(p, open_without_the_mark(app[p], TRUE))
    /\ UNCHANGED <<markVars, shared>>

\* Slip: the mark is not given up, and a background retry stays armed.
start_read_only_session_KeepsRetrying(p) ==
    /\ InUse(p)
    /\ app[p].storage = "Waiting"
    /\ Change(p, [Opening(app[p], "Automatic")
                    EXCEPT !.access = "ReadOnly", !.retrying = TRUE])
    /\ UNCHANGED <<markVars, shared>>

start_read_only_session(p) ==
    /\ InUse(p)
    /\ app[p].storage = "Waiting"
    /\ give_up_mark(p)
    /\ Change(p, [Opening(app[p], "Automatic") EXCEPT !.access = "ReadOnly"])
    /\ UNCHANGED shared

\* retry_marking_the_data_directory_in_the_background.
retry_in_the_background(p) ==
    /\ InUse(p)
    /\ app[p].retrying
    /\ retry_mark(p)
    /\ LockFileOutcome(p)
    /\ Change(p, [app[p] EXCEPT !.retrying = mark'[p] # "MarkedByThisInstance"])
    /\ UNCHANGED shared

-----------------------------------------------------------------------------
\* The archive inspection and its prompts.

\* The archive-inspect thread reads the archive and writes nothing.  A file
\* locked by a delete is found held; the mark is read otherwise.
inspect_archives(p) ==
    /\ Running(p)
    /\ app[p].storage = "Inspecting" /\ ~app[p].landed
    /\ Change(p, [app[p] EXCEPT !.landed = TRUE,
                                !.finding = IF archive.deleter # Nobody THEN "Held"
                                            ELSE IF archive.state = "InFlight"
                                            THEN "Interrupted" ELSE "None"])
    /\ UNCHANGED <<markVars, shared>>

\* Slip: an archive the inspection found nothing in is opened as on a normal
\* start.
adopt_finished_archive_inspection_Recovering(p) ==
    /\ InUse(p)
    /\ app[p].storage = "Inspecting" /\ app[p].landed
    /\ Change(p, IF app[p].finding = "None" THEN Opening(app[p], "Recover")
                 ELSE [app[p] EXCEPT !.storage = "Asking", !.landed = FALSE])
    /\ UNCHANGED <<markVars, shared>>

\* adopt_finished_archive_inspection: an archive nothing was found in is
\* opened at once, declining whatever delete it holds by then.
adopt_finished_archive_inspection(p) ==
    /\ InUse(p)
    /\ app[p].storage = "Inspecting" /\ app[p].landed
    /\ Change(p, IF app[p].finding = "None" THEN Opening(app[p], "Decline")
                 ELSE [app[p] EXCEPT !.storage = "Asking", !.landed = FALSE])
    /\ UNCHANGED <<markVars, shared>>

\* show_interrupted_delete_prompts: the choice about the archive, which was
\* the only one to ask about.
RecordChoice(p) ==
    /\ InUse(p)
    /\ app[p].storage = "Asking"
    /\ \/ /\ app[p].finding = "Interrupted"
          /\ Change(p, Opening(app[p], "Recover"))
       \/ Change(p, Opening(app[p], "LeaveClosed"))
    /\ UNCHANGED <<markVars, shared>>

-----------------------------------------------------------------------------
\* The open.

Discarded(p) == archive' = [archive EXCEPT !.state = "Settled", !.writer = p]

\* Slip: the file is opened whether or not another process has it locked.
open_archive_LockIgnored(p) ==
    /\ Change(p, [app[p] EXCEPT !.landed = TRUE, !.archive = app[p].access])
    /\ IF app[p].access = "Owner" /\ app[p].plan \in {"Automatic", "Recover"}
       THEN Discarded(p) ELSE UNCHANGED archive

\* open_archive on the storage-open thread.  A file another process has locked
\* and a delete the open may not recover both leave the app without it.
open_archive(p) ==
    LET unavailable == \/ archive.deleter # Nobody
                       \/ /\ app[p].access = "Owner"
                          /\ app[p].plan = "LeaveClosed"
        declined    == app[p].access = "ReadOnly" \/ app[p].plan = "Decline"
        lands(handle) ==
            Change(p, [app[p] EXCEPT !.landed = TRUE, !.archive = handle])
    IN  \/ /\ unavailable \/ (declined /\ archive.state = "InFlight")
           /\ lands("None")
           /\ UNCHANGED archive
        \/ /\ ~unavailable /\ archive.state = "Settled"
           /\ lands(app[p].access)
           /\ UNCHANGED archive
        \/ /\ ~unavailable /\ ~declined /\ archive.state = "InFlight"
           /\ lands("Owner")
           /\ Discarded(p)

\* Slip: the open waits until this process has the directory.
StorageOpenThread_WaitsForTheMark(p) ==
    /\ Running(p)
    /\ app[p].storage = "Opening" /\ ~app[p].landed
    /\ mark[p] = "MarkedByThisInstance"
    /\ open_archive(p)
    /\ UNCHANGED <<markVars, settings, deletes>>

StorageOpenThread(p) ==
    /\ Running(p)
    /\ app[p].storage = "Opening" /\ ~app[p].landed
    /\ open_archive(p)
    /\ UNCHANGED <<markVars, settings, deletes>>

\* adopt_finished_storage_open: the databases are installed and the queued
\* loads start, or everything is dropped because the app is closing.
adopt_finished_storage_open(p) ==
    /\ Running(p)
    /\ app[p].storage = "Opening" /\ app[p].landed
    /\ Change(p, IF app[p].closing
                 THEN [app[p] EXCEPT !.storage = "Finished", !.archive = "None",
                                     !.queued = <<>>]
                 ELSE [app[p] EXCEPT !.storage = "Finished", !.queued = <<>>,
                                     !.loaded = @ \o app[p].queued])
    /\ UNCHANGED <<markVars, shared>>

\* load_arriving_files.
load_arriving_files(p) ==
    LET next == Len(app[p].queued) + Len(app[p].loaded) + 1
    IN  /\ InUse(p)
        /\ next <= MaxLoads
        /\ Change(p, IF app[p].storage = "Finished"
                     THEN [app[p] EXCEPT !.loaded = Append(@, next)]
                     ELSE [app[p] EXCEPT !.queued = Append(@, next)])
        /\ UNCHANGED <<markVars, shared>>

-----------------------------------------------------------------------------
\* The session: deletes, settings and the end of it.

\* A delete registers its write, then locks the file and marks it.
BeginDelete(p) ==
    /\ InUse(p)
    /\ app[p].storage = "Finished" /\ app[p].archive = "Owner"
    /\ app[p].access = "Owner"
    /\ deletes < MaxDeletes
    /\ archive.deleter = Nobody
    /\ deletes' = deletes + 1
    /\ archive' = [state |-> "InFlight", deleter |-> p, writer |-> p]
    /\ UNCHANGED <<markVars, app, settings>>

\* The delete ends, or fails part-way with the session going on.
EndDelete(p) ==
    /\ archive.deleter = p
    /\ \E state \in {"Settled", "InFlight"} :
          archive' = [archive EXCEPT !.state = state, !.deleter = Nobody]
    /\ UNCHANGED <<markVars, app, settings, deletes>>

took_write_access_from_an_instance_that_still_holds_the_mark(p) ==
    app[p].taken_over /\ app[p].retrying

flush_settings(p) ==
    /\ InUse(p)
    /\ app[p].access = "Owner"
    /\ ~took_write_access_from_an_instance_that_still_holds_the_mark(p)
    /\ settings' = p
    /\ UNCHANGED <<markVars, app, archive, deletes>>

\* begin_shutdown_of with flush_settings_during_shutdown.
begin_shutdown_of(p) ==
    /\ InUse(p)
    /\ Change(p, [app[p] EXCEPT !.closing = TRUE])
    /\ settings' = IF app[p].access = "Owner" THEN p ELSE settings
    /\ UNCHANGED <<markVars, archive, deletes>>

\* A write guard keeps the process up: the open's own, and a delete's.
HasAWriteGuard(p) ==
    \/ archive.deleter = p
    \/ app[p].storage = "Opening" /\ ~app[p].landed /\ app[p].access = "Owner"

\* The process ends, taking its file lock with it.
Ends(p) ==
    /\ Running(p)
    /\ end_process(p)
    /\ archive' = IF archive.deleter = p
                  THEN [archive EXCEPT !.deleter = Nobody] ELSE archive
    /\ UNCHANGED <<app, settings, deletes>>

Exit(p) == app[p].closing /\ ~HasAWriteGuard(p) /\ Ends(p)

Kill(p) == Ends(p)

-----------------------------------------------------------------------------

Frame(p) ==
    \/ wait_for_the_data_directory(p)
    \/ adopt_finished_archive_inspection(p)
    \/ adopt_finished_storage_open(p)
    \/ retry_in_the_background(p)

User(p) ==
    \/ Start(p)
    \/ TakeOverWriteAccess(p)
    \/ start_read_only_session(p)
    \/ RecordChoice(p)
    \/ load_arriving_files(p)
    \/ BeginDelete(p)
    \/ flush_settings(p)
    \/ begin_shutdown_of(p)

StartNext ==
    \E p \in Processes :
        \/ Frame(p)
        \/ User(p)
        \/ inspect_archives(p)
        \/ StorageOpenThread(p)
        \/ EndDelete(p)
        \/ Exit(p)
        \/ Kill(p)

StartSpec == StartInit /\ [][StartNext]_startVars

\* A frame is painted again and again, a background thread runs to its end,
\* and so does a delete.  Nothing is assumed of the user: who is asked may
\* never answer.
StartFairness ==
    \A p \in Processes :
        /\ WF_startVars(adopt_finished_archive_inspection(p))
        /\ WF_startVars(adopt_finished_storage_open(p))
        /\ WF_startVars(inspect_archives(p))
        /\ WF_startVars(StorageOpenThread(p))
        /\ WF_startVars(EndDelete(p))
        /\ WF_startVars(wait_for_the_data_directory(p))

FairStartSpec == StartSpec /\ StartFairness

-----------------------------------------------------------------------------

\* A process that may write to the databases: it has the archive open to write
\* or an open under way that may repair it.
MayWrite(p) ==
    /\ Running(p)
    /\ app[p].access = "Owner"
    /\ app[p].archive = "Owner" \/ app[p].storage = "Opening"

\* "Nothing is opened while another instance holds the data directory" (app.rs)
\* and the exceptions to it: a process writes without the mark only where the
\* user took write access or the lock file failed, and of the others at most
\* one writes at a time.
OnlyATakeOverWritesBesideTheHolder ==
    /\ \A p \in Processes : MayWrite(p) =>
          \/ mark[p] = "MarkedByThisInstance"
          \/ app[p].taken_over
          \/ LockFileFails /\ (app[p].retrying \/ mark[p] = "LockFileUnavailable")
    /\ ~LockFileFails =>
          \A p, q \in Processes :
              /\ MayWrite(p) /\ MayWrite(q)
              /\ ~app[p].taken_over /\ ~app[q].taken_over
              => p = q
    /\ \A p \in Processes : app[p].access = "ReadOnly" =>
          /\ mark[p] \in {"NoDataDirectory", "Ended"}
          /\ app[p].archive # "Owner"
          /\ archive.deleter # p /\ archive.writer # p

\* "One that appeared since the inspection read the archives is not recovered
\* without a choice from the user": a process that took write access discards
\* no days unless its own inspection found the interrupted delete, whatever
\* other processes did to the archive since.
DiscardsBy(p) ==
    /\ archive.state = "InFlight" /\ archive'.state = "Settled"
    /\ archive.deleter # p /\ archive'.writer = p

TakenOverSessionsAskBeforeDiscarding ==
    [][\A p \in Processes :
          DiscardsBy(p) /\ app[p].taken_over => app[p].finding = "Interrupted"]_startVars

\* A delete under way in one process is never recovered from by another: only
\* the process that is moving the rows changes the archive meanwhile.
RunningDeletesAreLeftAlone ==
    [][archive.deleter # Nobody =>
          \/ archive'.writer = archive.writer
          \/ archive'.writer = archive.deleter]_startVars

\* Whatever the other processes do, an inspection or an open that began ends
\* with the user asked or the databases landed, unless the process closes.
OpensEnd ==
    \A p \in Processes :
        app[p].storage \in {"Inspecting", "Opening"}
            ~> \/ app[p].storage \in {"Asking", "Finished"}
               \/ app[p].closing
               \/ ~Running(p)

\* A waiting process does not miss that the directory became free: if from
\* some point on nobody else takes the lock, the wait ends.
WaitEndsOnceTheDirectoryIsFree ==
    \A p \in Processes :
        <>[](lock_holder \in {Nobody, p})
        => [](app[p].storage = "Waiting"
               => <>(\/ app[p].storage # "Waiting"
                     \/ app[p].closing
                     \/ ~Running(p)))

=============================================================================
