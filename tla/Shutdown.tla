------------------------------ MODULE Shutdown ------------------------------
(***************************************************************************)
(* Ending a run: src/app/shutdown.rs, the termination signal flag, the     *)
(* ends of the history worker and of the database open, and the wait in    *)
(* main that outlives the window.                                          *)
(*                                                                         *)
(* The GUI thread runs frames; `at` is the next thing it reads from, or    *)
(* tells, another thread, and everything between two such points is one    *)
(* step.  The other threads are the open of the databases, the history     *)
(* worker, the threads that join it, background writers, and the thread    *)
(* that takes termination signals.  The registry of writes is used through *)
(* its specification, WriteDrain.                                          *)
(***************************************************************************)
EXTENDS Naturals

CONSTANTS
    Writers,      \* threads writing in the background (fetches, snap runs)
    MaxSignals,   \* bound: termination signals sent to the run
    MaxRequests   \* bound: requests in the history worker's channel

ASSUME BoundsAssumption == MaxSignals \in Nat /\ MaxRequests \in Nat

VARIABLES
    writing, closed, forbidden, report,  \* the registry, as in WriteDrain
    raised,        \* TerminationSignalFlag::raised
    already_read,  \* TerminationSignalFlag::already_read
    signals,       \* signals sent so far
    at,            \* where the main thread, which runs the frames, is
    close_request, \* the close request the next frame sees
    closing,       \* this frame's close request was not cancelled
    begun,         \* ShutdownState::begun_at is set
    grace,         \* SHUTDOWN_WINDOW_GRACE elapsed since
    window_up,     \* ShutdownState::shutdown_window_is_up
    close_allowed, \* ShutdownState::close_allowed
    prompt,        \* ForceQuitPrompt
    opener,        \* the storage-open thread
    storage,       \* StorageOpen, from the open on
    worker,        \* who owns the HistoryWorker that has a thread
    thread,        \* the history-db thread
    sender,        \* the worker's request sender is alive
    receiver,      \* the worker's response receiver is alive
    queue,         \* requests in the channel
    joiner,        \* the history-db-shutdown threads
    spawn_failed,  \* one of those could not be spawned
    native_failed, \* eframe::run_native returned an error
    exit           \* how the process ended

registry == <<writing, closed, forbidden, report>>
flag     == <<raised, already_read>>
frame    == <<close_request, closing>>
shutdown == <<begun, grace, window_up, close_allowed, prompt>>
open     == <<opener, storage>>
history  == <<worker, thread, sender, receiver, queue>>
joining  == <<joiner, spawn_failed>>
ending   == <<native_failed, exit>>

vars == <<registry, flag, signals, at, frame, shutdown, open, history,
          joining, ending>>

\* begin_shutdown ends the app's worker, the other one a worker that lands
\* after it.
Joiners == {"joiner", "late_joiner"}

Threads == Writers \cup Joiners \cup {"gui", "opener", "history"}

ASSUME WritersAssumption ==
    Writers \cap (Joiners \cup {"gui", "opener", "history"}) = {}

Registry == INSTANCE WriteDrain

FrameSteps == {"FrameStart", "RejectWrites", "FlushSettings", "Flushing",
               "EndHistory", "CloseRequest", "Contents", "WindowResults",
               "ShutdownWindow", "CloseCheck", "Results", "NormalUi"}

TypeOK ==
    /\ writing \subseteq Threads
    /\ closed \in BOOLEAN /\ forbidden \in BOOLEAN
    /\ report \in {"NotAsked", "Idle", "Busy"}
    /\ raised \in BOOLEAN /\ already_read \in BOOLEAN
    /\ signals \in 0..MaxSignals
    /\ at \in FrameSteps \cup {"DropApp", "JoinHistory", "MainBegin",
                               "MainWait", "MainSignal", "Exited"}
    /\ close_request \in BOOLEAN /\ closing \in BOOLEAN
    /\ begun \in BOOLEAN /\ grace \in BOOLEAN /\ window_up \in BOOLEAN
    /\ close_allowed \in BOOLEAN
    /\ prompt \in {"Closed", "Listing", "Reporting"}
    /\ opener \in {"Opening", "Sent", "Joining", "Done"}
    /\ storage \in {"Opening", "Landed", "Finished"}
    /\ worker \in {"None", "Channel", "App", "Opener", "Detached"} \cup Joiners
    /\ thread \in {"None", "Receiving", "Handling", "Answering", "Gone"}
    /\ sender \in BOOLEAN /\ receiver \in BOOLEAN
    /\ queue \in 0..MaxRequests
    /\ joiner \in [Joiners -> {"NotSpawned", "Spawned", "Joining", "Done"}]
    /\ spawn_failed \in BOOLEAN /\ native_failed \in BOOLEAN
    /\ exit \in {"Running", "Success", "Failure", "SecondSignal", "ForceQuit"}

\* A window that just opened, over databases still opening.  A read-only
\* session registers no write for the open.
Init ==
    /\ forbidden \in BOOLEAN
    /\ writing = (IF forbidden THEN {} ELSE {"opener"})
    /\ closed = FALSE /\ report = "NotAsked"
    /\ raised = FALSE /\ already_read = FALSE /\ signals = 0
    /\ at = "FrameStart"
    /\ close_request = FALSE /\ closing = FALSE
    /\ begun = FALSE /\ grace = FALSE /\ window_up = FALSE
    /\ close_allowed = FALSE /\ prompt = "Closed"
    /\ opener = "Opening" /\ storage = "Opening"
    /\ worker = "None" /\ thread = "None"
    /\ sender = FALSE /\ receiver = FALSE /\ queue = 0
    /\ joiner = [j \in Joiners |-> "NotSpawned"] /\ spawn_failed = FALSE
    /\ native_failed = FALSE /\ exit = "Running"

Alive == at # "Exited"

\* The guard drops where one was granted; a read-only session has none.
DropGuardOf(t) ==
    IF t \in writing THEN Registry!Finish(t) ELSE UNCHANGED registry

-----------------------------------------------------------------------------
(***************************************************************************)
(* The threads beside the main thread.                                     *)
(***************************************************************************)

\* for _signal in &mut signals: two signals between two reads are one.
raise ==
    /\ Alive
    /\ signals < MaxSignals
    /\ signals' = signals + 1
    /\ raised' = TRUE
    /\ UNCHANGED <<registry, already_read, at, frame, shutdown, open, history,
                   joining, ending>>

WriterStep(w) ==
    /\ Alive
    /\ Registry!BeginBackgroundWrite(w) \/ Registry!Finish(w)
    /\ UNCHANGED <<flag, signals, at, frame, shutdown, open, history, joining,
                   ending>>

\* A worker with a thread behind it starts out waiting for requests.
SpawnWorker(owner) ==
    /\ worker' = owner
    /\ thread' = "Receiving"
    /\ sender' = TRUE
    /\ receiver' = TRUE
    /\ queue' = 0

\* The channel's receiver lives in StorageOpen, and goes with the app.
AppIsGone == at \in {"JoinHistory", "MainBegin", "MainWait", "MainSignal"}

\* open_under returned, with a recordings database or with none, and the
\* result is sent.  Where nobody is left to receive it, it is dropped here,
\* and the worker in it joined.
OpenReports ==
    /\ Alive
    /\ opener = "Opening"
    /\ \/ UNCHANGED history
       \/ ~AppIsGone /\ SpawnWorker("Channel")
       \/ /\ AppIsGone
          /\ worker' = "Opener" /\ thread' = "Receiving"
          /\ sender' = FALSE /\ UNCHANGED <<receiver, queue>>
    /\ storage' = IF AppIsGone THEN storage ELSE "Landed"
    /\ opener' = IF worker' = "Opener" THEN "Joining" ELSE "Sent"
    /\ UNCHANGED <<registry, flag, signals, at, frame, shutdown, joining, ending>>

\* drop(open_write), last.
OpenEnds ==
    /\ Alive
    /\ opener = "Sent" \/ (opener = "Joining" /\ thread = "Gone")
    /\ opener' = "Done"
    /\ DropGuardOf("opener")
    /\ UNCHANGED <<flag, signals, at, frame, shutdown, storage, history,
                   joining, ending>>

\* Slip: the loop polls the channel and runs whatever it finds.
TakeRequest_WithoutOne ==
    /\ thread = "Receiving"
    /\ thread' = "Handling"
    /\ queue' = IF queue = 0 THEN MaxRequests + 1 ELSE queue - 1
    /\ UNCHANGED <<registry, worker, sender, receiver>>

\* worker_loop takes a request.  A write request registers its write, or is
\* rejected and answered; a read request registers nothing.
TakeRequest ==
    /\ thread = "Receiving"
    /\ queue > 0
    /\ queue' = queue - 1
    /\ \/ Registry!BeginBackgroundWrite("history") /\ thread' = "Handling"
       \/ UNCHANGED registry /\ thread' = "Handling"
    /\ UNCHANGED <<worker, sender, receiver>>

\* The write's guard drops before the answer is sent.
HandleRequest ==
    /\ thread = "Handling"
    /\ thread' = "Answering"
    /\ DropGuardOf("history")
    /\ UNCHANGED <<worker, sender, receiver, queue>>

\* An answer nobody receives ends the loop, whatever is still queued.
Answer ==
    /\ thread = "Answering"
    /\ thread' = IF receiver THEN "Receiving" ELSE "Gone"
    /\ UNCHANGED <<registry, worker, sender, receiver, queue>>

\* recv fails once the sender is gone and the channel is empty; the database
\* closes with the thread.
Disconnect ==
    /\ thread = "Receiving" /\ queue = 0 /\ ~sender
    /\ thread' = "Gone"
    /\ UNCHANGED <<registry, worker, sender, receiver, queue>>

worker_loop ==
    /\ Alive
    /\ TakeRequest \/ HandleRequest \/ Answer \/ Disconnect
    /\ UNCHANGED <<flag, signals, at, frame, shutdown, open, joining, ending>>

\* Slip: the request sender is dropped after the join, not before it.
JoinerDropsSender_AfterJoin(j) ==
    /\ Alive
    /\ joiner[j] = "Spawned"
    /\ joiner' = [joiner EXCEPT ![j] = "Joining"]
    /\ UNCHANGED <<registry, flag, signals, at, frame, shutdown, open, history,
                   spawn_failed, ending>>

\* shutdown_on_a_thread_of_its_own: drop(req_tx)...
JoinerDropsSender(j) ==
    /\ Alive
    /\ joiner[j] = "Spawned"
    /\ joiner' = [joiner EXCEPT ![j] = "Joining"]
    /\ sender' = IF worker = j THEN FALSE ELSE sender
    /\ UNCHANGED <<registry, flag, signals, at, frame, shutdown, open, worker,
                   thread, receiver, queue, spawn_failed, ending>>

\* ...handle.join(), and drop(write).
JoinerEnds(j) ==
    /\ Alive
    /\ joiner[j] = "Joining"
    /\ worker = j => thread = "Gone"
    /\ joiner' = [joiner EXCEPT ![j] = "Done"]
    /\ DropGuardOf(j)
    /\ UNCHANGED <<flag, signals, at, frame, shutdown, open, history,
                   spawn_failed, ending>>

-----------------------------------------------------------------------------
(***************************************************************************)
(* The frames, on the main thread.                                         *)
(***************************************************************************)

\* Slip: the flag is read without clearing it.
ReadFlag_NotCleared ==
    /\ already_read' = (already_read \/ raised)
    /\ UNCHANGED raised

\* TerminationSignalFlag::take_action: both swaps.  The signal thread runs
\* between them at will, and then raises the flag for the next read.
ReadFlag ==
    /\ raised' = FALSE
    /\ already_read' = (already_read \/ raised)

Action ==
    IF ~raised THEN "KeepRunning"
    ELSE IF already_read THEN "QuitLeavingWritesUnfinished" ELSE "BeginShutdown"

End(how) == at' = "Exited" /\ exit' = how /\ UNCHANGED native_failed

\* begin_shutdown returns early where it ran before.
BeginShutdownThen(next) == at' = IF begun THEN next ELSE "RejectWrites"

\* Slip: a signal that arrives while the databases open is dropped.
TakeAction_NotWhileOpening ==
    /\ at = "FrameStart"
    /\ ReadFlag
    /\ \/ /\ Action = "KeepRunning" \/ storage = "Opening"
          /\ at' = "CloseRequest" /\ UNCHANGED ending
       \/ /\ Action = "BeginShutdown" /\ storage # "Opening"
          /\ BeginShutdownThen("CloseRequest") /\ UNCHANGED ending
       \/ /\ Action = "QuitLeavingWritesUnfinished" /\ storage # "Opening"
          /\ End("SecondSignal")
    /\ UNCHANGED <<registry, signals, frame, shutdown, open, history, joining>>

\* intercept_close_request reads the flag first.
TakeAction ==
    /\ at = "FrameStart"
    /\ ReadFlag
    /\ \/ /\ Action = "KeepRunning"
          /\ at' = "CloseRequest" /\ UNCHANGED ending
       \/ /\ Action = "BeginShutdown"
          /\ BeginShutdownThen("CloseRequest") /\ UNCHANGED ending
       \/ /\ Action = "QuitLeavingWritesUnfinished"
          /\ End("SecondSignal")
    /\ UNCHANGED <<registry, signals, frame, shutdown, open, history, joining>>

\* begin_shutdown, in order: reject background writes,...
RejectWrites ==
    /\ at = "RejectWrites"
    /\ Registry!Close
    /\ at' = "FlushSettings"
    /\ UNCHANGED <<flag, signals, frame, shutdown, open, history, joining, ending>>

\* ...flush the settings, unless the session is read-only,...
FlushSettings ==
    /\ \/ /\ at = "FlushSettings" /\ ~forbidden
          /\ Registry!BeginShutdownWrite("gui")
          /\ at' = "Flushing"
       \/ /\ at = "FlushSettings" /\ forbidden
          /\ at' = "EndHistory" /\ UNCHANGED registry
       \/ /\ at = "Flushing"
          /\ Registry!Finish("gui")
          /\ at' = "EndHistory"
    /\ UNCHANGED <<flag, signals, frame, shutdown, open, history, joining, ending>>

\* Slip: the joining thread holds no write.
end_history_worker_Unregistered(j, owner) ==
    /\ UNCHANGED <<registry, spawn_failed, sender, thread, queue>>
    /\ joiner' = [joiner EXCEPT ![j] = "Spawned"]
    /\ worker' = IF worker = owner THEN j ELSE worker
    /\ receiver' = (receiver /\ worker # owner)

\* end_history_worker_off_the_gui_thread: the thread joining the worker holds
\* a shutdown write.  Where it cannot be spawned the write is released, and
\* the worker left to end by itself.  The response receiver drops either way.
end_history_worker(j, owner) ==
    /\ receiver' = (receiver /\ worker # owner)
    /\ \/ /\ joiner' = [joiner EXCEPT ![j] = "Spawned"]
          /\ worker' = IF worker = owner THEN j ELSE worker
          /\ IF forbidden THEN UNCHANGED registry
                          ELSE Registry!BeginShutdownWrite(j)
          /\ UNCHANGED <<sender, spawn_failed>>
       \/ /\ spawn_failed' = TRUE
          /\ worker' = IF worker = owner THEN "Detached" ELSE worker
          /\ sender' = (sender /\ worker # owner)
          /\ UNCHANGED <<registry, joiner>>
    /\ UNCHANGED <<thread, queue>>

\* ...and end the app's history worker.
EndHistory ==
    /\ at = "EndHistory"
    /\ end_history_worker("joiner", "App")
    /\ begun' = TRUE
    /\ at' = "CloseRequest"
    /\ UNCHANGED <<flag, signals, frame, grace, window_up, close_allowed,
                   prompt, open, ending>>

\* The user closes the window; the next frame sees the request.
UserCloses ==
    /\ at = "FrameStart"
    /\ close_request' = TRUE
    /\ UNCHANGED <<registry, flag, signals, at, closing, shutdown, open,
                   history, joining, ending>>

\* A request the app did not send itself is cancelled.
InterceptCloseRequest ==
    /\ at = "CloseRequest"
    /\ closing' = (close_request /\ close_allowed)
    /\ close_request' = FALSE
    /\ \/ /\ close_request /\ ~close_allowed
          /\ BeginShutdownThen("Contents")
       \/ /\ ~(close_request /\ ~close_allowed)
          /\ at' = IF begun THEN "Contents" ELSE "Results"
    /\ UNCHANGED <<registry, flag, signals, shutdown, open, history, joining,
                   ending>>

\* SHUTDOWN_WINDOW_GRACE elapses.
GraceElapses ==
    /\ Alive /\ begun
    /\ grace' = TRUE
    /\ UNCHANGED <<registry, flag, signals, at, frame, begun, window_up,
                   close_allowed, prompt, open, history, joining, ending>>

\* ShutdownState::contents_to_paint.
contents_to_paint ==
    /\ at = "Contents"
    /\ window_up' = (window_up \/ (grace /\ writing # {}))
    /\ at' = IF window_up' THEN "WindowResults" ELSE "CloseCheck"
    /\ UNCHANGED <<registry, flag, signals, frame, begun, grace, close_allowed,
                   prompt, open, history, joining, ending>>

\* Slip: a storage is adopted whenever it lands.
adopt_finished_storage_open_Always ==
    /\ storage' = IF storage = "Landed" THEN "Finished" ELSE storage
    /\ worker' = IF worker = "Channel" THEN "App" ELSE worker
    /\ UNCHANGED <<registry, opener, thread, sender, receiver, queue, joining>>

\* A storage that landed is adopted; after the shutdown began, its history
\* worker is ended instead.
adopt_finished_storage_open ==
    \/ /\ storage # "Landed"
       /\ UNCHANGED <<registry, storage, history, joining>>
    \/ /\ storage = "Landed" /\ begun
       /\ storage' = "Finished"
       /\ end_history_worker("late_joiner", "Channel")
    \/ /\ storage = "Landed" /\ ~begun
       /\ storage' = "Finished"
       /\ worker' = IF worker = "Channel" THEN "App" ELSE worker
       /\ UNCHANGED <<registry, thread, sender, receiver, queue, joining>>

\* apply_finished_background_work, in the frames of the shutdown window and
\* in the others.
ApplyResults ==
    /\ \/ at = "WindowResults" /\ at' = "ShutdownWindow"
       \/ at = "Results" /\ at' = "NormalUi"
    /\ adopt_finished_storage_open
    /\ UNCHANGED <<flag, signals, frame, shutdown, opener, ending>>

\* What the confirmation shows of a snapshot that may have no costs left.
contents_to_show(opened) ==
    IF opened = "Listing" /\ writing = {} THEN "Reporting" ELSE opened

\* show_shutdown_window, then show_force_quit_prompt on the same snapshot.
\* "Quit" is offered only while costs are listed; the countdown closes the
\* report as the user's dismissal does.  The buttons behind the prompt stay
\* live.
ShowShutdownWindow ==
    /\ at = "ShutdownWindow"
    /\ \E click \in {"None", "RunInBackground", "ForceQuit"} :
         LET shown == contents_to_show(IF click = "ForceQuit" THEN "Listing"
                                                              ELSE prompt)
         IN  /\ close_allowed' = (close_allowed \/ click = "RunInBackground")
             /\ close_request' = (close_request \/ click = "RunInBackground")
             /\ \/ prompt' = shown
                   /\ at' = "CloseCheck" /\ UNCHANGED ending
                \/ shown # "Closed"
                   /\ prompt' = "Closed"
                   /\ at' = "CloseCheck" /\ UNCHANGED ending
                \/ shown = "Listing"
                   /\ prompt' = "Closed"
                   /\ End("ForceQuit")
    /\ UNCHANGED <<registry, flag, signals, closing, begun, grace, window_up,
                   open, history, joining>>

EndOfFrame == at' = IF closing THEN "DropApp" ELSE "FrameStart"

\* ShutdownState::close_may_proceed.
close_may_proceed == begun /\ ~close_allowed /\ writing = {} /\ prompt = "Closed"

AllowClose ==
    /\ at = "CloseCheck"
    /\ close_allowed' = (close_allowed \/ close_may_proceed)
    /\ close_request' = (close_request \/ close_may_proceed)
    /\ IF window_up THEN EndOfFrame ELSE at' = "Results"
    /\ UNCHANGED <<registry, flag, signals, closing, begun, grace, window_up,
                   prompt, open, history, joining, ending>>

\* The rest of a frame of the normal UI asks the history worker for things,
\* or opens a database that would not open before, behind a write of its own.
\* A disabled worker drops every request.
NormalUi ==
    /\ at = "NormalUi"
    /\ EndOfFrame
    /\ \/ UNCHANGED history
       \/ /\ worker = "App" /\ queue < MaxRequests
          /\ queue' = queue + 1
          /\ UNCHANGED <<worker, thread, sender, receiver>>
       \/ /\ storage = "Finished" /\ worker = "None"
          /\ ~closed /\ ~forbidden
          /\ SpawnWorker("App")
    /\ UNCHANGED <<registry, flag, signals, frame, shutdown, open, joining,
                   ending>>

\* The event loop ends with an error, between two frames.
RunNativeFails ==
    /\ at = "FrameStart"
    /\ native_failed' = TRUE
    /\ at' = "DropApp"
    /\ UNCHANGED <<registry, flag, signals, frame, shutdown, open, history,
                   joining, exit>>

-----------------------------------------------------------------------------
(***************************************************************************)
(* After the window, on the main thread.                                   *)
(***************************************************************************)

\* Dropping the app drops a HistoryWorker it still has, or one that landed
\* and was never adopted: Drop ends it and joins it.
HeldByTheApp == worker \in {"App", "Channel"}

DropApp ==
    /\ at = "DropApp"
    /\ sender' = (sender /\ ~HeldByTheApp)
    /\ at' = "JoinHistory"
    /\ UNCHANGED <<registry, flag, signals, frame, shutdown, open, worker,
                   thread, receiver, queue, joining, ending>>

JoinHistory ==
    /\ at = "JoinHistory"
    /\ HeldByTheApp => thread = "Gone"
    /\ receiver' = (receiver /\ ~HeldByTheApp)
    /\ at' = "MainBegin"
    /\ UNCHANGED <<registry, flag, signals, frame, shutdown, open, worker,
                   thread, sender, queue, joining, ending>>

\* begin_shutdown_and_wait_for_pending_writes.
MainBegins ==
    /\ at = "MainBegin"
    /\ Registry!Close
    /\ at' = "MainWait"
    /\ UNCHANGED <<flag, signals, frame, shutdown, open, history, joining, ending>>

MainWaits ==
    /\ at = "MainWait"
    /\ Registry!Report
    /\ IF report' = "Idle" THEN End(IF native_failed THEN "Failure" ELSE "Success")
                           ELSE at' = "MainSignal" /\ UNCHANGED ending
    /\ UNCHANGED <<flag, signals, frame, shutdown, open, history, joining>>

\* A first signal here is only logged: the shutdown is under way.
MainTakesAction ==
    /\ at = "MainSignal"
    /\ ReadFlag
    /\ IF Action = "QuitLeavingWritesUnfinished"
       THEN End("SecondSignal")
       ELSE at' = "MainWait" /\ UNCHANGED ending
    /\ UNCHANGED <<registry, signals, frame, shutdown, open, history, joining>>

-----------------------------------------------------------------------------

MainThread ==
    \/ TakeAction
    \/ RejectWrites \/ FlushSettings \/ EndHistory
    \/ InterceptCloseRequest
    \/ contents_to_paint
    \/ ApplyResults
    \/ ShowShutdownWindow
    \/ AllowClose
    \/ NormalUi
    \/ DropApp \/ JoinHistory
    \/ MainBegins \/ MainWaits \/ MainTakesAction

Next ==
    \/ MainThread
    \/ UserCloses
    \/ RunNativeFails
    \/ GraceElapses
    \/ raise
    \/ OpenReports \/ OpenEnds
    \/ worker_loop
    \/ \E j \in Joiners : JoinerDropsSender(j) \/ JoinerEnds(j)
    \/ \E w \in Writers : WriterStep(w)

Spec == Init /\ [][Next]_vars

\* Threads run, and a granted write ends.  Frames are assumed only where the
\* code asks for them: a signal wakes the GUI, and a shutdown under way
\* repaints every tenth of a second.  The force-quit prompt counts down to its
\* own close once it reports, and the pointer resting over it does not hold it
\* forever.
Fairness ==
    /\ WF_vars(MainThread /\ (raised \/ begun \/ at # "FrameStart"))
    /\ SF_vars(ShowShutdownWindow /\ prompt = "Reporting" /\ prompt' = "Closed")
    /\ WF_vars(OpenReports) /\ WF_vars(OpenEnds)
    /\ WF_vars(worker_loop)
    /\ \A j \in Joiners : WF_vars(JoinerDropsSender(j)) /\ WF_vars(JoinerEnds(j))
    /\ \A w \in Writers : WF_vars(w \in writing /\ WriterStep(w))

FairSpec == Spec /\ Fairness

-----------------------------------------------------------------------------

\* How a shutdown goes, and what its exit codes say.  Once it began, "a history
\* worker is never installed" (debug_assert of adopt_open_storage).  A run that
\* exits with success left nothing half written: no write is running, the
\* databases are not being opened any more, and the recordings database is
\* closed (unless the thread that joins it could not be spawned; a read-only
\* session has nothing to wait for).  A run that exits because "the user
\* signalled twice" was signalled twice: a single signal never abandons a write,
\* even where the window's close button began the shutdown.
ShutdownIsOrderly ==
    /\ begun => worker # "App"
    /\ (exit = "Success" /\ ~forbidden) =>
          /\ writing = {}
          /\ opener = "Done"
          /\ spawn_failed \/ thread \in {"None", "Gone"}
    /\ exit = "SecondSignal" => signals >= 2

\* A shutdown ends the process: no thread waits for one that waits for it, and
\* no prompt holds the close back for good.
ShutdownEnds == closed ~> (at = "Exited")

\* A termination signal is acted on, wherever in the run it arrives.
SignalIsAnswered == raised ~> (closed \/ at = "Exited")

=============================================================================
