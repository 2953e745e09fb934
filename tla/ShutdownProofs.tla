--------------------------- MODULE ShutdownProofs ---------------------------
(***************************************************************************)
(* The end of a run for any background writers, any number of signals and  *)
(* of requests to the history worker: its state types, no worker is        *)
(* installed once a shutdown began, success leaves nothing half written,   *)
(* and one signal never abandons a write.                                  *)
(***************************************************************************)
EXTENDS Shutdown, TLAPS

-----------------------------------------------------------------------------
\* The invariant.

\* Every signal is in the flag or in what was read of it before.
SignalsAreCounted ==
    /\ raised \/ already_read => signals >= 1
    /\ raised /\ already_read => signals >= 2
    /\ exit = "SecondSignal" => signals >= 2

\* begin_shutdown runs once, and rejects writes before all else.
BeginsOnce ==
    /\ begun => closed /\ worker # "App"
    /\ at \in {"FlushSettings", "Flushing", "EndHistory"} => closed
    /\ at \in {"RejectWrites", "FlushSettings", "Flushing", "EndHistory"} => ~begun
    /\ ~begun => joiner["joiner"] = "NotSpawned"
    /\ storage # "Finished" \/ ~begun => joiner["late_joiner"] = "NotSpawned"

\* What must end before the databases are closed holds a write.
EndingsHoldWrites ==
    ~forbidden =>
       /\ opener # "Done" => "opener" \in writing
       /\ \A j \in Joiners : joiner[j] \in {"Spawned", "Joining"} => j \in writing

\* Whoever owns the worker joins it, or has failed to.
OwnersJoin ==
    /\ opener = "Opening" => worker = "None" /\ storage = "Opening"
    /\ worker = "None" => thread = "None"
    /\ worker = "Opener" => \/ opener = "Joining"
                            \/ opener = "Done" /\ thread = "Gone"
    /\ \A j \in Joiners : worker = j =>
          /\ joiner[j] # "NotSpawned"
          /\ joiner[j] = "Done" => thread = "Gone"
    /\ worker = "Detached" => spawn_failed
    /\ (at \in {"MainBegin", "MainWait", "MainSignal"} /\ HeldByTheApp)
          => thread = "Gone"

\* The process ends once.
EndsOnce ==
    /\ exit # "Running" => at = "Exited"
    /\ (exit = "Success" /\ ~forbidden) =>
          /\ writing = {}
          /\ opener = "Done"
          /\ spawn_failed \/ thread \in {"None", "Gone"}

\* The types, in two parts.
FlagsTyped ==
    /\ closed \in BOOLEAN /\ forbidden \in BOOLEAN
    /\ raised \in BOOLEAN /\ already_read \in BOOLEAN
    /\ close_request \in BOOLEAN /\ closing \in BOOLEAN
    /\ begun \in BOOLEAN /\ grace \in BOOLEAN /\ window_up \in BOOLEAN
    /\ close_allowed \in BOOLEAN
    /\ sender \in BOOLEAN /\ receiver \in BOOLEAN
    /\ spawn_failed \in BOOLEAN /\ native_failed \in BOOLEAN

ValuesTyped ==
    /\ writing \subseteq Threads
    /\ report \in {"NotAsked", "Idle", "Busy"}
    /\ signals \in 0 .. MaxSignals
    /\ at \in FrameSteps \cup {"DropApp", "JoinHistory", "MainBegin",
                               "MainWait", "MainSignal", "Exited"}
    /\ prompt \in {"Closed", "Listing", "Reporting"}
    /\ opener \in {"Opening", "Sent", "Joining", "Done"}
    /\ storage \in {"Opening", "Landed", "Finished"}
    /\ worker \in {"None", "Channel", "App", "Opener", "Detached"} \cup Joiners
    /\ thread \in {"None", "Receiving", "Handling", "Answering", "Gone"}
    /\ queue \in 0 .. MaxRequests
    /\ joiner \in [Joiners -> {"NotSpawned", "Spawned", "Joining", "Done"}]
    /\ exit \in {"Running", "Success", "Failure", "SecondSignal", "ForceQuit"}

LEMMA TypeParts == TypeOK <=> FlagsTyped /\ ValuesTyped
BY Zenon DEF TypeOK, FlagsTyped, ValuesTyped

IInv == FlagsTyped /\ ValuesTyped /\ SignalsAreCounted /\ BeginsOnce
                   /\ EndingsHoldWrites /\ OwnersJoin /\ EndsOnce

LEMMA Roles ==
    /\ Joiners = {"joiner", "late_joiner"}
    /\ \A w \in Writers : w \notin {"joiner", "late_joiner", "gui", "opener", "history"}
    /\ MaxSignals \in Nat /\ MaxRequests \in Nat
BY WritersAssumption, BoundsAssumption DEF Joiners

LEMMA InitIInv == Init => IInv
<1> SUFFICES ASSUME Init PROVE IInv
  OBVIOUS
<1>1. FlagsTyped
  BY Zenon DEF Init, FlagsTyped
<1>2. ValuesTyped
  BY Roles DEF Init, ValuesTyped, Threads, FrameSteps
<1>3. SignalsAreCounted /\ BeginsOnce /\ EndingsHoldWrites /\ OwnersJoin /\ EndsOnce
  BY Roles DEF Init, SignalsAreCounted, BeginsOnce, EndingsHoldWrites, OwnersJoin,
               EndsOnce, HeldByTheApp
<1>4. QED
  BY <1>1, <1>2, <1>3 DEF IInv

-----------------------------------------------------------------------------
\* The threads beside the main thread.

LEMMA RaiseIInv == ASSUME IInv, raise PROVE IInv'
<1> USE DEF registry, flag, frame, shutdown, open, history, joining, ending
<1>1. FlagsTyped'
  BY DEF IInv, FlagsTyped, raise
<1>2. ValuesTyped'
  BY Roles DEF IInv, ValuesTyped, raise
<1>3. SignalsAreCounted'
  BY Roles DEF IInv, ValuesTyped, SignalsAreCounted, raise
<1>4. BeginsOnce' /\ EndingsHoldWrites' /\ OwnersJoin' /\ EndsOnce'
  BY DEF IInv, BeginsOnce, EndingsHoldWrites, OwnersJoin, EndsOnce, HeldByTheApp, raise
<1>5. QED
  BY <1>1, <1>2, <1>3, <1>4 DEF IInv

LEMMA WriterIInv == ASSUME IInv, NEW w \in Writers, WriterStep(w) PROVE IInv'
<1> USE DEF registry, flag, frame, shutdown, open, history, joining, ending
<1>1. /\ UNCHANGED <<closed, forbidden, report>>
      /\ writing' = writing \cup {w} \/ writing' = writing \ {w}
      /\ at # "Exited"
  BY DEF WriterStep, Registry!BeginBackgroundWrite, Registry!Finish, Alive
<1>2. UNCHANGED <<flag, signals, at, frame, shutdown, open, history, joining, ending>>
  BY DEF WriterStep
<1>3. FlagsTyped'
  BY <1>1, <1>2 DEF IInv, FlagsTyped
<1>4. ValuesTyped'
  BY <1>1, <1>2 DEF IInv, ValuesTyped, Threads
<1>5. EndingsHoldWrites'
  BY <1>1, <1>2, Roles DEF IInv, EndingsHoldWrites
<1>6. EndsOnce'
  BY <1>1, <1>2 DEF IInv, EndsOnce
<1>7. SignalsAreCounted' /\ BeginsOnce' /\ OwnersJoin'
  BY <1>1, <1>2 DEF IInv, SignalsAreCounted, BeginsOnce, OwnersJoin, HeldByTheApp
<1>8. QED
  BY <1>3, <1>4, <1>5, <1>6, <1>7 DEF IInv

\* A guard that drops takes its thread, and no other, out of the registry.
LEMMA GuardDrops ==
    ASSUME NEW t, DropGuardOf(t)
    PROVE  writing' = writing \ {t} /\ UNCHANGED <<closed, forbidden, report>>
BY DEF DropGuardOf, Registry!Finish, registry

LEMMA OpenReportsIInv == ASSUME IInv, OpenReports PROVE IInv'
<1> USE DEF registry, flag, frame, shutdown, open, history, joining, ending
<1>1. /\ UNCHANGED <<registry, flag, signals, at, frame, shutdown, joining, ending>>
      /\ at # "Exited" /\ opener = "Opening"
  BY DEF OpenReports, Alive
<1>2. worker = "None" /\ thread = "None" /\ storage = "Opening"
  BY <1>1 DEF IInv, OwnersJoin
<1>3. FlagsTyped'
  <2>1. sender' \in BOOLEAN /\ receiver' \in BOOLEAN
    BY Zenon DEF IInv, FlagsTyped, OpenReports, SpawnWorker
  <2>2. QED
    BY <1>1, <2>1 DEF IInv, FlagsTyped
<1>4. /\ opener' = IF worker' = "Opener" THEN "Joining" ELSE "Sent"
      /\ storage' \in {storage, "Landed"}
      /\ \/ worker' = "None" /\ thread' = "None" /\ queue' = queue
         \/ worker' = "Channel" /\ ~AppIsGone /\ thread' = "Receiving" /\ queue' = 0
         \/ worker' = "Opener" /\ thread' = "Receiving" /\ queue' = queue
  BY <1>2 DEF OpenReports, SpawnWorker
<1>5. ValuesTyped'
  BY <1>1, <1>2, <1>4, Roles DEF IInv, ValuesTyped
<1>6. SignalsAreCounted' /\ EndsOnce'
  BY <1>1 DEF IInv, SignalsAreCounted, EndsOnce
<1>7. BeginsOnce'
  BY <1>1, <1>2, <1>4 DEF IInv, BeginsOnce
<1>8. EndingsHoldWrites'
  BY <1>1, <1>4, Roles DEF IInv, EndingsHoldWrites
<1>9. OwnersJoin'
  BY <1>1, <1>2, <1>4, Roles DEF IInv, OwnersJoin, HeldByTheApp, AppIsGone
<1>10. QED
  BY <1>3, <1>5, <1>6, <1>7, <1>8, <1>9 DEF IInv

LEMMA OpenEndsIInv == ASSUME IInv, OpenEnds PROVE IInv'
<1> USE DEF registry, flag, frame, shutdown, open, history, joining, ending
<1>1. /\ writing' = writing \ {"opener"} /\ UNCHANGED <<closed, forbidden, report>>
      /\ UNCHANGED <<flag, signals, at, frame, shutdown, storage, history, joining, ending>>
      /\ opener' = "Done" /\ at # "Exited"
      /\ opener = "Sent" \/ (opener = "Joining" /\ thread = "Gone")
  BY GuardDrops DEF OpenEnds, Alive
<1>2. FlagsTyped'
  BY <1>1 DEF IInv, FlagsTyped
<1>3. ValuesTyped'
  BY <1>1 DEF IInv, ValuesTyped
<1>4. SignalsAreCounted' /\ EndsOnce' /\ BeginsOnce'
  BY <1>1 DEF IInv, SignalsAreCounted, EndsOnce, BeginsOnce
<1>5. EndingsHoldWrites'
  BY <1>1, Roles DEF IInv, EndingsHoldWrites
<1>6. OwnersJoin'
  BY <1>1 DEF IInv, OwnersJoin, HeldByTheApp
<1>7. QED
  BY <1>2, <1>3, <1>4, <1>5, <1>6 DEF IInv

LEMMA WorkerIInv == ASSUME IInv, worker_loop PROVE IInv'
<1> USE DEF registry, flag, frame, shutdown, open, history, joining, ending
<1>1. /\ UNCHANGED <<flag, signals, at, frame, shutdown, open, joining, ending>>
      /\ UNCHANGED <<worker, sender, receiver>>
      /\ at # "Exited"
  BY DEF worker_loop, Alive, TakeRequest, HandleRequest, Answer, Disconnect
<1>2. /\ UNCHANGED <<closed, forbidden, report>>
      /\ writing' \in {writing, writing \cup {"history"}, writing \ {"history"}}
  BY GuardDrops DEF worker_loop, TakeRequest, HandleRequest, Answer, Disconnect,
                    Registry!BeginBackgroundWrite
<1>3. /\ thread \in {"Receiving", "Handling", "Answering"}
      /\ thread' \in {"Receiving", "Handling", "Answering", "Gone"}
      /\ queue' = queue \/ (queue > 0 /\ queue' = queue - 1)
  BY DEF worker_loop, TakeRequest, HandleRequest, Answer, Disconnect
<1>4. FlagsTyped'
  BY <1>1, <1>2 DEF IInv, FlagsTyped
<1>5. ValuesTyped'
  BY <1>1, <1>2, <1>3, Roles DEF IInv, ValuesTyped, Threads
<1>6. SignalsAreCounted' /\ EndsOnce' /\ BeginsOnce'
  BY <1>1, <1>2 DEF IInv, SignalsAreCounted, EndsOnce, BeginsOnce
<1>7. EndingsHoldWrites'
  BY <1>1, <1>2, Roles DEF IInv, EndingsHoldWrites
<1>8. OwnersJoin'
  BY <1>1, <1>3 DEF IInv, OwnersJoin, HeldByTheApp
<1>9. QED
  BY <1>4, <1>5, <1>6, <1>7, <1>8 DEF IInv

LEMMA JoinerDropsSenderIInv ==
    ASSUME IInv, NEW j \in Joiners, JoinerDropsSender(j) PROVE IInv'
<1> USE DEF registry, flag, frame, shutdown, open, history, joining, ending
<1>1. /\ UNCHANGED <<registry, flag, signals, at, frame, shutdown, open, worker,
                     thread, receiver, queue, spawn_failed, ending>>
      /\ at # "Exited" /\ joiner[j] = "Spawned"
      /\ joiner' = [joiner EXCEPT ![j] = "Joining"]
  BY DEF JoinerDropsSender, Alive
<1>2. sender' \in BOOLEAN
  BY Zenon DEF IInv, FlagsTyped, JoinerDropsSender
<1>3. FlagsTyped'
  BY <1>1, <1>2 DEF IInv, FlagsTyped
<1>4. ValuesTyped'
  BY <1>1 DEF IInv, ValuesTyped
<1>5. \A i \in Joiners : joiner'[i] = IF i = j THEN "Joining" ELSE joiner[i]
  BY <1>1 DEF IInv, ValuesTyped
<1>6. BeginsOnce'
  BY <1>1, <1>5, Roles DEF IInv, BeginsOnce
<1>7. SignalsAreCounted' /\ EndsOnce'
  BY <1>1 DEF IInv, SignalsAreCounted, EndsOnce
<1>8. EndingsHoldWrites' /\ OwnersJoin'
  BY <1>1, <1>5 DEF IInv, EndingsHoldWrites, OwnersJoin, HeldByTheApp
<1>9. QED
  BY <1>3, <1>4, <1>6, <1>7, <1>8 DEF IInv

LEMMA JoinerEndsIInv == ASSUME IInv, NEW j \in Joiners, JoinerEnds(j) PROVE IInv'
<1> USE DEF registry, flag, frame, shutdown, open, history, joining, ending
<1>1. /\ UNCHANGED <<flag, signals, at, frame, shutdown, open, history, spawn_failed,
                     ending>>
      /\ writing' = writing \ {j} /\ UNCHANGED <<closed, forbidden, report>>
      /\ at # "Exited" /\ joiner[j] = "Joining"
      /\ worker = j => thread = "Gone"
      /\ joiner' = [joiner EXCEPT ![j] = "Done"]
  BY GuardDrops DEF JoinerEnds, Alive
<1>2. FlagsTyped'
  BY <1>1 DEF IInv, FlagsTyped
<1>3. ValuesTyped'
  BY <1>1 DEF IInv, ValuesTyped
<1>4. \A i \in Joiners : joiner'[i] = IF i = j THEN "Done" ELSE joiner[i]
  BY <1>1 DEF IInv, ValuesTyped
<1>5. BeginsOnce'
  BY <1>1, <1>4, Roles DEF IInv, BeginsOnce
<1>6. SignalsAreCounted' /\ EndsOnce'
  BY <1>1 DEF IInv, SignalsAreCounted, EndsOnce
<1>7. EndingsHoldWrites'
  BY <1>1, <1>4, Roles DEF IInv, EndingsHoldWrites
<1>8. OwnersJoin'
  BY <1>1, <1>4 DEF IInv, OwnersJoin, HeldByTheApp
<1>9. QED
  BY <1>2, <1>3, <1>5, <1>6, <1>7, <1>8 DEF IInv

-----------------------------------------------------------------------------
\* The frames.

\* What ReadFlag does to the count of signals.
LEMMA ReadFlagCounts ==
    ASSUME IInv, ReadFlag, UNCHANGED signals,
           exit' = exit \/ (Action = "QuitLeavingWritesUnfinished" /\ exit' = "SecondSignal")
                  \/ exit' \notin {exit, "SecondSignal"}
    PROVE  /\ SignalsAreCounted'
           /\ raised' \in BOOLEAN /\ already_read' \in BOOLEAN
<1>1. already_read' \in BOOLEAN /\ raised' \in BOOLEAN
  BY Zenon DEF IInv, FlagsTyped, ReadFlag
<1>2. raised' = FALSE /\ (already_read' => raised \/ already_read)
  BY Zenon DEF ReadFlag
<1>3. Action = "QuitLeavingWritesUnfinished" => raised /\ already_read
  BY DEF Action
<1>4. SignalsAreCounted'
  BY <1>2, <1>3 DEF IInv, SignalsAreCounted
<1>5. QED
  BY <1>1, <1>4

LEMMA TakeActionIInv == ASSUME IInv, TakeAction PROVE IInv'
<1> USE DEF registry, flag, frame, shutdown, open, history, joining, ending
<1>1. /\ UNCHANGED <<registry, signals, frame, shutdown, open, history, joining>>
      /\ UNCHANGED native_failed
      /\ at = "FrameStart" /\ ReadFlag
      /\ \/ exit' = exit /\ at' \in {"CloseRequest", "RejectWrites"}
         \/ exit' = "SecondSignal" /\ at' = "Exited"
              /\ Action = "QuitLeavingWritesUnfinished"
      /\ at' = "RejectWrites" => ~begun
  BY DEF TakeAction, BeginShutdownThen, End
<1>2. SignalsAreCounted' /\ raised' \in BOOLEAN /\ already_read' \in BOOLEAN
  BY <1>1, ReadFlagCounts
<1>3. FlagsTyped'
  BY <1>1, <1>2 DEF IInv, FlagsTyped
<1>4. ValuesTyped'
  BY <1>1 DEF IInv, ValuesTyped, FrameSteps
<1>5. BeginsOnce' /\ EndingsHoldWrites' /\ OwnersJoin' /\ EndsOnce'
  BY <1>1 DEF IInv, BeginsOnce, EndingsHoldWrites, OwnersJoin, EndsOnce, HeldByTheApp
<1>6. QED
  BY <1>2, <1>3, <1>4, <1>5 DEF IInv

LEMMA RejectWritesIInv == ASSUME IInv, RejectWrites PROVE IInv'
<1> USE DEF registry, flag, frame, shutdown, open, history, joining, ending
<1>1. /\ UNCHANGED <<flag, signals, frame, shutdown, open, history, joining, ending>>
      /\ UNCHANGED <<writing, forbidden, report>> /\ closed' = TRUE
      /\ at = "RejectWrites" /\ at' = "FlushSettings"
  BY DEF RejectWrites, Registry!Close
<1>2. FlagsTyped'
  BY <1>1 DEF IInv, FlagsTyped
<1>3. ValuesTyped'
  BY <1>1 DEF IInv, ValuesTyped, FrameSteps
<1>4. SignalsAreCounted' /\ BeginsOnce' /\ EndingsHoldWrites' /\ OwnersJoin' /\ EndsOnce'
  BY <1>1 DEF IInv, SignalsAreCounted, BeginsOnce, EndingsHoldWrites, OwnersJoin,
              EndsOnce, HeldByTheApp
<1>5. QED
  BY <1>2, <1>3, <1>4 DEF IInv

LEMMA FlushSettingsIInv == ASSUME IInv, FlushSettings PROVE IInv'
<1> USE DEF registry, flag, frame, shutdown, open, history, joining, ending
<1>1. /\ UNCHANGED <<flag, signals, frame, shutdown, open, history, joining, ending>>
      /\ UNCHANGED <<closed, forbidden, report>>
      /\ writing' \in {writing, writing \cup {"gui"}, writing \ {"gui"}}
      /\ at \in {"FlushSettings", "Flushing"} /\ at' \in {"Flushing", "EndHistory"}
  BY DEF FlushSettings, Registry!BeginShutdownWrite, Registry!Finish
<1>2. FlagsTyped'
  BY <1>1 DEF IInv, FlagsTyped
<1>3. ValuesTyped'
  BY <1>1 DEF IInv, ValuesTyped, FrameSteps, Threads
<1>4. EndingsHoldWrites'
  BY <1>1, Roles DEF IInv, EndingsHoldWrites
<1>5. SignalsAreCounted' /\ BeginsOnce' /\ OwnersJoin' /\ EndsOnce'
  BY <1>1 DEF IInv, SignalsAreCounted, BeginsOnce, OwnersJoin, EndsOnce, HeldByTheApp
<1>6. QED
  BY <1>2, <1>3, <1>4, <1>5 DEF IInv

\* Ending a worker leaves it with a thread that holds a write, or detached.
LEMMA EndWorker ==
    ASSUME IInv, NEW j \in Joiners, NEW owner \in {"App", "Channel"},
           end_history_worker(j, owner)
    PROVE  /\ UNCHANGED <<thread, queue, closed, forbidden, report>>
           /\ receiver' \in BOOLEAN /\ sender' \in BOOLEAN /\ spawn_failed' \in BOOLEAN
           /\ writing' \in {writing, writing \cup {j}}
           /\ \/ /\ joiner' = [joiner EXCEPT ![j] = "Spawned"]
                 /\ worker' = IF worker = owner THEN j ELSE worker
                 /\ forbidden \/ writing' = writing \cup {j}
                 /\ UNCHANGED spawn_failed
              \/ /\ spawn_failed'
                 /\ worker' = IF worker = owner THEN "Detached" ELSE worker
                 /\ UNCHANGED <<writing, joiner>>
<1>1. receiver' \in BOOLEAN /\ sender' \in BOOLEAN /\ spawn_failed' \in BOOLEAN
  BY Zenon DEF IInv, FlagsTyped, end_history_worker
<1>2. QED
  BY <1>1 DEF end_history_worker, registry, Registry!BeginShutdownWrite

LEMMA EndHistoryIInv == ASSUME IInv, EndHistory PROVE IInv'
<1> USE DEF registry, flag, frame, shutdown, open, history, joining, ending
<1>1. /\ UNCHANGED <<flag, signals, frame, grace, window_up, close_allowed, prompt,
                     open, ending>>
      /\ at = "EndHistory" /\ at' = "CloseRequest" /\ begun' = TRUE
      /\ end_history_worker("joiner", "App")
  BY DEF EndHistory
<1>2. /\ UNCHANGED <<thread, queue, closed, forbidden, report>>
      /\ receiver' \in BOOLEAN /\ sender' \in BOOLEAN /\ spawn_failed' \in BOOLEAN
      /\ writing' \in {writing, writing \cup {"joiner"}}
      /\ \/ /\ joiner' = [joiner EXCEPT !["joiner"] = "Spawned"]
            /\ worker' = IF worker = "App" THEN "joiner" ELSE worker
            /\ forbidden \/ writing' = writing \cup {"joiner"}
            /\ UNCHANGED spawn_failed
         \/ /\ spawn_failed'
            /\ worker' = IF worker = "App" THEN "Detached" ELSE worker
            /\ UNCHANGED <<writing, joiner>>
  BY <1>1, Roles, EndWorker
<1>3. FlagsTyped'
  BY <1>1, <1>2 DEF IInv, FlagsTyped
<1>4. ValuesTyped'
  BY <1>1, <1>2, Roles DEF IInv, ValuesTyped, FrameSteps, Threads
<1>5. SignalsAreCounted' /\ EndsOnce'
  BY <1>1 DEF IInv, SignalsAreCounted, EndsOnce
<1>6. closed /\ ~begun /\ joiner["joiner"] = "NotSpawned"
      /\ joiner["late_joiner"] = "NotSpawned"
  BY <1>1 DEF IInv, BeginsOnce
<1>7. \A i \in Joiners : joiner'[i] = joiner[i]
                         \/ (i = "joiner" /\ joiner'[i] = "Spawned")
  BY <1>2 DEF IInv, ValuesTyped
<1>8. BeginsOnce'
  BY <1>1, <1>2, <1>6, <1>7, Roles DEF IInv, BeginsOnce
<1>9. EndingsHoldWrites'
  BY <1>1, <1>2, <1>7, Roles DEF IInv, EndingsHoldWrites
<1>10. OwnersJoin'
  BY <1>1, <1>2, <1>6, <1>7, Roles DEF IInv, ValuesTyped, OwnersJoin, HeldByTheApp
<1>11. QED
  BY <1>3, <1>4, <1>5, <1>8, <1>9, <1>10 DEF IInv

\* A step of the main thread that touches the window and no other thread.
LEMMA WindowStep ==
    ASSUME IInv,
           UNCHANGED <<registry, flag, signals, begun, open, worker, thread, receiver,
                       queue, joining, exit>>,
           at # "Exited",
           at' \in {at, "RejectWrites", "CloseRequest", "Contents", "WindowResults",
                    "CloseCheck", "Results", "FrameStart", "DropApp", "JoinHistory"},
           at' = "RejectWrites" /\ at # at' => ~begun,
           close_request' \in BOOLEAN, closing' \in BOOLEAN, grace' \in BOOLEAN,
           window_up' \in BOOLEAN, close_allowed' \in BOOLEAN, sender' \in BOOLEAN,
           native_failed' \in BOOLEAN,
           prompt' \in {"Closed", "Listing", "Reporting"}
    PROVE  IInv'
<1> USE DEF registry, flag, open, joining
<1>1. FlagsTyped'
  BY DEF IInv, FlagsTyped
<1>2. ValuesTyped'
  BY DEF IInv, ValuesTyped, FrameSteps
<1>3. SignalsAreCounted' /\ BeginsOnce' /\ EndingsHoldWrites' /\ OwnersJoin' /\ EndsOnce'
  BY DEF IInv, SignalsAreCounted, BeginsOnce, EndingsHoldWrites, OwnersJoin, EndsOnce,
         HeldByTheApp
<1>4. QED
  BY <1>1, <1>2, <1>3 DEF IInv

LEMMA WindowIInv ==
    ASSUME IInv,
           \/ UserCloses \/ InterceptCloseRequest \/ GraceElapses \/ contents_to_paint
           \/ AllowClose \/ RunNativeFails \/ DropApp
    PROVE  IInv'
<1> USE DEF registry, flag, frame, shutdown, open, history, joining, ending
<1>1. /\ close_request' \in BOOLEAN /\ closing' \in BOOLEAN /\ grace' \in BOOLEAN
      /\ window_up' \in BOOLEAN /\ close_allowed' \in BOOLEAN
      /\ sender' \in BOOLEAN /\ native_failed' \in BOOLEAN
  <2>1. CASE UserCloses \/ GraceElapses \/ RunNativeFails
    BY <2>1 DEF IInv, FlagsTyped, UserCloses, GraceElapses, RunNativeFails
  <2>2. CASE InterceptCloseRequest
    <3>1. closing' \in BOOLEAN /\ close_request' \in BOOLEAN
      BY <2>2, Zenon DEF IInv, FlagsTyped, InterceptCloseRequest
    <3>2. QED
      BY <2>2, <3>1 DEF IInv, FlagsTyped, InterceptCloseRequest
  <2>3. CASE contents_to_paint
    <3>1. window_up' \in BOOLEAN
      BY <2>3, Zenon DEF IInv, FlagsTyped, contents_to_paint
    <3>2. QED
      BY <2>3, <3>1 DEF IInv, FlagsTyped, contents_to_paint
  <2>4. CASE AllowClose
    <3>1. close_allowed' \in BOOLEAN /\ close_request' \in BOOLEAN
      BY <2>4, Zenon DEF IInv, FlagsTyped, AllowClose
    <3>2. QED
      BY <2>4, <3>1 DEF IInv, FlagsTyped, AllowClose
  <2>5. CASE DropApp
    <3>1. sender' \in BOOLEAN
      BY <2>5, Zenon DEF IInv, FlagsTyped, DropApp
    <3>2. QED
      BY <2>5, <3>1 DEF IInv, FlagsTyped, DropApp
  <2>6. QED
    BY <2>1, <2>2, <2>3, <2>4, <2>5
<1>2. UNCHANGED <<registry, flag, signals, begun, open, worker, thread, receiver,
                  queue, joining, exit, prompt>>
  BY DEF UserCloses, InterceptCloseRequest, GraceElapses, contents_to_paint,
         AllowClose, RunNativeFails, DropApp
<1>3. /\ at # "Exited"
      /\ at' \in {at, "RejectWrites", "CloseRequest", "Contents", "WindowResults",
                  "CloseCheck", "Results", "FrameStart", "DropApp", "JoinHistory"}
      /\ at' = "RejectWrites" /\ at # at' => ~begun
  BY DEF UserCloses, InterceptCloseRequest, GraceElapses, contents_to_paint,
         AllowClose, RunNativeFails, DropApp, Alive, BeginShutdownThen, EndOfFrame
<1>4. prompt' \in {"Closed", "Listing", "Reporting"}
  BY <1>2 DEF IInv, ValuesTyped
<1>5. QED
  BY <1>1, <1>2, <1>3, <1>4, WindowStep

LEMMA ApplyResultsIInv == ASSUME IInv, ApplyResults PROVE IInv'
<1> USE DEF registry, flag, frame, shutdown, open, history, joining, ending
<1>1. /\ UNCHANGED <<flag, signals, frame, shutdown, opener, ending>>
      /\ at \in {"WindowResults", "Results"} /\ at' \in {"ShutdownWindow", "NormalUi"}
  BY DEF ApplyResults
<1>2. CASE storage # "Landed" /\ UNCHANGED <<registry, storage, history, joining>>
  <2>1. FlagsTyped'
    BY <1>1, <1>2 DEF IInv, FlagsTyped
  <2>2. ValuesTyped'
    BY <1>1, <1>2 DEF IInv, ValuesTyped, FrameSteps
  <2>3. SignalsAreCounted' /\ BeginsOnce' /\ EndingsHoldWrites' /\ OwnersJoin' /\ EndsOnce'
    BY <1>1, <1>2 DEF IInv, SignalsAreCounted, BeginsOnce, EndingsHoldWrites,
                      OwnersJoin, EndsOnce, HeldByTheApp
  <2>4. QED
    BY <2>1, <2>2, <2>3 DEF IInv
<1>3. CASE /\ storage = "Landed" /\ begun /\ storage' = "Finished"
           /\ end_history_worker("late_joiner", "Channel")
  <2>1. /\ UNCHANGED <<thread, queue, closed, forbidden, report>>
        /\ receiver' \in BOOLEAN /\ sender' \in BOOLEAN /\ spawn_failed' \in BOOLEAN
        /\ writing' \in {writing, writing \cup {"late_joiner"}}
        /\ \/ /\ joiner' = [joiner EXCEPT !["late_joiner"] = "Spawned"]
              /\ worker' = IF worker = "Channel" THEN "late_joiner" ELSE worker
              /\ forbidden \/ writing' = writing \cup {"late_joiner"}
              /\ UNCHANGED spawn_failed
           \/ /\ spawn_failed'
              /\ worker' = IF worker = "Channel" THEN "Detached" ELSE worker
              /\ UNCHANGED <<writing, joiner>>
    BY <1>3, Roles, EndWorker
  <2>2. FlagsTyped'
    BY <1>1, <2>1 DEF IInv, FlagsTyped
  <2>3. ValuesTyped'
    BY <1>1, <1>3, <2>1, Roles DEF IInv, ValuesTyped, FrameSteps, Threads
  <2>4. SignalsAreCounted' /\ EndsOnce'
    BY <1>1 DEF IInv, SignalsAreCounted, EndsOnce
  <2>5. joiner["late_joiner"] = "NotSpawned" /\ opener # "Opening"
    BY <1>3 DEF IInv, BeginsOnce, OwnersJoin
  <2>6. \A i \in Joiners : joiner'[i] = joiner[i]
                           \/ (i = "late_joiner" /\ joiner'[i] = "Spawned")
    BY <2>1 DEF IInv, ValuesTyped
  <2>7. BeginsOnce'
    BY <1>1, <1>3, <2>1, Roles DEF IInv, BeginsOnce
  <2>8. EndingsHoldWrites'
    BY <1>1, <2>1, <2>6, Roles DEF IInv, EndingsHoldWrites
  <2>9. OwnersJoin'
    BY <1>1, <2>1, <2>5, <2>6, Roles DEF IInv, ValuesTyped, OwnersJoin, HeldByTheApp
  <2>10. QED
    BY <2>2, <2>3, <2>4, <2>7, <2>8, <2>9 DEF IInv
<1>4. CASE /\ storage = "Landed" /\ ~begun /\ storage' = "Finished"
           /\ worker' = IF worker = "Channel" THEN "App" ELSE worker
           /\ UNCHANGED <<registry, thread, sender, receiver, queue, joining>>
  <2>1. FlagsTyped'
    BY <1>1, <1>4 DEF IInv, FlagsTyped
  <2>2. ValuesTyped'
    BY <1>1, <1>4 DEF IInv, ValuesTyped, FrameSteps
  <2>3. SignalsAreCounted' /\ BeginsOnce' /\ EndingsHoldWrites' /\ EndsOnce'
    BY <1>1, <1>4 DEF IInv, SignalsAreCounted, BeginsOnce, EndingsHoldWrites, EndsOnce
  <2>4. OwnersJoin'
    BY <1>1, <1>4, Roles DEF IInv, OwnersJoin, HeldByTheApp
  <2>5. QED
    BY <2>1, <2>2, <2>3, <2>4 DEF IInv
<1>5. QED
  BY <1>2, <1>3, <1>4 DEF ApplyResults, adopt_finished_storage_open

LEMMA ShowShutdownWindowIInv == ASSUME IInv, ShowShutdownWindow PROVE IInv'
<1> USE DEF registry, flag, frame, shutdown, open, history, joining, ending
<1>1. /\ UNCHANGED <<registry, flag, signals, closing, begun, grace, window_up, open,
                     history, joining, native_failed>>
      /\ at = "ShutdownWindow"
  BY DEF ShowShutdownWindow, End
<1>2. close_allowed' \in BOOLEAN /\ close_request' \in BOOLEAN
  BY Zenon DEF IInv, FlagsTyped, ShowShutdownWindow
<1>3. /\ prompt' \in {"Closed", "Listing", "Reporting"}
      /\ \/ at' = "CloseCheck" /\ exit' = exit
         \/ at' = "Exited" /\ exit' = "ForceQuit"
  BY DEF IInv, ValuesTyped, ShowShutdownWindow, End, contents_to_show
<1>4. FlagsTyped'
  BY <1>1, <1>2 DEF IInv, FlagsTyped
<1>5. ValuesTyped'
  BY <1>1, <1>3 DEF IInv, ValuesTyped, FrameSteps
<1>6. SignalsAreCounted' /\ BeginsOnce' /\ EndingsHoldWrites' /\ OwnersJoin' /\ EndsOnce'
  BY <1>1, <1>3 DEF IInv, SignalsAreCounted, BeginsOnce, EndingsHoldWrites, OwnersJoin,
                    EndsOnce, HeldByTheApp
<1>7. QED
  BY <1>4, <1>5, <1>6 DEF IInv

LEMMA NormalUiIInv == ASSUME IInv, NormalUi PROVE IInv'
<1> USE DEF registry, flag, frame, shutdown, open, history, joining, ending
<1>1. /\ UNCHANGED <<registry, flag, signals, frame, shutdown, open, joining, ending>>
      /\ at = "NormalUi" /\ at' \in {"DropApp", "FrameStart"}
  BY DEF NormalUi, EndOfFrame
<1>2. sender' \in BOOLEAN /\ receiver' \in BOOLEAN
  BY Zenon DEF IInv, FlagsTyped, NormalUi, SpawnWorker
<1>3. \/ UNCHANGED <<worker, thread>> /\ queue' = queue
      \/ UNCHANGED <<worker, thread>> /\ queue < MaxRequests /\ queue' = queue + 1
      \/ /\ storage = "Finished" /\ worker = "None" /\ ~closed
         /\ worker' = "App" /\ thread' = "Receiving" /\ queue' = 0
  BY DEF NormalUi, SpawnWorker
<1>4. FlagsTyped'
  BY <1>1, <1>2 DEF IInv, FlagsTyped
<1>5. ValuesTyped'
  BY <1>1, <1>3, Roles DEF IInv, ValuesTyped, FrameSteps
<1>6. SignalsAreCounted' /\ BeginsOnce' /\ EndingsHoldWrites' /\ EndsOnce'
  BY <1>1, <1>3 DEF IInv, SignalsAreCounted, BeginsOnce, EndingsHoldWrites, EndsOnce
<1>7. OwnersJoin'
  BY <1>1, <1>3, Roles DEF IInv, OwnersJoin, HeldByTheApp
<1>8. QED
  BY <1>4, <1>5, <1>6, <1>7 DEF IInv

-----------------------------------------------------------------------------
\* After the window.

LEMMA JoinHistoryIInv == ASSUME IInv, JoinHistory PROVE IInv'
<1> USE DEF registry, flag, frame, shutdown, open, history, joining, ending
<1>1. /\ UNCHANGED <<registry, flag, signals, frame, shutdown, open, worker, thread,
                     sender, queue, joining, ending>>
      /\ at = "JoinHistory" /\ at' = "MainBegin"
      /\ HeldByTheApp => thread = "Gone"
  BY DEF JoinHistory
<1>2. receiver' \in BOOLEAN
  BY Zenon DEF IInv, FlagsTyped, JoinHistory
<1>3. FlagsTyped'
  BY <1>1, <1>2 DEF IInv, FlagsTyped
<1>4. ValuesTyped'
  BY <1>1 DEF IInv, ValuesTyped, FrameSteps
<1>5. SignalsAreCounted' /\ BeginsOnce' /\ EndingsHoldWrites' /\ OwnersJoin' /\ EndsOnce'
  BY <1>1 DEF IInv, SignalsAreCounted, BeginsOnce, EndingsHoldWrites, OwnersJoin,
              EndsOnce, HeldByTheApp
<1>6. QED
  BY <1>3, <1>4, <1>5 DEF IInv

LEMMA MainBeginsIInv == ASSUME IInv, MainBegins PROVE IInv'
<1> USE DEF registry, flag, frame, shutdown, open, history, joining, ending
<1>1. /\ UNCHANGED <<flag, signals, frame, shutdown, open, history, joining, ending>>
      /\ UNCHANGED <<writing, forbidden, report>> /\ closed' = TRUE
      /\ at = "MainBegin" /\ at' = "MainWait"
  BY DEF MainBegins, Registry!Close
<1>2. FlagsTyped'
  BY <1>1 DEF IInv, FlagsTyped
<1>3. ValuesTyped'
  BY <1>1 DEF IInv, ValuesTyped
<1>4. SignalsAreCounted' /\ BeginsOnce' /\ EndingsHoldWrites' /\ OwnersJoin' /\ EndsOnce'
  BY <1>1 DEF IInv, SignalsAreCounted, BeginsOnce, EndingsHoldWrites, OwnersJoin,
              EndsOnce, HeldByTheApp
<1>5. QED
  BY <1>2, <1>3, <1>4 DEF IInv

\* When no write is left, nothing that must end before is still running.
LEMMA IdleMeansDone ==
    ASSUME IInv, at = "MainWait", writing = {}, ~forbidden
    PROVE  opener = "Done" /\ (spawn_failed \/ thread \in {"None", "Gone"})
<1>1. opener = "Done" /\ \A j \in Joiners : joiner[j] \in {"NotSpawned", "Done"}
  BY DEF IInv, EndingsHoldWrites, ValuesTyped
<1>2. spawn_failed \/ thread \in {"None", "Gone"}
  BY <1>1 DEF IInv, ValuesTyped, OwnersJoin, HeldByTheApp
<1>3. QED
  BY <1>1, <1>2

LEMMA MainWaitsIInv == ASSUME IInv, MainWaits PROVE IInv'
<1> USE DEF registry, flag, frame, shutdown, open, history, joining, ending
<1>1. /\ UNCHANGED <<flag, signals, frame, shutdown, open, history, joining>>
      /\ UNCHANGED <<writing, closed, forbidden, native_failed>>
      /\ at = "MainWait" /\ report' \in {"Idle", "Busy"}
      /\ \/ /\ writing = {} /\ at' = "Exited" /\ exit' \in {"Failure", "Success"}
         \/ at' = "MainSignal" /\ exit' = exit
  BY DEF MainWaits, Registry!Report, End
<1>2. FlagsTyped'
  BY <1>1 DEF IInv, FlagsTyped
<1>3. ValuesTyped'
  BY <1>1 DEF IInv, ValuesTyped
<1>4. SignalsAreCounted' /\ BeginsOnce' /\ EndingsHoldWrites' /\ OwnersJoin'
  BY <1>1 DEF IInv, SignalsAreCounted, BeginsOnce, EndingsHoldWrites, OwnersJoin,
              HeldByTheApp
<1>5. EndsOnce'
  BY <1>1, IdleMeansDone DEF IInv, EndsOnce
<1>6. QED
  BY <1>2, <1>3, <1>4, <1>5 DEF IInv

LEMMA MainTakesActionIInv == ASSUME IInv, MainTakesAction PROVE IInv'
<1> USE DEF registry, flag, frame, shutdown, open, history, joining, ending
<1>1. /\ UNCHANGED <<registry, signals, frame, shutdown, open, history, joining>>
      /\ UNCHANGED native_failed
      /\ at = "MainSignal" /\ ReadFlag
      /\ \/ exit' = exit /\ at' = "MainWait"
         \/ exit' = "SecondSignal" /\ at' = "Exited"
              /\ Action = "QuitLeavingWritesUnfinished"
  BY DEF MainTakesAction, End
<1>2. SignalsAreCounted' /\ raised' \in BOOLEAN /\ already_read' \in BOOLEAN
  BY <1>1, ReadFlagCounts
<1>3. FlagsTyped'
  BY <1>1, <1>2 DEF IInv, FlagsTyped
<1>4. ValuesTyped'
  BY <1>1 DEF IInv, ValuesTyped
<1>5. BeginsOnce' /\ EndingsHoldWrites' /\ OwnersJoin' /\ EndsOnce'
  BY <1>1 DEF IInv, BeginsOnce, EndingsHoldWrites, OwnersJoin, EndsOnce, HeldByTheApp
<1>6. QED
  BY <1>2, <1>3, <1>4, <1>5 DEF IInv

-----------------------------------------------------------------------------
\* The theorems.

LEMMA NextIInv == ASSUME IInv, [Next]_vars PROVE IInv'
<1>1. CASE UNCHANGED vars
  <2> USE <1>1 DEF vars, registry, flag, frame, shutdown, open, history, joining, ending
  <2>1. FlagsTyped'
    BY DEF IInv, FlagsTyped
  <2>2. ValuesTyped'
    BY DEF IInv, ValuesTyped
  <2>3. SignalsAreCounted' /\ BeginsOnce' /\ EndingsHoldWrites' /\ OwnersJoin' /\ EndsOnce'
    BY DEF IInv, SignalsAreCounted, BeginsOnce, EndingsHoldWrites, OwnersJoin, EndsOnce,
           HeldByTheApp
  <2>4. QED
    BY <2>1, <2>2, <2>3 DEF IInv
<1>2. CASE MainThread
  BY <1>2, TakeActionIInv, RejectWritesIInv, FlushSettingsIInv, EndHistoryIInv,
     WindowIInv, ApplyResultsIInv, ShowShutdownWindowIInv, NormalUiIInv,
     JoinHistoryIInv, MainBeginsIInv, MainWaitsIInv, MainTakesActionIInv
     DEF MainThread
<1>3. CASE UserCloses \/ RunNativeFails \/ GraceElapses
  BY <1>3, WindowIInv
<1>4. CASE raise \/ OpenReports \/ OpenEnds \/ worker_loop
  BY <1>4, RaiseIInv, OpenReportsIInv, OpenEndsIInv, WorkerIInv
<1>5. ASSUME NEW j \in Joiners, JoinerDropsSender(j) \/ JoinerEnds(j) PROVE IInv'
  BY <1>5, JoinerDropsSenderIInv, JoinerEndsIInv
<1>6. ASSUME NEW w \in Writers, WriterStep(w) PROVE IInv'
  BY <1>6, WriterIInv
<1>7. QED
  BY <1>1, <1>2, <1>3, <1>4, <1>5, <1>6 DEF Next

LEMMA Invariance == Spec => []IInv
<1>1. IInv /\ [Next]_vars => IInv'
  BY NextIInv
<1>2. QED
  BY <1>1, InitIInv, PTL DEF Spec

\* Every variable keeps its type, the channel of the history worker within its
\* bound (ShutdownState, HistoryWorker).
THEOREM TypeCorrect == Spec => []TypeOK
<1>1. IInv => TypeOK
  BY TypeParts DEF IInv
<1>2. QED
  BY <1>1, Invariance, PTL

\* However many threads write and however often the run is signalled: no worker
\* is installed after a shutdown began, success leaves nothing half written and
\* one signal never abandons a write (begin_shutdown, adopt_open_storage, the
\* wait in main).
THEOREM ShutdownsAreOrderly == Spec => []ShutdownIsOrderly
<1>1. IInv => ShutdownIsOrderly
  BY DEF IInv, SignalsAreCounted, BeginsOnce, EndsOnce, ShutdownIsOrderly
<1>2. QED
  BY <1>1, Invariance, PTL
=============================================================================
