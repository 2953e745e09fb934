------------------------------ MODULE DayFetches ------------------------------
(***************************************************************************)
(* One environment scheduler of the window (JammingScheduler and its three *)
(* siblings), its fetch threads, the archive they insert into, and the     *)
(* delete of archived days that runs beside them.                          *)
(*                                                                         *)
(* The interface thread polls the scheduler and the delete once a frame    *)
(* (frame.rs) and handles the user's requests between polls.  A fetch      *)
(* thread downloads one day, inserts it and reports; the delete thread     *)
(* removes days archive after archive and reports once, after the last.    *)
(* Inserts, deletes and reads of an archive exclude each other (its        *)
(* mutex), so each is one step.                                            *)
(*                                                                         *)
(* Left out: the pacing of requests, what is drawn from the archive        *)
(* (TrackValues), the days the source does not cover, and sessions without *)
(* a writable archive, which fetch and delete nothing.                     *)
(***************************************************************************)
EXTENDS DayFetchQueue

CONSTANTS
    Recordings,  \* what the user can load: sets of days a recording spans
    Sources,     \* the archives a run of the model may be about
    AutoPruneAge,\* the auto-prune deletes the days before it, 0 for none
    Requests,    \* bound: requests of the user in a run
    Rejections   \* bound: BOOLEAN when shutdown may begin, else {FALSE}

ASSUME RecordingsAssumption == Recordings \subseteq SUBSET Days
ASSUME SourcesAssumption == Sources \subseteq {"interference", "tec"}
ASSUME BoundsAssumption == /\ AutoPruneAge \in 0 .. (LastDay + 1)
                           /\ Requests \in Nat
                           /\ Rejections \subseteq BOOLEAN

VARIABLES
    source,         \* the archive this scheduler fills, fixed at Init
    days,           \* its DayFetchQueue
    loaded,         \* the recordings in the window
    archive,        \* what the file holds of each day
    archived_days,  \* the scheduler's own index of the archive
    fetching,       \* the days fetch threads are working on
    messages,       \* the channel they report into
    prune,          \* the delete: its thread, then its report
    rejecting,      \* shutdown began: no write is registered any more
    requests,       \* requests the user has left
    crossed         \* history: days fetched while a delete of them ran

vars == <<source, days, loaded, archive, archived_days, fetching, messages,
          prune, rejecting, requests, crossed>>

\* A rapid TEC map is fetched again once there is a final one.  Interference
\* is published once, and insert_day refuses a day already stored.
Holdings == {"Absent", "Rapid", "Final"}
Published == IF source = "tec" THEN {"Rapid", "Final"} ELSE {"Final"}
CanInsert(d) == source = "tec" \/ archive[d] = "Absent"
Around(recording) == IF source = "tec"
                     THEN {d \in Days : d + 1 \in recording} \ recording
                     ELSE {}

Outcomes == {"Stored", "Missing", "Failed", "Rejected"}
NoPrune == [stage |-> "None", days |-> {}, outcome |-> "None"]
Prunes == [stage : {"None", "Running", "Reported"}, days : SUBSET Days,
           outcome : {"None", "Removed", "Kept"}]

\* Slip: the cutoff itself is deleted too.
PrunedDays_CutoffToo == {1 .. cutoff : cutoff \in 2 .. (LastDay + 1)}

\* PrunedDays: the days before a cutoff, every day for one past the last.
PrunedDays == {1 .. (cutoff - 1) : cutoff \in 2 .. (LastDay + 1)}

TypeOK ==
    /\ source \in Sources
    /\ days \in Queues
    /\ loaded \subseteq Recordings
    /\ archive \in [Days -> Holdings]
    /\ archived_days \subseteq Days
    /\ fetching \subseteq Days
    /\ messages \in Seq([day : Days, outcome : Outcomes])
    /\ prune \in Prunes
    /\ rejecting \in BOOLEAN
    /\ requests \in 0 .. Requests
    /\ crossed \subseteq Days

\* adopt_store: the index is read from the archive as it is.
Init ==
    /\ source \in Sources
    /\ archive \in [Days -> {"Absent"} \cup Published]
    /\ archived_days = {d \in Days : archive[d] # "Absent"}
    /\ days = EmptyQueue
    /\ loaded = {}
    /\ fetching = {}
    /\ messages = <<>>
    /\ prune = NoPrune
    /\ rejecting = FALSE
    /\ requests = Requests
    /\ crossed = {}

-----------------------------------------------------------------------------
\* day_needs_fetch for every day, in one reading of the archive; an archive
\* that cannot be read answers none of them.
Readings ==
    {[d \in Days |-> IF archive[d] = "Final" THEN "Held" ELSE "Wanted"],
     [d \in Days |-> "Unreadable"]}

\* DayFetch::take_next and the thread it is handed to.
start_next(q) ==
    IF ~rejecting /\ HasNextDay(q)
    THEN /\ days' = take_next_day(q)
         /\ fetching' = fetching \cup {Head(q.queue)}
    ELSE /\ days' = q
         /\ UNCHANGED fetching

\* request_days_for one recording: its days, then the days around it.
request_days_for(recording, answer) ==
    LET asked == Asked(days, recording, Around(recording))
        new == NewlyQueued(days, asked, answer)
    IN \E first \in Ascending(new \cap recording),
          rest \in Ascending(new \ recording) :
         start_next(RequestDays(days, recording, Around(recording), answer,
                                first \o rest))

\* Slip: the recordings are not asked for their days again.
request_days_of_loaded_NotAsked(q, answer) == start_next(q)

\* request_environment_days_of_loaded_recordings on queue q.  The recordings
\* are taken in the order of the window's list, which is not kept here: the
\* days may end up in any order.
request_days_of_loaded(q, answer) ==
    LET spanned == UNION loaded
        around == UNION {Around(r) : r \in loaded} \ spanned
        new == NewlyQueued(q, Asked(q, spanned, around), answer)
    IN \E listing \in Listings(new) :
         start_next(RequestDays(q, spanned, around, answer, listing))

UserRequest == requests > 0 /\ requests' = requests - 1

-----------------------------------------------------------------------------
\* start_environment_prune.
start_environment_prune(pruned) ==
    IF prune.stage = "None" /\ ~rejecting
    THEN prune' = [stage |-> "Running", days |-> pruned, outcome |-> "None"]
    ELSE UNCHANGED prune

\* auto_prune_cutoff: no later than the age allows, and no later than the
\* oldest day this or another scheduler counts.
AutoPruneCutoffs(q) ==
    {cutoff \in 2 .. AutoPruneAge :
        \A d \in Counted(q.recording_days) \cup Counted(q.background_days) :
            cutoff <= d}

\* handle_completed_load: request the days, then auto_prune_environment_days
\* where the age is set and some archive holds a day that old.
Load(recording) ==
    /\ UserRequest
    /\ recording \notin loaded
    /\ loaded' = loaded \cup {recording}
    /\ \E answer \in Readings : request_days_for(recording, answer)
    /\ \/ UNCHANGED prune
       \/ \E cutoff \in AutoPruneCutoffs(days') :
             start_environment_prune(1 .. (cutoff - 1))
    /\ UNCHANGED <<source, archive, archived_days, messages, rejecting>>

\* The user takes a recording off the window: no scheduler is told.
Unload(recording) ==
    /\ UserRequest
    /\ recording \in loaded
    /\ loaded' = loaded \ {recording}
    /\ UNCHANGED <<source, days, archive, archived_days, fetching, messages,
                   prune, rejecting>>

\* backfill of the days from first to last.
Backfill(first, last) ==
    /\ UserRequest
    /\ \E answer \in Readings, rest \in Retained(days.queue, days.backfill) :
         LET q == cancel_backfill(days, rest)
             range == first .. last
         IN \E listing \in Ascending(NewlyQueued(q, range, answer)) :
              start_next(start_backfill(q, range, answer, listing))
    /\ UNCHANGED <<source, loaded, archive, archived_days, messages, prune,
                   rejecting>>

CancelBackfill ==
    /\ UserRequest
    /\ days.backfill # {}
    /\ \E rest \in Retained(days.queue, days.backfill) :
         days' = cancel_backfill(days, rest)
    /\ UNCHANGED <<source, loaded, archive, archived_days, fetching, messages,
                   prune, rejecting>>

\* set_base_url, set_mirrors, set_earthdata_token with a value that changed.
\* Nothing is requested of the new host until a recording loads, a delete
\* ends or a backfill starts.
ChangeHost ==
    /\ UserRequest
    /\ days' = forget_host(days)
    /\ UNCHANGED <<source, loaded, archive, archived_days, fetching, messages,
                   prune, rejecting>>

\* A delete the user confirmed.
Delete(pruned) ==
    /\ UserRequest
    /\ prune.stage = "None" /\ ~rejecting
    /\ start_environment_prune(pruned)
    /\ UNCHANGED <<source, days, loaded, archive, archived_days, fetching,
                   messages, rejecting>>

BeginShutdown ==
    /\ ~rejecting /\ TRUE \in Rejections
    /\ rejecting' = TRUE
    /\ UNCHANGED <<source, days, loaded, archive, archived_days, fetching,
                   messages, prune, requests>>

-----------------------------------------------------------------------------
\* ingest: the download, the registered insert and the report of one thread.
Stores(d) ==
    /\ ~rejecting /\ CanInsert(d)
    /\ \E held \in Published : archive' = [archive EXCEPT ![d] = held]

\* Missing is a day the host has no dataset for, which only the interference
\* scheduler tells from a failure.
Answer(d) ==
    \/ Stores(d) /\ messages' = Append(messages, [day |-> d, outcome |-> "Stored"])
    \/ /\ UNCHANGED archive
       /\ \/ messages' = Append(messages, [day |-> d, outcome |-> "Failed"])
          \/ /\ source = "interference"
             /\ messages' = Append(messages, [day |-> d, outcome |-> "Missing"])
          \/ /\ rejecting
             /\ messages' = Append(messages, [day |-> d, outcome |-> "Rejected"])

Ingest(d) ==
    /\ d \in fetching
    /\ fetching' = fetching \ {d}
    /\ Answer(d)
    /\ UNCHANGED <<source, days, loaded, archived_days, prune, rejecting,
                   requests>>

\* prune: this archive's part of the delete.  A rejected delete, and one that
\* fails, keeps the days (what a failing delete leaves in the file is
\* DayArchive's); one whose scope leaves this archive out does not reach it.
\* The thread goes on with the other archives before it reports.
DeleteDays ==
    /\ prune.stage = "Running" /\ prune.outcome = "None"
    /\ \/ /\ ~rejecting
          /\ archive' = [d \in Days |-> IF d \in prune.days THEN "Absent"
                                        ELSE archive[d]]
          /\ prune' = [prune EXCEPT !.outcome = "Removed"]
       \/ /\ prune' = [prune EXCEPT !.outcome = "Kept"]
          /\ UNCHANGED archive
    /\ UNCHANGED <<source, days, loaded, archived_days, fetching, messages,
                   rejecting, requests>>

ReportDelete ==
    /\ prune.stage = "Running" /\ prune.outcome # "None"
    /\ prune' = [prune EXCEPT !.stage = "Reported"]
    /\ UNCHANGED <<source, days, loaded, archive, archived_days, fetching,
                   messages, rejecting, requests>>

-----------------------------------------------------------------------------
\* What poll makes of one report.
Settle(q, message) ==
    CASE message.outcome = "Stored" -> mark_archived(q, message.day)
      [] message.outcome = "Failed" -> report_failure(q, message.day)
      [] OTHER -> q

\* Slip: only a stored day starts the next one.
Poll_StartsAfterStored ==
    /\ messages # <<>>
    /\ LET message == Head(messages)
           q == Settle(finish_day(days, message.day), message)
       IN IF message.outcome = "Stored"
          THEN /\ archived_days' = archived_days \cup {message.day}
               /\ start_next(q)
          ELSE days' = q /\ UNCHANGED <<archived_days, fetching>>
    /\ messages' = Tail(messages)
    /\ UNCHANGED <<source, loaded, archive, prune, rejecting, requests>>

\* poll: one report of the channel, and start_next once it is empty.  A poll
\* of an empty channel has nothing to start (OneFetchAtATime).
Poll ==
    /\ messages # <<>>
    /\ LET message == Head(messages)
           q == Settle(finish_day(days, message.day), message)
       IN /\ archived_days' = IF message.outcome = "Stored"
                              THEN archived_days \cup {message.day}
                              ELSE archived_days
          /\ IF Len(messages) = 1 THEN start_next(q)
             ELSE days' = q /\ UNCHANGED fetching
    /\ messages' = Tail(messages)
    /\ UNCHANGED <<source, loaded, archive, prune, rejecting, requests>>

\* Slip: the index keeps the deleted days.
KnownAfter_Kept(pruned) == archived_days

\* forget_pruned_days of the scheduler.
ForgetPruned(q, pruned) == forget_pruned_days(q, pruned)
KnownAfter(pruned) == archived_days \ pruned

\* poll_environment_prune: a report is applied, then the loaded recordings
\* request their days again whatever it says.
PollPrune ==
    /\ prune.stage = "Reported"
    /\ \E answer \in Readings :
         IF prune.outcome = "Removed"
         THEN /\ archived_days' = KnownAfter(prune.days)
              /\ request_days_of_loaded(ForgetPruned(days, prune.days), answer)
         ELSE /\ UNCHANGED archived_days
              /\ request_days_of_loaded(days, answer)
    /\ prune' = NoPrune
    /\ UNCHANGED <<source, loaded, archive, messages, rejecting, requests>>

-----------------------------------------------------------------------------
\* A day is crossed when a delete covering it and a fetch of it overlap: from
\* the start of the delete to the poll of its report, and from the dispatch
\* of the fetch to the poll of its report.
Cross ==
    crossed' = crossed \cup
        (IF prune'.stage # "None" THEN prune'.days \cap {days'.in_flight}
                                  ELSE {})

UserStep ==
    \/ \E r \in Recordings : Load(r) \/ Unload(r)
    \/ \E first, last \in Days : first <= last /\ Backfill(first, last)
    \/ CancelBackfill
    \/ ChangeHost
    \/ \E pruned \in PrunedDays : Delete(pruned)
    \/ BeginShutdown

DeleteStep == DeleteDays \/ ReportDelete

Next ==
    /\ UserStep \/ (\E d \in Days : Ingest(d)) \/ DeleteStep \/ Poll \/ PollPrune
    /\ Cross

\* Frames go on while anything is due (a finished thread requests a repaint),
\* and a thread ends: its transport has timeouts.  The user need not act.
Fairness ==
    /\ WF_vars((\E d \in Days : Ingest(d)) /\ Cross)
    /\ WF_vars(DeleteStep /\ Cross)
    /\ WF_vars(Poll /\ Cross)
    /\ WF_vars(PollPrune /\ Cross)

Spec == Init /\ [][Next]_vars /\ Fairness
-----------------------------------------------------------------------------
\* One request to the host at a time, whatever was cancelled, deleted or
\* pointed elsewhere since: the day in flight is the one day a thread works on
\* or a report in the channel is about.  (cancel_backfill and
\* forget_pruned_days keep that day in its place; forget_host keeps it too.)
\* Nor does a queued day wait while nothing is in flight, unless shutdown
\* rejects its insert.
OneFetchAtATime ==
    /\ Cardinality(fetching) + Len(messages)
         = IF days.in_flight = NoDay THEN 0 ELSE 1
    /\ fetching \subseteq {days.in_flight}
    /\ \A i \in DOMAIN messages : messages[i].day = days.in_flight
    /\ HasNextDay(days) => rejecting

\* The index the plot, the usage row and the auto-prune go by, and the
\* coverage the settings page shows, agree with the file once every report is
\* applied, except for days whose fetch and whose delete overlapped.
Reported(d) == \E i \in DOMAIN messages : messages[i] = [day |-> d, outcome |-> "Stored"]
BeingDeleted(d) == prune.outcome = "Removed" /\ d \in prune.days

StoredDayIsIndexed(d) == archive[d] # "Absent" => d \in archived_days \/ Reported(d)
IndexedDayIsStored(d) ==
    (d \in archived_days \/ days.recording_days[d] = "Archived")
        => archive[d] # "Absent" \/ BeingDeleted(d)

OnlyCrossedDaysGoStale ==
    \A d \in Days \ crossed : StoredDayIsIndexed(d) /\ IndexedDayIsStored(d)

\* A day a loaded recording waits for, that nothing will request.
Stranded(d) ==
    /\ d \in UNION loaded
    /\ days.recording_days[d] = "Awaited"
    /\ d \notin days.requested

\* Only two things strand a day: a changed host, and a backfill that had
\* queued the day before a recording asked for it and is then cancelled or
\* replaced.  No delete, report or load does.
OnlyHostsAndBackfillsStrand ==
    [][\A d \in Days : ~Stranded(d) /\ Stranded(d)'
            => d \in days.backfill \/ days' = forget_host(days)]_vars

\* Everything asked for comes to an end: the queue drains, a backfill ends,
\* and a delete is reported, unless shutdown begins.
Settled ==
    /\ days.in_flight = NoDay /\ days.queue = <<>> /\ days.backfill = {}
    /\ prune = NoPrune

EverythingSettles == ~Settled ~> Settled \/ rejecting
=============================================================================
