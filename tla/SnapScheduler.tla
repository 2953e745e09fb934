---------------------------- MODULE SnapScheduler ----------------------------
(***************************************************************************)
(* The runs that match tracks to the road network: SnapScheduler of        *)
(* src/src/app/snap.rs, the window that asks it for them (snap_state.rs)   *)
(* and the worker threads that answer.                                     *)
(*                                                                         *)
(* The scheduler queues by where a track stands in the window (its         *)
(* TrackRef, one position here) and keeps its results by what the track    *)
(* holds.  A frame applies what arrived, polls, says which tracks are      *)
(* shown and sweeps for automatic runs; the user acts between two frames.  *)
(* The session is online, and the choice for or against automatic runs has *)
(* been made.  A server is the host of its URL.                            *)
(***************************************************************************)
EXTENDS Integers, Sequences, FiniteSets, SequencesExt

CONSTANTS
    Tracks,       \* the contents a position can show
    Sendable,     \* the tracks that have a fix to send
    Servers,      \* the matching servers the settings can name
    Configured,   \* the server they name when the session starts
    Costings,     \* the road networks a track can be matched against
    None,         \* no run, no choice of a costing, no server, no track
    Positions,    \* bound: tracks in the window at once
    Actions       \* bound: loads and actions of the user

ASSUME SendableAssumption == Sendable \subseteq Tracks
ASSUME ConfiguredAssumption == Configured \in Servers
ASSUME BoundsAssumption == Positions \in Nat \ {0} /\ Actions \in Nat

VARIABLES
    entries,        \* the tracks in the window, by position
    shown,          \* the tracks whose line the map shows
    costing,        \* the costing a track would be matched with now
    snap,           \* the SnapScheduler, with the threads it spawned
    messages,       \* their channel to the window
    restoring,      \* the tracks whose stored runs are still being read
    settings,       \* what SnapSettings say of automatic runs and consent
    parked,         \* pending_snap, while the consent dialog is open
    sweep,          \* snap_auto_sweep
    left,           \* bound: of Actions left
    seen,           \* history: the tracks shown at the last frame
    shifted         \* history: positions shifted under an unfinished run

vars == <<entries, shown, costing, snap, messages, restoring, settings,
          parked, sweep, left, seen, shifted>>

At == 1 .. Positions
Nobody == 0
Priorities == {"Auto", "Manual"}

\* What identifies a run (SnapCacheKey), and what it became: server is where
\* its requests went.  A thread keeps the priority of its entry for the
\* properties alone, and told says that it reported progress.
Key == [content : Tracks, params : Costings, host : Servers]
Run == [key : Key, server : Servers]
Pending == [track : At, priority : Priorities, key : Key]
Thread == [track : At, priority : Priorities, run : Run, told : BOOLEAN]
Message == [kind : {"Progress", "Done", "Failed"}, track : At, run : Run]

Schedulers ==
    [server : Servers, http : BOOLEAN, queue : Seq(Pending), visible : SUBSET At,
     in_flight : At \cup {Nobody},
     activity : [At -> {"None", "Queued", "InFlight", "Failed", "NothingToSend"}],
     cache : SUBSET Run, latest : [Tracks -> Run \cup {None}],
     threads : Seq(Thread),
     refused : BOOLEAN]      \* history: a transport could not be built

\* A PendingSnapRequest.
Request == [tracks : SUBSET At, choice : Costings \cup {None}]
Nothing == [tracks |-> {}, choice |-> None]

TypeOK ==
    /\ entries \in Seq(Tracks) /\ Len(entries) <= Positions
    /\ shown \subseteq Tracks /\ seen \subseteq Tracks /\ restoring \subseteq Tracks
    /\ costing \in [Tracks -> Costings]
    /\ snap \in Schedulers
    /\ \A t \in Tracks : snap.latest[t] # None => snap.latest[t].key.content = t
    /\ messages \in Seq(Message)
    /\ settings \in [auto_snap : BOOLEAN, consent_host : Servers \cup {None},
                     prompt : BOOLEAN]
    /\ parked \in Request
    /\ sweep \in BOOLEAN /\ shifted \in BOOLEAN
    /\ left \in 0 .. Actions

Init ==
    /\ entries = <<>>
    /\ shown \in SUBSET Tracks
    /\ costing \in [Tracks -> Costings]
    /\ snap = [server |-> Configured, http |-> FALSE, queue |-> <<>>,
               visible |-> {}, in_flight |-> Nobody,
               activity |-> [p \in At |-> "None"], cache |-> {},
               latest |-> [t \in Tracks |-> None], threads |-> <<>>,
               refused |-> FALSE]
    /\ settings \in [auto_snap : BOOLEAN, consent_host : {Configured, None},
                     prompt : {FALSE}]
    /\ messages = <<>> /\ restoring = {} /\ parked = Nothing /\ sweep = FALSE
    /\ left = Actions
    /\ seen = {} /\ shifted = FALSE

-----------------------------------------------------------------------------
\* The scheduler's own operations, on its value s.

\* The oldest manual entry, else the oldest automatic one that is shown.
next_eligible(s) ==
    LET Oldest(S) == {i \in S : \A j \in S : i <= j}
        manual == {i \in DOMAIN s.queue : s.queue[i].priority = "Manual"}
        auto == {i \in DOMAIN s.queue : s.queue[i].track \in s.visible}
    IN Oldest(IF manual # {} THEN manual ELSE auto)

\* The transport is built on the first start after a change of the server, and
\* that may fail.  The run goes to the server of this moment.
Start(s, i, connects) ==
    LET p == s.queue[i]
        rest == [s EXCEPT !.queue = RemoveAt(@, i)]
    IN IF s.http \/ connects
       THEN [rest EXCEPT
               !.http = TRUE,
               !.in_flight = p.track,
               !.activity[p.track] = "InFlight",
               !.threads = Append(@, [track |-> p.track, priority |-> p.priority,
                                      run |-> [key |-> p.key, server |-> s.server],
                                      told |-> FALSE])]
       ELSE [rest EXCEPT !.activity[p.track] = "Failed", !.refused = TRUE]

start_next_if_idle(s, connects) ==
    IF s.in_flight # Nobody \/ next_eligible(s) = {} THEN s
    ELSE Start(s, CHOOSE i \in next_eligible(s) : TRUE, connects)

\* Slip: tracks that differ have one fingerprint.
KeyOf_OneFingerprint(s, t, params) ==
    [content |-> CHOOSE any \in Tracks : TRUE, params |-> params, host |-> s.server]

KeyOf(s, t, params) == [content |-> t, params |-> params, host |-> s.server]
Cached(s, key) == {run \in s.cache : run.key = key}
Store(s, run) ==
    [s EXCEPT !.cache = (@ \ Cached(s, run.key)) \cup {run},
              !.latest[run.key.content] = run]

\* promote_to_front, and the start after it.
promote_to_front(s, i, connects) ==
    start_next_if_idle(
        [s EXCEPT !.queue = <<[@[i] EXCEPT !.priority = "Manual"]>> \o RemoveAt(@, i)],
        connects)

\* Slip: a run in flight does not keep its track from being queued again.
request_snap_Twice(s, p, t, params, priority, connects) ==
    start_next_if_idle(
        [s EXCEPT !.activity[p] = "Queued",
                  !.queue = Append(@, [track |-> p, priority |-> priority,
                                       key |-> KeyOf(s, t, params)])], connects)

request_snap(s, p, t, params, priority, connects) ==
    LET key == KeyOf(s, t, params)
        waiting == {i \in DOMAIN s.queue : s.queue[i].track = p}
    IN CASE Cached(s, key) # {} ->
              [s EXCEPT !.latest[t] = CHOOSE run \in Cached(s, key) : TRUE]
         [] Cached(s, key) = {} /\ waiting # {} ->
              IF priority = "Auto" THEN s
              ELSE promote_to_front(s, CHOOSE i \in waiting :
                                          \A j \in waiting : i <= j, connects)
         [] Cached(s, key) = {} /\ waiting = {} /\ s.activity[p] # "None" -> s
         [] OTHER ->
              IF t \notin Sendable
              THEN [s EXCEPT !.activity[p] = "NothingToSend"]
              ELSE start_next_if_idle(
                     [s EXCEPT !.activity[p] = "Queued",
                               !.queue = Append(@, [track |-> p,
                                                    priority |-> priority,
                                                    key |-> key])], connects)

\* Slip: what was shown once stays shown.
set_visibility_OnlyGrows(s, standing, connects) ==
    LET visible == s.visible \cup {p \in standing :
                      \E i \in DOMAIN s.queue : s.queue[i].track = p}
    IN IF visible = s.visible THEN s
       ELSE start_next_if_idle([s EXCEPT !.visible = visible], connects)

\* standing holds the positions whose track is shown.
set_visibility(s, standing, connects) ==
    LET visible == {p \in standing :
                      \E i \in DOMAIN s.queue : s.queue[i].track = p}
    IN IF visible = s.visible THEN s
       ELSE start_next_if_idle([s EXCEPT !.visible = visible], connects)

\* A stored run cancels the automatic entry of its track, and is displayed
\* unless this session completed one.
restore_run(s, p, run) ==
    LET auto == {i \in DOMAIN s.queue : s.queue[i].track = p
                                        /\ s.queue[i].priority = "Auto"}
        rest == IF auto = {} THEN s
                ELSE [s EXCEPT !.queue = RemoveAt(@, CHOOSE i \in auto : TRUE),
                               !.activity[p] = "None"]
    IN IF s.latest[run.key.content] # None THEN rest ELSE Store(rest, run)

\* The threads go on, and what they report still lands.
reset_track_states(s) ==
    [s EXCEPT !.queue = <<>>, !.activity = [p \in At |-> "None"],
              !.in_flight = Nobody]

\* One message of poll.
Apply(s, m) ==
    LET idle == IF s.in_flight = m.track THEN Nobody ELSE s.in_flight
        Mark(activity) == IF s.activity[m.track] = "None" THEN s
                          ELSE [s EXCEPT !.activity[m.track] = activity]
    IN CASE m.kind = "Progress" -> Mark("InFlight")
         [] m.kind = "Done" ->
              [Store(s, m.run) EXCEPT !.activity[m.track] = "None",
                                      !.in_flight = idle]
         [] m.kind = "Failed" -> [Mark("Failed") EXCEPT !.in_flight = idle]

\* Slip: only a result starts the next run, a failure does not.
poll_AfterResults(s, received, connects) ==
    LET applied == FoldLeft(Apply, s, received)
    IN IF \E i \in DOMAIN received : received[i].kind = "Done"
       THEN start_next_if_idle(applied, connects) ELSE applied

poll(s, received, connects) ==
    LET applied == FoldLeft(Apply, s, received)
    IN IF received = <<>> THEN applied ELSE start_next_if_idle(applied, connects)

-----------------------------------------------------------------------------
\* The window.

Loaded == Range(entries)
Unfinished(s, channel) ==
    Len(s.threads) + Cardinality({i \in DOMAIN channel :
                                      channel[i].kind # "Progress"})
Standing(window) == {p \in DOMAIN window : window[p] \in shown}
consent_granted == settings.consent_host = snap.server

\* queue_auto_snaps: every track that displays no run, by position.
queue_auto_snaps(s, window, connects) ==
    FoldLeft(LAMBDA sched, p :
                 IF sched.latest[window[p]] # None THEN sched
                 ELSE request_snap(sched, p, window[p], costing[window[p]],
                                   "Auto", connects),
             s, [p \in DOMAIN window |-> p])

\* What a frame may find arrived: a recording beside the others or in the place
\* of one, and the stored runs of one whose run is restored.
NoLoad == [at |-> Nobody, of |-> None]
Loads == IF left = 0 THEN {}
         ELSE {load \in [at : At, of : Tracks \ Loaded] :
                 load.at <= Len(entries) + 1}
Restorable(t) == {None} \cup {[key |-> [content |-> t, params |-> c, host |-> h],
                                server |-> h] : c \in Costings, h \in Servers}

Place(load) == IF load.at = Nobody THEN entries
               ELSE IF load.at > Len(entries) THEN Append(entries, load.of)
               ELSE [entries EXCEPT ![load.at] = load.of]

\* apply_finished_background_work, and the prompt it may open: the loads, the
\* history's answers, then poll, set_visibility and the sweep.
FrameWith(load, answered, run, connects) ==
    LET window == Place(load)
        replaces == load.at \in DOMAIN entries
        swept == settings.auto_snap /\ consent_granted /\ (sweep \/ load # NoLoad)
        loaded == IF replaces THEN reset_track_states(snap) ELSE snap
        home == {p \in DOMAIN window : run # None /\ window[p] = run.key.content}
        restored == IF home = {} THEN loaded
                    ELSE restore_run(loaded, CHOOSE p \in home : TRUE, run)
        polled == poll(restored, messages, connects)
        lit == set_visibility(polled, Standing(window), connects)
    IN /\ entries' = window
       /\ snap' = IF swept THEN queue_auto_snaps(lit, window, connects) ELSE lit
       /\ messages' = <<>>
       /\ restoring' = (restoring \ answered)
                        \cup (IF load = NoLoad THEN {} ELSE {load.of})
       /\ settings' = [settings EXCEPT !.prompt =
              @ \/ (settings.auto_snap /\ ~consent_granted /\ window # <<>>)]
       /\ sweep' = FALSE
       /\ left' = IF load = NoLoad THEN left ELSE left - 1
       /\ seen' = shown
       /\ shifted' = (shifted \/ (replaces /\ Unfinished(snap, messages) > 0))
       /\ UNCHANGED <<shown, costing, parked>>

QuietFrame == \E connects \in BOOLEAN : FrameWith(NoLoad, {}, None, connects)

Frame ==
    \/ QuietFrame
    \/ \E load \in Loads, connects \in BOOLEAN :
          FrameWith(load, {}, None, connects)
    \/ \E t \in restoring, connects \in BOOLEAN : \E run \in Restorable(t) :
          FrameWith(NoLoad, {t}, run, connects)

\* The worker of run i reports a chunk, or its end.
Progress(i) ==
    /\ i \in DOMAIN snap.threads /\ ~snap.threads[i].told
    /\ snap' = [snap EXCEPT !.threads[i].told = TRUE]
    /\ messages' = Append(messages, [kind |-> "Progress",
                                     track |-> snap.threads[i].track,
                                     run |-> snap.threads[i].run])
    /\ UNCHANGED <<entries, shown, costing, restoring, settings, parked, sweep,
                   left, seen, shifted>>

Finish(i) ==
    /\ i \in DOMAIN snap.threads
    /\ \E kind \in {"Done", "Failed"} :
          messages' = Append(messages, [kind |-> kind,
                                        track |-> snap.threads[i].track,
                                        run |-> snap.threads[i].run])
    /\ snap' = [snap EXCEPT !.threads = RemoveAt(@, i)]
    /\ UNCHANGED <<entries, shown, costing, restoring, settings, parked, sweep,
                   left, seen, shifted>>

-----------------------------------------------------------------------------
\* The user.

Acts == left > 0 /\ left' = left - 1

\* What a row shows, and which of its actions the panel offers.
Stale(t) == \/ snap.latest[t].key.params # costing[t]
            \/ snap.latest[t].key.host # snap.server
Displays(p) == snap.activity[p] = "None" /\ snap.latest[entries[p]] # None
Clickable(p) ==
    \/ snap.activity[p] = "Failed"
    \/ snap.activity[p] = "None" /\ ~Displays(p)
    \/ Displays(p) /\ Stale(entries[p])
OffersCostings(p) == snap.activity[p] = "Failed" \/ Displays(p)

\* run_snap_request under consent: apply_costing_choice to every track asked for,
\* then queue_snap in their order.  A position that shows no track any more is
\* passed over.
run_snap_request(request, connects) ==
    LET asked == request.tracks \cap DOMAIN entries
        chosen == IF request.choice = None THEN costing
                  ELSE [t \in Tracks |-> IF \E p \in asked : entries[p] = t
                                         THEN request.choice ELSE costing[t]]
        again == IF request.choice = None THEN {}
                 ELSE {KeyOf(snap, entries[p], request.choice) : p \in asked}
        discarded == [snap EXCEPT !.cache = {run \in @ : run.key \notin again}]
        Queue(s, p) == IF p \notin asked THEN s
                       ELSE request_snap(s, p, entries[p], chosen[entries[p]],
                                         "Manual", connects)
    IN /\ costing' = chosen
       /\ snap' = FoldLeft(Queue, discarded, [p \in DOMAIN entries |-> p])

\* A request parks while consent is pending.
Ask(request) ==
    /\ Acts
    /\ request.tracks # {}
    /\ IF consent_granted
       THEN /\ \E connects \in BOOLEAN : run_snap_request(request, connects)
            /\ UNCHANGED <<settings, parked>>
       ELSE /\ parked' = request
            /\ settings' = [settings EXCEPT !.prompt = TRUE]
            /\ UNCHANGED <<snap, costing>>
    /\ UNCHANGED <<entries, shown, messages, restoring, sweep, seen, shifted>>

\* The action of a row.
Click(p) == /\ p \in DOMAIN entries /\ Clickable(p)
            /\ Ask([tracks |-> {p}, choice |-> None])

\* "Snap again as": of a row, or of a recording whose tracks are all asked for,
\* whatever their rows show.  The dialogs before it are not modelled.
SnapAgainAs(choice) ==
    \/ \E p \in DOMAIN entries : /\ OffersCostings(p)
                                 /\ Ask([tracks |-> {p}, choice |-> choice])
    \/ Ask([tracks |-> DOMAIN entries, choice |-> choice])

AcceptConsent ==
    /\ settings.prompt
    /\ settings' = [settings EXCEPT !.consent_host = snap.server, !.prompt = FALSE]
    /\ \E connects \in BOOLEAN : run_snap_request(parked, connects)
    /\ parked' = Nothing /\ sweep' = TRUE
    /\ UNCHANGED <<entries, shown, messages, restoring, left, seen, shifted>>

DeclineConsent ==
    /\ settings.prompt
    /\ settings' = [settings EXCEPT !.auto_snap = FALSE, !.prompt = FALSE]
    /\ parked' = Nothing
    /\ UNCHANGED <<entries, shown, costing, snap, messages, restoring, sweep,
                   left, seen, shifted>>

ChooseAutomatic(auto) ==
    /\ Acts
    /\ settings.auto_snap # auto
    /\ settings' = [settings EXCEPT !.auto_snap = auto]
    /\ sweep' = auto
    /\ UNCHANGED <<entries, shown, costing, snap, messages, restoring, parked,
                   seen, shifted>>

set_server_url(server) ==
    /\ Acts
    /\ server # snap.server
    /\ snap' = [snap EXCEPT !.server = server, !.http = FALSE]
    /\ UNCHANGED <<entries, shown, costing, messages, restoring, settings,
                   parked, sweep, seen, shifted>>

Toggle(t) ==
    /\ Acts
    /\ t \in Loaded
    /\ shown' = (shown \cup {t}) \ (shown \cap {t})
    /\ UNCHANGED <<entries, costing, snap, messages, restoring, settings,
                   parked, sweep, seen, shifted>>

\* A track goes, and on_track_indices_changed after it.
Unload(p) ==
    /\ Acts
    /\ p \in DOMAIN entries
    /\ entries' = RemoveAt(entries, p)
    /\ snap' = reset_track_states(snap)
    /\ sweep' = TRUE
    /\ shifted' = (shifted \/ Unfinished(snap, messages) > 0)
    /\ UNCHANGED <<shown, costing, messages, restoring, settings, parked, seen>>

Next ==
    \/ Frame
    \/ \E i \in DOMAIN snap.threads : Progress(i) \/ Finish(i)
    \/ \E p \in At : Click(p) \/ Unload(p)
    \/ \E c \in Costings : SnapAgainAs(c)
    \/ AcceptConsent \/ DeclineConsent
    \/ \E auto \in BOOLEAN : ChooseAutomatic(auto)
    \/ \E server \in Servers : set_server_url(server)
    \/ \E t \in Tracks : Toggle(t)

\* What the next frame would act on.
Due == \/ messages # <<>> \/ sweep
       \/ snap.visible # {p \in Standing(entries) :
                            \E i \in DOMAIN snap.queue : snap.queue[i].track = p}

\* The window repaints while something is due: weak fairness of QuietFrame, with
\* what enables it spelled out (all but finitely many frames find nothing
\* arrived).  The requests of a run time out.
Fairness ==
    /\ []<>~Due \/ []<><<QuietFrame>>_vars
    /\ WF_vars(\E i \in DOMAIN snap.threads : Finish(i))

Spec == Init /\ [][Next]_vars /\ Fairness

-----------------------------------------------------------------------------
\* Until positions shift under an unfinished run, the rows say what happens: a
\* row is queued when one entry waits for its track, and in flight when its run
\* is the one a worker holds or has reported (request_snap, poll).
RowsTellWhatRuns ==
    ~shifted =>
        /\ \A p \in At : (snap.activity[p] = "Queued")
                           <=> \E i \in DOMAIN snap.queue : snap.queue[i].track = p
        /\ \A i, j \in DOMAIN snap.queue :
               snap.queue[i].track = snap.queue[j].track => i = j
        /\ \A p \in At : snap.activity[p] = "InFlight" <=> snap.in_flight = p
        /\ Unfinished(snap, messages) = IF snap.in_flight = Nobody THEN 0 ELSE 1
        /\ \A i \in DOMAIN snap.threads : snap.threads[i].track = snap.in_flight

\* An automatic run starts for a track the map shows, or showed when the last
\* frame asked (next_eligible, set_visibility): a hidden track stays parked.
StartedAuto(p) ==
    LET OfAuto(s) == {i \in DOMAIN s.threads : s.threads[i].track = p
                                               /\ s.threads[i].priority = "Auto"}
    IN Len(snap'.threads) > Len(snap.threads)
       /\ Cardinality(OfAuto(snap')) > Cardinality(OfAuto(snap))
HiddenTracksStayParked ==
    [][\A p \in At : StartedAuto(p) => entries'[p] \in shown \cup seen]_vars

\* A queued run is started when its turn comes, a manual one always and an
\* automatic one once its track is shown, unless a transport was refused: then
\* what waits behind the failed run waits for the next poke.
Waits(p) == \E i \in DOMAIN snap.queue :
               /\ snap.queue[i].track = p
               /\ snap.queue[i].priority = "Manual" \/ entries[p] \in shown
QueuedRunsStart == \A p \in At : Waits(p) ~> (~Waits(p) \/ snap.refused)

=============================================================================
