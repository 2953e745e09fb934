----------------------------- MODULE TrackValues -----------------------------
(***************************************************************************)
(* The values of the environment archives that are drawn for each loaded   *)
(* track, and the two caches they come from: TrackValuesByArchivedDays     *)
(* (the plotted points of the TEC, index and interference schedulers) and  *)
(* QuietTimeDeviationCache (the peak deviations of the TEC scheduler).     *)
(*                                                                         *)
(* Both are keyed by where a track stands in the window (its TrackRef) and *)
(* remember which indexed days they were read from.  A frame applies what  *)
(* the fetch threads and the delete reported, then draws.  A TrackRef is   *)
(* one position here: the pair of a file and a track in it shifts the same *)
(* way when something before it goes.                                      *)
(***************************************************************************)
EXTENDS Integers, Sequences, FiniteSets, SequencesExt

CONSTANTS
    Tracks,       \* what a position can show: a track of a recording
    LastDay,      \* the days are 1 .. LastDay
    Spans,        \* the days a track's fixes fall in
    Windows,      \* the days its deviation is formed from, its own included
    Positions,    \* bound: tracks in the window at once
    Revisions     \* bound: the revisions of days, the first in the file

Days == 1 .. LastDay
ASSUME LastDayAssumption == LastDay \in Nat \ {0}
ASSUME RevisionsAssumption == Revisions \in Nat \ {0}
ASSUME SpansAssumption == Spans \in [Tracks -> SUBSET Days]
ASSUME WindowsAssumption ==
    /\ Windows \in [Tracks -> SUBSET Days]
    /\ \A t \in Tracks : Spans[t] \subseteq Windows[t]

VARIABLES
    entries,        \* the tracks in the window, by position
    archive,        \* the revision the file holds of a day, 0 for none
    archived_days,  \* the scheduler's index of the archive
    reports,        \* days stored and not yet reported to the scheduler
    deleted,        \* the days of a delete not yet reported
    points,         \* interference_by_track, plot_points
    peaks,          \* QuietTimeDeviationCache::peaks
    samples,        \* QuietTimeDeviationCache::samples, by day
    phase,          \* where the frame stands: what it does next
    stores,         \* bound: stores left
    landed,         \* history: days reported as stored since the last draw
    crossed,        \* history: days whose delete was reported among their stores
    moved           \* history: positions that changed hands while cached

vars == <<entries, archive, archived_days, reports, deleted, points, peaks,
          samples, phase, stores, landed, crossed, moved>>

Unread == -1

\* Of a cache: an entry is filed under the indexed days, and says what was read,
\* of which track and in which revision of each day.
NoEntries == [p \in {} |-> 0]

Init ==
    /\ entries = <<>>
    /\ archive \in [Days -> {0, 1}]
    /\ archived_days = {d \in Days : archive[d] # 0}
    /\ reports = {} /\ deleted = {}
    /\ points = NoEntries /\ peaks = NoEntries
    /\ samples = [d \in Days |-> Unread]
    /\ stores = Revisions - 1
    /\ phase = "Reports"
    /\ landed = {} /\ crossed = {} /\ moved = {}

-----------------------------------------------------------------------------
\* The window's list of tracks, which changes between the draw of one frame
\* and the polls of the next.  on_track_indices_changed, which the last two
\* end in, resets the snaps, the map and the logs, and none of these caches.
Load(t) ==
    /\ Len(entries) < Positions
    /\ entries' = Append(entries, t)

Unload(p) == entries' = RemoveAt(entries, p)

\* A recording read again into its place, or cut into tracks another way.
Replace(p, t) == entries' = [entries EXCEPT ![p] = t]

ChangeEntries ==
    /\ phase = "Reports"
    /\ \/ \E t \in Tracks : Load(t)
       \/ \E p \in DOMAIN entries : Unload(p)
       \/ \E p \in DOMAIN entries, t \in Tracks : Replace(p, t)
    /\ UNCHANGED <<archive, archived_days, reports, deleted, points, peaks,
                   samples, phase, stores>>

-----------------------------------------------------------------------------
\* A fetch thread stores a day the archive lacks, or a revision of it.
Store(d) ==
    /\ d \notin reports /\ stores > 0
    /\ archive' = [archive EXCEPT ![d] = Revisions - stores + 1]
    /\ stores' = stores - 1
    /\ reports' = reports \cup {d}
    /\ UNCHANGED <<entries, archived_days, deleted, points, peaks, samples,
                   phase>>

\* PrunedDays: the days before a cutoff, every day for one past the last.
PrunedDays == {1 .. (cutoff - 1) : cutoff \in 2 .. (LastDay + 1)}

Delete(pruned) ==
    /\ deleted = {}
    /\ deleted' = pruned
    /\ archive' = [d \in Days |-> IF d \in pruned THEN 0 ELSE archive[d]]
    /\ UNCHANGED <<entries, archived_days, reports, points, peaks, samples,
                   phase, stores>>

-----------------------------------------------------------------------------
Without(cache, days) ==
    [p \in {p \in DOMAIN cache : cache[p].days \cap days = {}} |-> cache[p]]

\* Slip: only the samples of the day are dropped.
forget_peaks_SamplesOnly(days) ==
    /\ peaks' = peaks
    /\ samples' = [d \in Days |-> IF d \in days THEN Unread ELSE samples[d]]

\* Slip: the samples another track read of the day stay.
forget_peaks_PeaksOnly(days) ==
    /\ peaks' = Without(peaks, days)
    /\ samples' = samples

\* QuietTimeDeviationCache::forget and forget_pruned_days.
forget_peaks(days) ==
    /\ peaks' = Without(peaks, days)
    /\ samples' = [d \in Days |-> IF d \in days THEN Unread ELSE samples[d]]

\* TrackValuesByArchivedDays::forget_pruned_days.
forget_points(days) == points' = Without(points, days)

\* poll: every report of a stored day.  The plotted points are not told.
Poll ==
    /\ phase = "Reports" /\ phase' = "Deletes"
    /\ reports' = {}
    /\ archived_days' = archived_days \cup reports
    /\ forget_peaks(reports)
    /\ UNCHANGED <<entries, archive, deleted, points, stores>>

\* poll_environment_prune: the delete has not reported yet (it goes on with
\* the other archives), or the scheduler forgets the days it was to delete.
NothingToForget ==
    UNCHANGED <<deleted, archived_days, points, peaks, samples>>

ForgetDeleted ==
    /\ deleted # {} /\ deleted' = {}
    /\ archived_days' = archived_days \ deleted
    /\ forget_points(deleted)
    /\ forget_peaks(deleted)

PollDelete ==
    /\ phase = "Deletes" /\ phase' = "Draw"
    /\ NothingToForget \/ ForgetDeleted
    /\ UNCHANGED <<entries, archive, reports, stores>>

-----------------------------------------------------------------------------
\* resolve of either cache at one position: the entry filed under the days
\* the index holds of the span, or a fresh reading.
IsHeld(cache, p, span) ==
    p \in DOMAIN cache /\ cache[p].days = span \cap archived_days

Reading(t, span, revision) ==
    [days |-> span \cap archived_days, of |-> t,
     read |-> [d \in Days |-> IF d \in span THEN revision[d] ELSE 0]]

Resolved(cache, spans, revision) ==
    [p \in DOMAIN entries |->
        LET span == spans[entries[p]] IN
        IF IsHeld(cache, p, span) THEN cache[p]
        ELSE Reading(entries[p], span, revision)]

\* read_missing_samples for the tracks read anew, then the samples of the
\* days no loaded track is assessed over are dropped.
ReadAnew == {p \in DOMAIN entries : ~IsHeld(peaks, p, Windows[entries[p]])}
SamplesRead ==
    [d \in Days |->
        IF samples[d] = Unread /\ \E p \in ReadAnew : d \in Windows[entries[p]]
        THEN archive[d] ELSE samples[d]]
Assessed == UNION {Windows[entries[p]] : p \in DOMAIN entries}

\* plot_series and quiet_time_deviations, every frame.
Draw ==
    /\ phase = "Draw" /\ phase' = "Reports"
    /\ points' = Resolved(points, Spans, archive)
    /\ peaks' = Resolved(peaks, Windows, SamplesRead)
    /\ samples' = [d \in Days |-> IF d \in Assessed THEN SamplesRead[d]
                                  ELSE Unread]
    /\ UNCHANGED <<entries, archive, archived_days, reports, deleted, stores>>

ChangedHands ==
    (DOMAIN points \cup DOMAIN peaks)
        \ {p \in DOMAIN entries \cap DOMAIN entries' : entries'[p] = entries[p]}

\* A day is crossed if the delete is reported in the frame its store was, or if the
\* file has it again by then and the store behind the delete was reported before.
Remember ==
    /\ landed' = IF phase' = "Reports" THEN {}
                 ELSE IF phase = "Reports" THEN reports ELSE landed
    /\ crossed' = (IF phase = "Reports" THEN crossed \ landed' ELSE crossed)
                  \cup {d \in deleted \ deleted' :
                          d \in landed \/ (archive[d] # 0 /\ d \notin reports)}
    /\ moved' = IF phase = "Draw" /\ phase' # "Draw"
                THEN moved \cap DOMAIN entries
                ELSE moved \cup (IF entries' = entries THEN {} ELSE ChangedHands)

Next ==
    /\ \/ ChangeEntries
       \/ \E d \in Days : Store(d)
       \/ \E pruned \in PrunedDays : Delete(pruned)
       \/ Poll
       \/ PollDelete
       \/ Draw
    /\ Remember

Spec == Init /\ [][Next]_vars

-----------------------------------------------------------------------------
\* Days whose last reports are applied, with a draw between that of a store and that
\* of a delete and each in its order: what is known of them is what the file holds.
Known == Days \ (reports \cup deleted \cup crossed)

\* A drawn deviation is of the archive as it is: once a revision of a day is
\* reported, no reading of the earlier one is drawn again for a track that
\* kept its position, neither through the peaks nor through the samples that
\* another track left.  Nothing is said of a day that is crossed.
DrawnPeaksFollowRevisions ==
    [][Draw => \A p \in DOMAIN peaks' \ moved :
                  \A d \in Windows[entries[p]] \cap Known :
                      peaks'[p].read[d] = archive[d]]_vars

\* Nothing of a deleted day is drawn for a track that kept its position once
\* the delete is reported, also of a day that was read before it was in the index
\* and drawn since.  It says nothing of a day that is crossed: both caches drop a
\* track by the indexed days it is filed under, not by the days it read, so what was
\* read before the day was indexed outlives the delete if no draw came between the
\* two reports, or if the day was in the file and not in the index.
DeletedDaysLeaveTheDrawing ==
    [][Draw => \A cache \in {points', peaks'} : \A p \in DOMAIN cache \ moved :
                  \A d \in Known : cache[p].read[d] # 0 => archive[d] # 0]_vars

\* What on_track_indices_changed asks for (app.rs:1204): track indices
\* shifted, so what is keyed by them is rebuilt or dropped.  The points are
\* neither: after the track before it goes, a track of the same days is drawn
\* with the points of that one.
DrawnPointsAreTheTracksOwn ==
    [][Draw => \A p \in DOMAIN points' : points'[p].of = entries[p]]_vars
=============================================================================
