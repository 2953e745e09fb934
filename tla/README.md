# GeoTrace in TLA+

GeoTrace is a desktop program for looking at GNSS recordings. Most of its code is numeric and
runs on one thread. What is hard to test is around that: several processes of one user share a
data directory, databases open and close on threads of their own, day archives are rewritten in
place, days are fetched into them while others are deleted, tracks are matched to roads by a
server that answers in chunks, a log takes its positions from a recording that is still on its way,
and a run has to end without losing a write and without hanging.
This directory models that part of the program in TLA+, checks the models with TLC on small
instances, and proves properties of some of them with TLAPS for every instance.

Paths below are relative to the repository.

## The system

| Component | State it keeps | Operations | Talks to |
|---|---|---|---|
| Registry of pending writes (`crates/gt-pending-writes`) | running writes by id, recently finished labels, write access, shutting down | try_begin, try_begin_shutdown_write, guard edit and drop, begin_shutdown, become_read_only, wait_until_idle_for | every thread that writes; shutdown; the instance lock, which reports it |
| Instance lock (`crates/gt-instance-lock`) | the OS lock on `instance.lock`, the outcome each process caches of its last attempt, `instance-status.json`, `take-over.json` | acquire, retry, give up, write status, read the holder's status, record a take-over, drop | other processes, through the files |
| Shutdown (`src/app/shutdown.rs`, `src/termination_signal.rs`, `src/main.rs`) | when shutdown began, the window, the force-quit prompt, the signal flag | intercept a close, begin_shutdown, prompt, force quit, the wait in main | registry, history worker, storage open |
| History worker (`src/app/history_db.rs`, `history_open.rs`) | a thread, a request and a response channel | requests, poll, end and join | registry, shutdown, storage open |
| Storage open (`src/app/storage.rs`, `instance_wait.rs`, `archive_recovery.rs`) | waiting, inspecting, asking, opening or finished; queued loads; read-only or owner | wait and retry, take over, start read-only, inspect, ask, open, adopt | instance lock, day archives, registry |
| Day archives (`crates/gt-hdf5-archive`, the `*-store` crates) | parallel columns of rows, a day index, a delete-in-flight mark | insert, replace, delete, recover, open | storage open, environment prune |
| Settings (`src/app/settings_ui/persist.rs`) | `config.toml` | flush, flush during shutdown | registry, instance lock |
| Day fetches (`src/app/day_fetch_*.rs`, `jamming.rs`, `tec.rs` and their siblings) | queued and requested days, the day in flight, coverage, failures, a backfill, the index of the archive | request, dispatch, poll, backfill and cancel, forget a host, forget deleted days | archives, registry, environment prune |
| Environment prune (`src/app/environment_storage.rs`) | the delete that runs, its report | start (by the user or by age), poll | archives, day fetches, track values |
| Track values (`src/app/track_day_values.rs`, `tec_quiet_time.rs`) | per position in the window, what was read of which days; samples by day | resolve when drawn, forget a day, forget deleted days | archives, the window's list of tracks |
| Snap scheduler (`src/app/snap.rs`, `snap_state.rs`) | a queue with priorities, the track in flight, row states, results by content, consent | request, promote, poll, visibility, sweep, restore, reset, change of server | worker threads, the window, the matching server |
| Snap requests and results (`crates/gt-snap`) | the plan of chunks; points and segments so far | plan, send, merge | the matching server |
| File loader (`src/app/loader.rs`, `recording_from_disk.rs`, `association_batches.rs`, `log_association.rs`, `crates/gt-log-view`) | recordings and logs on their way, batches, loaded files, loaded logs and their anchors, the dialog | arrive, screen, prompt, open, load, register, decide, ask, unload, rename | history worker, load threads |
| Recordings database, query engine, plots, parsers | tables; pure functions | transactions; evaluation | history worker, interface |

What each must get right:

- *registry*: a granted write is always one the drain waits for, no wake-up is lost, nothing is
  granted that was forbidden;
- *instance lock*: the process that believes it owns the directory is the one the operating
  system gave the lock to; the status beside the lock is whole and belongs to the holder;
- *shutdown*: one signal never abandons a write, a success leaves nothing running, and every
  shutdown ends;
- *storage open*: nobody writes beside the holder unless the user said so or the lock file
  failed, nothing is discarded unasked, and what arrives meanwhile is loaded in order;
- *day archives*: an index entry names exactly the rows of its own day, through crashes in
  inserts, deletes and the recovery from them;
- *day fetches*: one request goes to a host at a time, whatever was cancelled meanwhile; what the
  window believes of an archive is what the file holds once all reports are applied; a day that a
  recording waits for is not forgotten; the queue drains;
- *track values*: what is drawn for a track is its own, and of the archive as it is;
- *file loader*: a log is judged by the recordings it arrived with, however those come in, and by no
  others; no log waits for ever; an anchor names what is there;
- *snap runs*: a row says what its run does, a hidden track is not uploaded automatically, what is
  queued is started, and the result has every answered fix once, with its gaps and breaks.

## Modules

| Module | Models | Abstract specification it meets |
|---|---|---|
| `WriteDrain` | what the registry promises its users | |
| `PendingWrites` | the registry, locked section by locked section | `WriteDrain` |
| `DirectoryMark` | the OS lock and the cached outcome; used by `InstanceLock` and `StartUp` | |
| `InstanceLock` | the status and take-over files, system call by system call | |
| `Shutdown` | the end of a run, over `WriteDrain` as the registry | |
| `ShutdownProofs` | the theorems about it | |
| `StartUp` | the way to open databases in several processes, over `DirectoryMark` | |
| `WriteAccessProofs` | the theorems about `PendingWrites`, `InstanceLock` and `StartUp`: who may write, and what waits for whom | |
| `DayStore` | what an archive promises: for each day, the fetch it holds | |
| `DayArchive` | columns, index, mark, and the order of writes | `DayStore` |
| `DayArchiveProofs` | the theorems about it | |
| `DayFetchQueue` | the queue of days, as operators on one value; used by `DayFetches` | |
| `DayFetches` | an environment scheduler, its fetch threads, its archive and the delete beside it | |
| `DayFetchesProofs` | the theorems about it | |
| `TrackValues` | what is cached of an archive for the drawing of each track | |
| `TrackValuesProofs` | the theorems about it | |
| `LogAssociation` | arrivals, their batches, the way of recordings and logs, anchors and the dialog | |
| `LogAssociationProofs` | the theorems about it | |
| `SnapScheduler` | snap runs: queue, threads, rows, results, consent | |
| `SnapMerge` | what a snap run sends, and the merge of the answers | |
| `SnapProofs` | the theorems about `SnapScheduler` and `SnapMerge` | |
| `DataInduction` | lemmas: induction over the naturals, recursive functions, folds and flattened sequences; used by `DayArchiveProofs` and `SnapProofs` | |

A module `MCx` gives module `x` to TLC: it only names the sets that the `.cfg` files choose from.
The specifications of `InstanceLock`, `StartUp` and `SnapMerge` are named after them (`LockSpec`,
`StartSpec`, `MergeSpec`, with `LockTypeOK` and so on), as the theorems about several modules share a
module; the others have `Spec` and `TypeOK`.
Operators that begin with the comment "Slip:" are plausible mistakes in the definition that
follows them. They are used by no specification; substituting one breaks the property that is
paired with it in `PROJECT.json`, which shows that the property depends on the code.

### PendingWrites

Every access to the registry is under one mutex, so a locked section is one action. Three things
happen outside it and are steps of their own: the write itself (between `try_begin` and
`drop_guard`), the notification a drop sends after it unlocked (`notify_all`), and being parked on
the condition variable. `running` maps ids to writes as in the code, `guard` is the id in the
guard a thread holds. A rejected `try_begin` changes nothing and is a stutter.

The refinement maps "a thread is writing" to "it holds a guard". The interesting step is the
return of a wait: it re-reads the map under the lock, and "idle" maps to "no thread is writing"
only because the map holds exactly the live guards.

### DirectoryMark and InstanceLock

`lock_holder` is the operating system's view and `mark[p]` the outcome process `p` cached. They
change together only when `p` tries the lock. A process that dies loses its lock at once and
leaves its files. Each replacement of a file is three steps: creating the `.new` file, filling it,
renaming it. `open` records under which name the descriptor's file goes by now, since another
process may rename it in between; that can happen to the take-over record, which has no lock
around it, and must not happen to the status.

### Shutdown

The main thread runs frames. `at` is the next point at which it reads or changes something that
another thread changes too; what lies between two such points is one step. The threads beside it
are the database open, the history worker with its two channels, the threads that join the worker,
a background writer, and the signal thread. The state of the registry is that of `WriteDrain`, and
every access to it is one of its actions. After the window closes, main drops the app, waits for
the writes, and ends with one of four exit codes.

### StartUp

`app[p]` is what a process keeps; the archive is reduced to its mark and to who has it locked for
a delete, and `config.toml` to who wrote it last. The four archives are one: an archive's plan
depends on its own finding only. The prompt for an archive held by another process offers no
recovery. A retry inside an open that finds the file locked is one outcome of that open.

### DayArchive

An operation holds the store's mutex and the lock of the file throughout, so it is one action; it
makes all of its writes, or stops at the first that cannot be made, or stops at a fault. The three
data columns stand for the columns before, at and after the one whose length is read as the next
offset. `fetched_at` stands for the host as well, which is written right after it. Every row is
named by the fetch that produced it, so that a column says whose rows it holds. The code's filters and
sorts are stated by what they return: `KeptRows` is the one sequence of the kept rows in index order,
`Laid` the one in the order their extents sit in, `Compacted` the running sums of the counts.

Every operation may stop before any of its writes, by a write that fails while the session goes on or by the
death of the process. Not every such stop can be put right, so the history variable `stopped` records those
that inserts and deletes met, and the properties say which they hold under. `SurvivedStops` are three: the
process dies while the rows of a day are appended, while a delete moves rows, or between the unlinking
and the creation of a column (after which the code refuses every open). The others are not put right by the
code: a write that fails in an append or a delete of a session that goes on, and any stop among the
columns of an index entry. `Survived` says that none of these happened, `NoEmptyDay` that no day without
rows was stored (a later delete may be rejected over it), `Whole` that both hold. The set is as wide as the
code allows: with any one of the five other stops of inserts and deletes in it, TLC finds
`OpenPutsTheArchiveRight` violated, and with all but one of them each of the other two properties. A stop of
an open (`recovery`, `cut`) is not recorded: any of them is survived.

A write made before a stop is taken to be in the file. libhdf5
caches what it writes until the file is closed, so for a killed process this is an assumption; for
an operation that returns an error it is what happens, because the file is closed normally.

### DayFetchQueue and DayFetches

`days` is the `DayFetchQueue`, with the fields of the code. One module stands for the four
schedulers: `source` chooses between the rules of two of them. Interference is published once and
`insert_day` refuses a day already stored; a TEC map is fetched again while it is the rapid product,
and a recording also asks for the days around it (`Around` is one day where the code has the 27 of
the quiet-time window). The scheduler's `poll` drains the channel before it starts the next fetch;
with one fetch at a time the channel holds one report at most, so `Poll` takes one.

`Load` is the environment part of `handle_completed_load`: the requests and then the automatic
delete, whose cutoff another scheduler's oldest day may lower further. A delete is three steps as in
the code: the thread empties this archive (or leaves it), goes on with the others, and its report is
applied by a later frame, which forgets the days and asks for those of every loaded recording again.
The history variable `crossed` collects days a fetch and a delete overlapped on.

### TrackValues

A position stands for a `TrackRef`. Each frame polls the fetches, polls the delete, and draws;
`phase` keeps that order, and days are stored and deleted between any two of its steps. A cache entry
is filed under the days that were in the index, and records as `read` the revision of each day the
reading really found, and as `of` the track it was read for: the code keeps the values only, and these
two are what the properties compare. `moved`, `landed` and `crossed` are history: positions that
changed hands under a cached entry (the finding `another_tracks_points`), days reported as stored since the
last draw, and days that a store and a delete crossed on. A day is crossed if its delete is reported in the
frame in which its store was, or if the file has it again by then and the store behind the delete was
reported first; it is until it is reported as stored again. Both properties leave crossed days out, because the
code keeps a reading of them: both caches drop a track by the indexed days it is filed under, and one that
read the day before it was indexed is filed under none. Without either half of `crossed` TLC finds each of the two
properties violated. A day read before it was indexed and drawn once between the two reports is covered.

### LogAssociation

An operation is a recording on its way: `stage` says who holds it (the history worker, a prompt, a
load thread, the channel back), `over` the name under which it was found or opened in history. The
counts of `BatchProgress` are not kept: a token lives exactly as long as its operation or reading, so
`RecordingsOf` and `ReadingsOf` count those. A recording is stored under a name; a rename takes the
next. `loaded_files` and `logs` are keyed by the ids the code gives out, which are never used twice.
`KeyOf` is the `RecordingKey`: the name in history, or the id of the entry.

Several of the code's steps are one where nothing else can tell them apart: the screening and
`load_screened_recordings`, reading from history and `begin_history_open`, selecting in the dialog and
confirming. `born` and `request` are history; by them `Seen` says which recordings a log may be judged
by without a look at the candidates the code collects.

### SnapScheduler

`snap` is the `SnapScheduler` with its threads; its operations are operators on it, named as in the
code, since several of them run within one frame. `FrameWith` is the whole of
`apply_finished_background_work` as far as it concerns snaps, in its order: loads, answers of the
history worker, `poll`, `set_visibility`, the sweep. The user acts between frames. Whether a transport
can be built is a choice at each start. `shifted` records that positions shifted under an unfinished
run: from then on two runs may be going at once, by `reset_track_states`.

### SnapMerge

`plan`, `send_plan` and `merge` walk the chunks in one order, so a step cuts, answers and merges one
chunk. The server's answer to each owned point is any of `Matches`; a chunk may also be off the road
network or fail. A segment is the sequence of fixes its vertices are attributed to. `answered` is
history: what was said of each fix by the chunk that owns it. `Ascending` stands for the order in which
the code walks the points. A matched point may be on no edge (an interpolated one, `wire.rs:208`); it
belongs to a group and has no vertex (`snapped_track.rs:213`).

`RunsOn` and `IsOneRoad` say what the geometry may and must do between two fixes, from the plan and the
answers alone. Within a chunk the two are one rule, that of `SnapResult::segments`: a segment goes on from one
fix on an edge to the next unless a discontinuity or an unmatched fix is between them. At the cut between
two chunks they differ. A road that nothing interrupts must go on over the cut. One with an unmatched fix at
the cut, or with a ghost, must not. Between them lies what the code and the comment on the field
(`merge.rs:153`) disagree on: the code joins where the fixes on both sides of the cut are matched and the
earlier chunk drew anything at all (`merge.rs:357`, `owned_boundary_snappable`), and so joins over a
discontinuity flagged at the cut and over an unmatched run between the last fix on an edge and a cut whose
fixes are interpolated, where the comment wants a split. There `SegmentsAreTheUnbrokenRoads` allows both.
Over a whole chunk that has no fix on an edge no segment goes on.

## Runs

| Run | States | Bounds | Shows |
|---|---|---|---|
| `pending_writes` | 223,784 | 3 threads, 4 writes, 2 labels kept | registry and guards agree, no lost wake-up, refinement of `WriteDrain` |
| `instance_lock` | 449,000 | 3 processes, one of which may have failing files, symmetric | ownership, and what the status file says of it |
| `shutdown` | 359,000 | 1 writer, 2 signals, 1 queued request | exit codes, no worker after shutdown began, signals answered, shutdown ends |
| `day_archive` | 171,308 | 3 days, 1 or 2 rows, 3 fetches, any stop; `CONSTRAINT`: nothing is explored behind a stop that is not survived | entries name their own rows, opens put the archive right, refinement of `DayStore` |
| `start_up` | 277,658 | 2 processes, lock file fails, 1 load each, 1 delete | wait and open end, who may write, discarding only by choice, running deletes left alone |
| `day_fetches` | 247,224 | 2 days, 2 recordings, 3 requests, both sources, shutdown at any time | one fetch at a time, index and file agree, no day stranded by a delete or a report, the queue drains |
| `track_values` | 2,668,991 | 2 days, 2 tracks in 2 positions, 3 revisions | drawings follow revisions and deletes, but for crossed days |
| `snap_scheduler` | 444,984 | 2 tracks, 2 servers, 1 costing, 3 actions and loads | rows tell what runs, hidden tracks wait, queued runs start |
| `snap_merge` | 424,901 | tracks of up to 3 fixes, drives of 7, chunks of 4 with an overlap of 2, points on an edge or interpolated | points are the answered fixes, segments go on where the road does |
| `log_association` | 812,187 | 2 recordings, 2 logs, 2 requests (arrivals of up to 2 recordings and a log, opens, dialogs), 1 rename | logs judged by what arrived with them, batches outlive their tokens, anchors true but for renames, no log waits for ever |
| `empty_day` | | 3 days, 0 or 1 rows, 4 fetches; `CONSTRAINT`: nothing stops | a delete fails over an empty day after marking the archive |
| `another_tracks_points` | | 2 tracks of one day | a track is drawn with the values of the one removed before it |

The last two each check a sentence of the repository's own documentation, and TLC finds it
violated; `PROJECT.json` quotes the sentence and the line under "findings".

What the models reach and no run states, where the code also differs from its documentation:

- a waiting process reads the status a killed holder left (`gt-instance-lock/src/lib.rs:498`);
- a force-quit confirmation that reported the end lists costs again when a storage lands late
  (`shutdown.rs:122`);
- a taken-over session saves `config.toml` at its own shutdown (`persist.rs:278`);
- cancelling a backfill forgets a day that a recording asked for meanwhile, and a changed host the
  days of the loaded recordings: `OnlyHostsAndBackfillsStrand` says these are the only two;
- a queued snap run is sent to the server the settings name when it starts, and is filed under the
  one they named when it was queued (`snap.rs:739`, `PendingRun::server_host`);
- a failed snap run is not run again by a click on its row (`snap.rs:562`);
- a process that dies after a delete unlinked a column and before it created it again leaves an archive
  that no open puts right: the recovery truncates the column that is not there and fails, at every open
  (`prune.rs:637`), where `prune.rs:264` promises "a state its index and rows agree on". The run has this stop:
  `OpenPutsTheArchiveRight` says that it is the only thing that makes an open refuse, and no wrong rows are
  read after it;
- a write that fails in a delete leaves the mark in the file and the session goes on with half-moved rows
  (`prune.rs:310`), and the next insert appends to them; the next open drops every day;
- a row append that fails in a session that goes on lets the next day's entry name rows of the failed one
  (`gt-flare-store/src/lib.rs:298`), which line 290 and `prune.rs:28` rule out;
- an insert that stops among the columns of its index entry, by a kill or by a failing write
  (`day_index.rs:131`), leaves index columns of different lengths or a replaced entry that is half old; no
  open looks at that, and the next insert puts its values in the wrong rows. The model has these three, too, and
  the properties promise nothing after them: none of them is in `SurvivedStops`;
- a deleted day goes on being drawn for a track that read it before it was in the index, if its store and its
  delete are reported in one frame, or the delete behind a store that came after it: `forget_pruned_days`
  keeps the track, since the days it is filed under do not name the deleted one, though
  `track_day_values.rs:70` says that every track that read a deleted day is dropped. The properties leave
  these days out (`crossed`);
- a rename leaves the logs behind: their anchors name the old identity, under which nothing is loaded
  again (`gt-loaded-files/src/lib.rs:412`), though `gt-log-view/src/anchor.rs:8` says an anchored log
  finds its recording across an unload and the next load. A load in flight across a rename adds an
  entry under the old name as well, and a recording opened again after a rename keeps the identity its
  file states, so the next rename passes it by;
- the same stored recording may be loaded twice; a log anchored to it goes with the first of the two
  entries to be unloaded, though the other is still loaded (`modals.rs:429`);
- at the cut between two chunks neither the discontinuity flags nor unmatched fixes before the last one are
  looked at (`merge.rs:357`), so a segment may go on over them, which the comment on
  `SnapResult::segments` (`merge.rs:153`) rules out: `SegmentsAreTheUnbrokenRoads` is silent there.

Why the bounds are enough for what they are meant to show:

- Two writers can be alive while a third starts, drops or notifies: three threads cover every
  overlap of a drop with a start and a park. Ids only matter when they could repeat, which takes
  three writes; there are four.
- The files of the instance lock are shared by a holder, a process that waits and one that takes
  over. A fourth process has a role one of these has.
- Two signals are what the program tells apart. One queued request is enough for the worker to be
  handling one, answering one, or holding one in its channel when its channels close.
- A delete moves rows only where a day before the kept one goes, and it merges two kept days over
  a gap: three days. A replaced day needs a second fetch of a day; an empty day that collides with
  one needs a fourth fetch.
- The lock file may fail in `start_up`, since that is where a process writes without the mark and unasked.
  What `OnlyATakeOverWritesBesideTheHolder` says of directories whose lock file never fails is idle in that
  run, and rests on the theorem `WritersAreOwners`.
- Two processes give a holder and one that waits, takes over or opens beside it. What a third adds,
  a next holder beside a take-over, is the stale mark of `archive_recovery.rs:274`, which no property
  states.
- Two days let one be in flight, queued or backfilled while the other is deleted or asked for again;
  a cutoff splits them, and the two recordings share one. Three requests are a load, a backfill or
  delete, and the cancel or the change of host after it.
- Two tracks share a day's samples while one keeps its peak. Three revisions are one that is drawn, one
  that is drawn over it, and one that arrives before the second is reported.
- Two tracks and two servers: a run in flight, one behind it, and a change of the server between the
  two. Three actions are the loads of both tracks and one action of the user, or one load and two.
- Two arrivals let a recording of one land while a log of the other waits, and the second request may
  instead open a recording or a dialog. The two recordings that ran with the first log make it
  ambiguous when both are in scope and not when one is. One rename is enough for a name that is found
  no more; a second is passed by, as above.
- Chunks of four with an overlap of two give a first chunk, one in the middle and a last one in seven
  fixes, so that a road may be joined twice, and a chunk in the middle owns two points, an interpolated
  one among them; in three fixes, ghosts and time steps come in any order. A discontinuity is flagged at
  the start of a point on an edge or at the end of an interpolated one.

Deadlock is checked where the system has no end of its own. In `InstanceLock`, `Shutdown` and
`StartUp` a process ends, and all processes may have ended; `DayFetches` and `SnapScheduler` rest once
the user's requests are used up and everything is answered; `SnapMerge` ends with the last chunk; `LogAssociation` with
the last arrival decided:
`CHECK_DEADLOCK FALSE`. That a shutdown does not hang is stated as `ShutdownEnds` instead, and that the
schedulers do not stop early as `EverythingSettles` and `QueuedRunsStart`.

### Fairness

- `PendingWrites`: a granted write ends, a drop that unlocked notifies, a woken thread runs. The
  timeout of the wait is not fair: what must happen has to happen without it.
- `Shutdown`: threads run, and a granted write ends. The main thread is fair only while something
  makes it paint: a raised signal wakes the interface (`set_gui_context_to_wake`), and a shutdown
  under way asks for a repaint every tenth of a second. The confirmation closes itself: its
  countdown is strongly fair, as the pointer that pauses it leaves at some time. Users are not
  fair.
- `StartUp`: background threads end, and a frame that waits, or that has a result to adopt, is
  painted again (both ask for a repaint). Users are not fair: a prompt may stay up for ever.
- `DayFetches`: a fetch ends (its transport has timeouts), a delete ends, and a report is polled: both
  threads request a repaint when they send one. Requests of the user are not fair.
- `SnapScheduler`: a run ends (its requests time out), and the window paints while something is due:
  a worker asks for a repaint with each message, and a click or a checkbox is itself an input the
  window paints for. Progress reports and users are not fair. A queued run is owed a start only while
  every transport could be built.
- `LogAssociation`: the history worker and the threads end and each asks for a repaint with its result,
  which the frame takes. `resolve_initial_log_associations` is strongly fair: every frame runs it before
  it takes what the user does, so dialogs that open and close do not keep it from the logs. Users are
  not fair: the property is of behaviours in which no question stays open.
- `TrackValues` and `SnapMerge` have safety properties only, and no fairness.

## Proofs

### Write access: the registry, the lock, the start

`WriteAccessProofs` proves of `PendingWrites`, for every set of threads, every set of kinds, every number of kept
labels and every number of writes:

- `TypeCorrect`: `Spec => []TypeOK`;
- `RegistryHoldsTheLiveGuards`: `Spec => []LiveGuardsAreTheRegistry`;
- `GuardsStayDistinct`: `Spec => []GuardsAreDistinct`, no two threads hold a guard of one id;
- `RegistryImplementsDrain`: `Spec => ImplementsDrain`, the refinement of `WriteDrain`.

The inductive invariant is `RegistryInv`: the type invariant, the correspondence of guards and
entries, and that ids given out are distinct and below `next_id`. The correspondence alone is not
inductive: a drop removes one id from the map, and only because no other thread holds that id are
the other guards still registered; a start adds `next_id`, which no guard may hold yet. The only
assumptions are those named in the module: `RecentlyFinishedKept` and `MaxRegistrations` are
natural numbers and `None` is not an id.

It proves of `InstanceLock`, for every set of processes and every number of them whose file
operations fail:

- `InstanceTypeCorrect`: `LockSpec => []LockTypeOK`;
- `OwnersHoldTheLock`: `LockSpec => []OwnerIsTheLockHolder`;
- `ReadersFindWholeStatuses`: `LockSpec => []StatusIsNeverHalf`;
- `StatusTellsOfTheOwner`: `LockSpec => []StatusTellsTheHolder`;
- `StatusesAreLeftByTheKilled`: `LockSpec => []StatusOutlivesOnlyTheKilled`.

The first three follow from `InstanceInv`. That a reader never finds half a status is not inductive:
the rename puts in place whatever the `.new` file holds, so the `.new` file must be whole when its
writer has written it (`StatusReplacementIsPrivate`). It is whole because nobody else opened it in
between, which holds because whoever replaces the status has the mark (`OnlyTheOwnerReportsStatus`)
and one process at most has it. The take-over record has no such owner: two processes may write its
`.new` file at once, and nothing is claimed of it. `StatusTellsOfTheOwner` adds `ReportInv`, which
follows a report from the call that starts it through the `.new` file into the status file: its
proof splits every step into the owner's own and those of the others, which leave the report alone.
`StatusesAreLeftByTheKilled` needs `RemainsInv`: a process writes statuses of its own only; the status file
names a living process without failures only while that process has the mark and has not removed the file;
and the `.new` file does so only between its write and its rename, so no later rename brings an old status back.
The assumptions are that `Nobody` is not a process, and that `Absent` and `Half` are different and
neither is a record.

It proves of `StartUp`, for any number of processes, loads, deletes and tries of the lock file, whether lock
files fail or not:

- `StartTypeCorrect`: `StartSpec => []StartTypeOK`;
- `WritersAreOwners`: `StartSpec => []OnlyATakeOverWritesBesideTheHolder`;
- `TakeOversAskFirst`: `StartSpec => TakenOverSessionsAskBeforeDiscarding`;
- `DeletesAreLeftAlone`: `StartSpec => RunningDeletesAreLeftAlone`.

The invariant is mostly about one process at a time: `Stands(a, m)` relates what a process keeps to the
outcome it has of the mark, and a step of one process leaves the others standing (`Moves`). It says that a
process before its open has not taken over; that access without the mark, once the open began, has one of
the three reasons the property names; that a read-only session gave the mark up; and that a process which
took over opens with a plan that declines, or found the delete itself. The writers exclude each other only
through `OwnerIsTheLockHolder`, which is part of the invariant. `FilesStand` relates the archive to the
processes: who deletes has it open to write and wrote it last. Without it the end of another
process's delete could not be told from a discard. The assumptions are that `Nobody` is not a process and
the types of the bounds; the invariant was checked by TLC on the instance of `start_up` before it was proved.

### Day archives

`DayArchiveProofs` proves for any finite, non-empty set of days, any row counts, any number of fetches, and
an archive that replaces days or refuses them:

- `TypeCorrect`: `Spec => []TypeOK`, whatever stops an operation where;
- `EntriesStayTrue`: `Spec => []EntriesNameTheirOwnRows`;
- `OpensPutRight`: `Spec => []OpenPutsTheArchiveRight`;
- `StoreIsImplemented`: `Spec => ImplementsDayStore`, the refinement of `DayStore`.

The theorems assume nothing of the stops and the row counts; the properties themselves say what they hold
under. `EntriesNameTheirOwnRows` speaks of an archive that `Survived`, the other two of one that is `Whole`
(the store of the refinement is `torn` from then on, and a torn `DayStore` may do anything). They are
history: once a stop is not survived, nothing is promised again. That leaves out what the code gets wrong, not what
is hard to prove (see Runs). The entries stay true where days have no rows as well, so
`EntriesNameTheirOwnRows` does not ask for `NoEmptyDay`; `empty_day` shows what a delete does with such a day.

The invariant is `Upright`: while the archive survived its stops it is `Sound`, or it is `Stuck`, its mark set and
a column unlinked by a process that died: no open of it succeeds, and nothing creates the column again.
In a sound archive no column is unlinked, and no open of it is refused. One that is settled or open
is `Consistent`: the index columns are of one length, name each day once, and each entry names in every data
column the rows of one fetch of its day. An open one is `Parallel` too, its data columns being of one length,
which the next insert relies on when it takes the length of one of them for the offset in all. Nothing is said
of the rows between the mark and its return: a stop there leaves columns of which some have been moved and
others not, and the recovery drops them all. While it is `Whole` an open archive is settled besides
(`Clear`): the extents of different days never overlap, because each is filled with rows of its own
fetch, so no plan is rejected. A delete writes seven columns from one plan; its proof goes from the plan (`PlanIs`:
rows kept, in order, without overlap) over the running sums of `Compacted` and the flattened extents
(`FlattenAt`) to the entry of each kept day, which the moved offsets name. The refinement is step by step: an insert
that is stopped in the rows leaves the index as it was and stores nothing; a delete that is stopped may have
removed everything once the next open has recovered, which `DayStore` allows a delete to do.

### Days

`DayFetchesProofs` proves for every last day, every set of recordings, both sources and any number of
requests:

- `TypeCorrect`: `Spec => []TypeOK`;
- `OneRequestAtATime`: `Spec => []OneFetchAtATime`;
- `IndexIsTrueOfUncrossedDays`: `Spec => []OnlyCrossedDaysGoStale`;
- `OnlyHostsAndBackfillsStrandDays`: `Spec => OnlyHostsAndBackfillsStrand`.

`IInv` has three parts. `Dispatch` says that the day in flight is in one place, a thread or the channel,
and that a day waits with nothing in flight only while inserts are rejected; it is inductive once the
queue is typed (`Typed`). The agreement of index and file needs `Tracked`: while a delete that emptied
the archive has not been reported, its days are indexed and not stored, and the next insert of one would
make the index right for the wrong reason. Such a day is in flight under a delete, hence crossed; so for
an uncrossed day `Tracked` can say that under a finished delete it is absent, and that a "Stored" report
is of a stored day. The last theorem is about steps: of all operations on the queue only `forget_host` and
the end of a backfill take a day out of `requested` without asking for it again. `Retained` states
`VecDeque::retain` as the order-preserving rest of a queue, which the proofs can use where a recursive
filter could not be. The assumptions are those named in the modules: days are natural numbers,
`NoDay` is none of them, and the bounds have their types.

`TrackValuesProofs` proves for any tracks, spans, windows, days, positions and revisions:

- `PeaksAreOfTheLastRevision`: `Spec => DrawnPeaksFollowRevisions`;
- `DeletedDaysAreNotDrawn`: `Spec => DeletedDaysLeaveTheDrawing`.

Both speak of a draw, and `Inv` says what must hold before it. `IndexStands` and `SamplesStand` bound how far
index, file and samples may be apart: by the days still to be reported and those a delete crossed. An entry
(`CacheStands`) is of the track at its position; it lacks a day of the index only if that day was reported
since the last draw, so that the draw reads it again, and has a day the index lacks only if its report is
outstanding. `ForgetDeletedInv` is the step that needs both halves: an entry survives the forgetting only if
it is filed under none of the deleted days, and one that read such a day all the same either read it before
its report and was not drawn since, or read it when the index lacked it; both make the day crossed, and a day
stays crossed until it is indexed anew. The positions that changed hands (`moved`) are outside every part: there
the code does draw another track's values. The assumptions are those named in the module: every track's span
lies in its window, the last day and the revisions are positive. `Inv` was checked by TLC on the instance of
`track_values` before it was proved.

### Logs

`LogAssociationProofs` proves for any recordings, logs, overlaps, arrivals and renames:

- `TypeCorrect`: `Spec => []TypeOK`;
- `ArrivalsFindTheirBatch`: `Spec => []BatchesOutliveTheirArrivals`, so `batch_for_live_arrival_mut` never
  panics;
- `LogsAreJudged`: `Spec => LogsAreJudgedByWhatArrivedWithThem`;
- `AnchorsLast`: `Spec => []AnchorsHold`, and from it, where an identity is renamed once at the most,
- `OnlyRenamesLose`: `Spec => []OnlyRenamesLoseAnchors`.

`Inv` adds two facts to the first two. `BatchLogsWereLoaded` says that a batch holds logs that were given an
id already: the next log is therefore in no batch when it is registered, and a pending log stays in one.
`CandidatesAreSeen` says that what the code collects as candidates of a batch is, among the loaded
recordings, what `Seen` defines by history alone; it holds because ids grow, so a recording loaded later is
not one of those that were there, and because a batch gets a new id, so no entry bears its number before.
The last theorem then splits by who acts: every step but the resolving keeps each log undecided unless the
dialog asks about it (`OthersDecideNothing`), and the resolving decides a log only where
`unambiguous_target` over the candidates says so (`ResolveJudges`).

Anchors need a second invariant, `AInv`. `NamesWereGiven` says that every name a recording is on its way
under, loaded under or anchored to is at most the one it has in history by now, and so is the name a rename
leads to that the window has not applied. `AnchorsHold` says that a log is placed on the recording of its key
as long as the key is `Lasting`: it is a key of the session, or its name is the one in history and the
recording was renamed once at the most. The steps fall in three kinds. Most leave the loaded recordings
alone, and a log keeps its anchor or takes a new one, on which `anchor_to_loaded_recording` places it
(`AnchorsStay`); a rename in history makes the keys of that recording last no longer. A recording that is
added or unloaded leaves the logs that remain placed, because the logs of the unloaded one go with it
(`FilesMove`). The third is the answer of a rename: the name it gives an entry is the one history has, so an
entry that has that name already keeps it. This is where one rename matters. The window follows an identity
by what the file states (`gt-loaded-files/src/lib.rs:412`), and a recording loaded between two renames and
their answers is filed under the newest name and states the oldest, so that the answer of the first rename
takes it from the newest name back to the one between, until the answer of the second; with `Renames = 2`
TLC shows that, and `OnlyRenamesLoseAnchors` is not claimed there. `AnchorsHold` is true for any number.

The assumptions are those named in the module: recordings and logs are positive numbers and the bounds have
their types. `TypeOK` and `Inv` were checked by TLC on the instance of `log_association` before they were
proved, and `AInv` on the same instance with one rename and with two (2,434,421 states).

### Shutdown of a run

`ShutdownProofs` proves for any background writers and any number of signals and history requests:

- `TypeCorrect`: `Spec => []TypeOK`;
- `ShutdownsAreOrderly`: `Spec => []ShutdownIsOrderly`.

The property speaks of the end of the process, which is several steps after the facts that make it true,
so `IInv` carries them there. `main` reports success only at a moment when no write is registered and none
may start; `EndingsHoldWrites` says that the open and every thread that joins the worker hold a write until
they are done, so at that moment they are. `OwnersJoin` says who has the worker's join handle at each step,
and that whoever is done with it has seen the worker end or failed to spawn the thread that would have.
`BeginsOnce` says that `begin_shutdown` rejects writes before it does anything else and takes the worker
from the app, which is why an open that lands later finds shutdown begun. `SignalsAreCounted` relates the
flag and what was read of it to the number of signals; two are needed for both to be set. The assumptions
are that the bounds are natural numbers and that the writers are none of the other threads
(`WritersAssumption`). `IInv` was checked by TLC on the instance of `shutdown` before it was proved.

### Snap runs

`SnapProofs` proves of `SnapScheduler`, for any tracks, servers, costings, positions and user actions:

- `TypeCorrect`: `Spec => []TypeOK`;
- `RowsTell`: `Spec => []RowsTellWhatRuns`;
- `HiddenStayParked`: `Spec => HiddenTracksStayParked`.

`RowsTellWhatRuns` counts the unfinished runs, and one that has reported and not been polled is as unfinished
as one whose thread runs. `IInv` says where the run in flight is: `Rows` relates the row states to the queue, which
waits for a track once, and to the track in flight; `Channel` says that threads and messages are all of the
track in flight, that there is one thread at most, and that it is gone exactly when its end is the last message
in the channel. Both are claimed until positions shift under a run (`shifted`), after which the code has two
runs at once. `Lit` is claimed always, and is what the action property needs: an automatic entry the scheduler takes
for visible is of a track that was shown at the last frame. It is not enough to look at the frame, since a run
may also start by a request between two frames, on the visibility of the last one.

A frame is several operations of the scheduler in a row: `poll` is a fold of `Apply` over the messages, the sweep
one of `request_snap` over the window, as is what a user asks for between frames. So each operation is shown to *follow* (`Follows`): it keeps the
types, `Rows` and `Lit`, leaves the visibility alone, and starts one run at most, and only beside none.
Following is transitive, and one operation after another starts one run at the most (`LaunchOn`); `FoldReaches` takes
it through a fold of any length. `IInv` was checked by TLC on the instance of `snap_scheduler` before it was proved. The
assumptions are those named in the module: the sendable tracks are tracks, the configured server is a server, and
there is at least one position.

Of `SnapMerge` it proves, for every set of tracks, every chunk length and every even overlap shorter than
it, every interval and every set of answers:

- `OwnershipPartitionsTheStretch`: the owned ranges of the chunks of a stretch are not empty, the first
  starts at its first point, each starts where the one before ends, and the last ends at its last;
- `NoChunkIsInsideTheOverlap`: `MergeSpec => []ChunksReachPastTheOverlap`, that the next chunk is the first of
  its stretch or longer than the overlap, which the code asserts in debug builds only;
- `PointsAreAnswered`: `MergeSpec => []PointsAreTheAnsweredFixes`;
- `SegmentsAreRoads`: `MergeSpec => []SegmentsAreTheUnbrokenRoads`.

The first two rest on `ChunkAssumption`, that the overlap is even and shorter than a chunk; the code's
constants are 1000 and 40. The invariant of the second is inductive by itself: a chunk that is not the last
leaves more than an overlap behind it.

For the points, `Stretches` is first shown to be a plan (`PlanOf`): its stretches are ascending, a ghost
lies between the fixes of two and none between those of one. That rests on what `Ascending` chooses
(`SortedExists`, by induction on the bound of the set). `Places` orders the fixes of a plan by the
stretch and the place in it. `Done` is what the chunks merged so far own, stretch by stretch; it is
`Covered` (`CoveredAreDone`), and the next chunk owns what comes next (`OwnedComeNext`). `MergeInv` then
says that the points are the answered fixes of `Done` in their order with the gaps they follow, that
nothing was recorded of the others, and that `previous` tells whether the fix done last is among the points:
without that, a gap before the next chunk could not be told from its first point. Each outcome of a chunk
is one step of the proof (`AnswerKeeps`, `FailKeeps`).

For the segments, `RoadInv` adds that the segments are `Good` over the fixes of `Done` on roads: none is
empty, they are ascending, within one each fix runs on to the next, and the last of one does not to the first of
the next. It also says what the flag of the previous chunk is worth (`ContinuesIfMatched`): `geometry_continues`
holds exactly if the fix before the cut is matched and some fix behind the cut before it is on a road. The
join goes on with the last segment drawn, whichever chunk it is of, so the flag has to tell that it is of the chunk before.
From `RoadInv` the property follows because a road that nothing interrupts runs on (`OneRoadRunsOn`): no fix of
the plan lies at a cut (`NothingInCut`), so the fixes on both sides of it are among those that are matched.
`RoadsAre` is the lemma of one chunk (`point_groups` and `group_shape_range` break its geometry where `RunsOn`
does), `RunsWithin` and `RunsAcross` say what `RunsOn` comes to inside a chunk and at its front, and `AppendedAre`
and `JoinedAre` that the two ways to take over a chunk's segments keep them `Good`. Both invariants were
checked by TLC on the instance of `snap_merge` before they were proved.

### Induction over data

The library's induction theorems take a predicate as a parameter, which no installed prover can instantiate.
`DataInduction` states induction for a *set* of naturals in its place (`Induction`: a set that holds 0 and with each
number the next holds them all), from the well-foundedness of `<`, and draws from it what the models' recursive
functions and folds are: that the function a recursion defines exists and obeys its equation (`Recursion`,
`FoldRecursion`), so the `CHOOSE` in it chooses one that does; that a fold over a sequence is the last of the states
that its steps run through, which are all in a set the steps stay in (`FoldReaches`); where the members of flattened
sequences are (`FlattenAt`); and what running sums are (`SumsAre`, `SumsStep`).

### What is only model-checked

- Liveness (`ParkedWaitReturns`, `SignalIsAnswered`, `ShutdownEnds`, `OpensEnd`,
  `WaitEndsOnceTheDirectoryIsFree`, `EverythingSettles`, `QueuedRunsStart`, `PendingLogsAreDecided`), which is
  outside what the prover handles.

## Not modelled

- Clocks: the age of a status, the interval between status writes, the intervals of retries and of
  requests to a host, the length of the countdown. They choose when a step happens, which the models
  leave open.
- The rebuild of an archive for file space, schema versions, the steps of creating an archive, and
  archives with nested rows or with per-day columns.
- What requests to the history worker do, and the recordings database behind it.
- The content of the settings file, its autosave timer, and edits after the flush of a shutdown.
- Logs saved with a recording and their filter stacks, the reload of a recording after an unshelve, deletes
  from history beside loads, recordings without metadata and logs without times, parsing.
- A partial insert of a solar day (`solar.rs:706`): two series are stored one after the other, and the
  second may fail. One archive of `DayFetches` stores a day whole.
- In `SnapScheduler`: offline sessions, the dialogs before a replacement, requests parked under
  positions that shifted, and the runs written back to the history database. A cached run that is
  promoted is not written back (`snap_state.rs:526`), only a completed one is.
- In `DayFetches`: the map overlay, the context line and the days a source does not cover.
- Query engine, filters, track building, plots and parsers: pure code on one thread. They are most of
  the repository's lines and hold no state that another actor changes, so a state-based model has
  little to say of them.

## Plan

1. Settings: what is saved, the autosave, the shared temporary file, and the edits after a flush.
2. Logs saved with a recording, and deletes from history, in `LogAssociation`.
3. Nested row levels in `DayArchive` (ionex), per-day columns (solar), the creation of an archive
   step by step, and the rebuild.
