--------------------------- MODULE LogAssociation ---------------------------
(***************************************************************************)
(* Which recording a loaded log takes its positions from.  Files that      *)
(* arrive together are one batch (src/app/association_batches.rs): a log   *)
(* among them is decided once every recording among them has been loaded,  *)
(* failed or been cancelled, on its way through the screening against      *)
(* history, the prompts, the history worker and a load thread              *)
(* (recording_from_disk.rs, history_open.rs, loader.rs).  The log is then  *)
(* anchored by itself or after asking (log_association.rs), and keeps its  *)
(* anchor while recordings come, go and are renamed (gt-log-view).         *)
(*                                                                         *)
(* The interface runs on one thread, and each of its handlers is one       *)
(* action.  Between them the history worker and the load threads take      *)
(* their steps.  A recording states its own identity, every log has an     *)
(* entry with a time, and logs saved with a recording, the reload after an *)
(* unshelve and deletes from history are left out.                         *)
(***************************************************************************)
EXTENDS Naturals, FiniteSets, FiniteSetsExt

CONSTANTS
    Recordings,   \* recordings, by content
    Logs,         \* logs, by content, in the order of their names
    Overlaps,     \* the pairs of a log and a recording that ran together
    Requests,     \* bound: arrivals, opens and dialogs of the user
    Drops,        \* bound: what may arrive together, by the place of the request
    Familiar,     \* bound: recordings history may hold at first, or rename
    Renames       \* bound: renames of one identity

ASSUME ContentAssumption ==
    /\ Recordings \subseteq Nat \ {0} /\ Logs \subseteq Nat \ {0}
    /\ Familiar \subseteq Recordings
ASSUME BoundAssumption ==
    Requests \in Nat /\ Renames \in Nat
ASSUME DropAssumption ==
    Drops \in [1 .. Requests -> SUBSET ((SUBSET Recordings) \X (SUBSET Logs))]

VARIABLES
    history,       \* whether there is a history database
    stored,        \* the name a recording is stored under, 0 if it is not
    loaded_files,  \* LoadedFiles, by id
    next_file,     \* the id the next loaded recording takes
    logs,          \* LoadedLogs, by id
    next_log,      \* LoadedLogs::next_id
    batches,       \* AssociationBatches, by id
    operations,    \* recordings on their way, with their RecordingOperationOrigin
    readings,      \* logs on their way, with their LogArrival
    association_dialog,
    policy,        \* initial_position_source_policy
    renamed,       \* IdentityRenamed answers the window has not applied
    requests       \* arrivals, opens and dialogs so far

vars == <<history, stored, loaded_files, next_file, logs, next_log, batches,
          operations, readings, association_dialog, policy, renamed, requests>>

\* The identity of a DatabaseRef: 1 is what the recording states, each rename
\* takes the next; 0 stands for no DatabaseRef.
Names == 0 .. (1 + Renames)

\* FileHistory beside the recording.  request is history: the arrival it came
\* with, 0 for one opened from history.
Files == [recording : Recordings, identity : Names \ {0}, name : Names,
          request : Nat]

\* RecordingKey: Session(id), or Stored under a recording's name.
RecordingKeys == [session : Nat, recording : Nat, name : Names]
NoKey == [session |-> 0, recording |-> 0, name |-> 0]

\* PositionSourceState, and the loaded recording the anchor last resolved to.
LoadedLogs ==
    [content : Logs, source : {"Pending", "None", "Recording"},
     key : RecordingKeys, recording : Nat]

\* candidates holds the initial and the arrived ones.  born is history: the
\* id the next recording would have taken at the submission.
Batches == [candidates : SUBSET Nat, logs : SUBSET Nat, born : Nat]

Stages == {"Screening", "Prompted", "Opening", "Resegment", "Loading", "Loaded",
           "Failed"}

\* request is the batch of an Arrival, and tells Independent ones apart.  over
\* is the name under which the operation found the recording in history.
Operations == [request : Nat, arrival : BOOLEAN, recording : Recordings,
               stage : Stages, over : Names]

Readings == [batch : Nat, content : Logs]

\* LogAssociationDialog; log 0 is no dialog.  initial tells the one that
\* opened by itself, over the candidates of the batch.
Dialogs == [log : Nat, selected : Nat, initial : BOOLEAN,
            candidates : SUBSET Nat]
NoDialog == [log |-> 0, selected |-> 0, initial |-> FALSE, candidates |-> {}]

TypeOK ==
    /\ history \in BOOLEAN
    /\ stored \in [Recordings -> Names]
    /\ next_file \in Nat \ {0}
    /\ loaded_files \in [DOMAIN loaded_files -> Files]
    /\ DOMAIN loaded_files \subseteq 1 .. (next_file - 1)
    /\ next_log \in Nat \ {0}
    /\ logs \in [DOMAIN logs -> LoadedLogs]
    /\ DOMAIN logs \subseteq 1 .. (next_log - 1)
    /\ \A l \in DOMAIN logs : logs[l].recording \in DOMAIN loaded_files \cup {0}
    /\ batches \in [DOMAIN batches -> Batches]
    /\ DOMAIN batches \subseteq 1 .. requests
    /\ operations \subseteq Operations
    /\ readings \subseteq Readings
    /\ association_dialog \in Dialogs
    /\ policy \in {"Ask", "AutomaticallyUseUnambiguous"}
    /\ renamed \subseteq [recording : Recordings, old : 1 .. Renames]
    /\ requests \in 0 .. Requests

Init ==
    /\ history \in BOOLEAN
    /\ stored \in [Recordings -> {0, 1}]
    /\ \A r \in Recordings : stored[r] = 1 => history /\ r \in Familiar
    /\ loaded_files = <<>> /\ next_file = 1
    /\ logs = <<>> /\ next_log = 1
    /\ batches = <<>>
    /\ operations = {}
    /\ readings = {}
    /\ association_dialog = NoDialog
    /\ policy \in {"Ask", "AutomaticallyUseUnambiguous"}
    /\ renamed = {}
    /\ requests = 0

\* The function f with v at x.
With(f, x, v) == [y \in DOMAIN f \cup {x} |-> IF y = x THEN v ELSE f[y]]
Only(f, S) == [y \in DOMAIN f \cap S |-> f[y]]

-----------------------------------------------------------------------------
\* Anchors.

\* RecordingKey::of_loaded_recording.
KeyOf(files, f) ==
    IF files[f].name = 0
    THEN [session |-> f, recording |-> 0, name |-> 0]
    ELSE [session |-> 0, recording |-> files[f].recording,
          name |-> files[f].name]

\* loaded_recording: the first loaded recording of the key, 0 if none is.
LoadedRecording(files, key) ==
    LET matching == {f \in DOMAIN files : KeyOf(files, f) = key}
    IN IF matching = {} THEN 0 ELSE Min(matching)

\* reassociate.
Reassociated(files, log) ==
    [log EXCEPT !.recording =
        IF log.source = "Recording" THEN LoadedRecording(files, log.key) ELSE 0]

\* reassociate_all.
ReassociateAll(files, held) ==
    [l \in DOMAIN held |-> Reassociated(files, held[l])]

\* anchor_to_loaded_recording: remove_anchor where f is not loaded.
Anchored(log, f) ==
    IF f \in DOMAIN loaded_files
    THEN Reassociated(loaded_files,
             [log EXCEPT !.source = "Recording", !.key = KeyOf(loaded_files, f)])
    ELSE [log EXCEPT !.source = "None", !.key = NoKey, !.recording = 0]

\* rank_association_candidates, ranked within scope: what a dialog lists.
Ranked(scope) == scope \cap DOMAIN loaded_files

\* unambiguous_target: the only ranked recording that overlaps, else 0.
Unambiguous(content, scope) ==
    LET overlapping == {f \in Ranked(scope) :
                           <<content, loaded_files[f].recording>> \in Overlaps}
    IN IF Cardinality(overlapping) = 1 THEN Min(overlapping) ELSE 0

Pending(l) == l \in DOMAIN logs /\ logs[l].source = "Pending"

-----------------------------------------------------------------------------
\* Batches.

\* BatchProgress::recordings and ::logs: the tokens that are not dropped yet.
RecordingsOf(b) == {op \in operations : op.arrival /\ op.request = b}
ReadingsOf(b) == {r \in readings : r.batch = b}

\* Slip: the new recording is not a candidate of its batch.
register_recording_NotKept(op, f) == batches

\* register_recording; an Independent operation has no batch.
register_recording(op, f) ==
    [b \in DOMAIN batches |->
        IF op.arrival /\ op.request = b
        THEN [batches[b] EXCEPT !.candidates = @ \cup {f}]
        ELSE batches[b]]

\* register_log.
register_log(b, l) == [batches EXCEPT ![b].logs = @ \cup {l}]

PendingLogs == {l \in DOMAIN logs : logs[l].source = "Pending"}

BatchOf(l) == CHOOSE b \in DOMAIN batches : l \in batches[b].logs

\* Slip: a log is ready as soon as it is read.
ReadyLogs_WhileLoading ==
    {l \in PendingLogs : \E b \in DOMAIN batches : l \in batches[b].logs}

\* What ready_logs returns.
ReadyLogs ==
    {l \in PendingLogs : \E b \in DOMAIN batches :
                            l \in batches[b].logs /\ RecordingsOf(b) = {}}

\* Slip: a batch goes with its last log, whatever is still on its way.
KeptBatches_WithLogs ==
    {b \in DOMAIN batches : batches[b].logs \cap PendingLogs # {}}

\* The batches ready_logs keeps.
KeptBatches ==
    {b \in DOMAIN batches : \/ batches[b].logs \cap PendingLogs # {}
                            \/ RecordingsOf(b) # {}
                            \/ ReadingsOf(b) # {}}

\* The order of ready_logs: by batch, then by name.
ReadyBefore(l, k) ==
    \/ BatchOf(l) < BatchOf(k)
    \/ BatchOf(l) = BatchOf(k) /\ logs[l].content < logs[k].content

\* resolve_initial_log_associations.  Asking, it decides the logs that have
\* nothing to choose from up to the first that has, and opens the dialog on
\* that one unless a dialog is open.
resolve_initial_log_associations ==
    LET scope(l) == batches[BatchOf(l)].candidates
        ready == ReadyLogs \ {association_dialog.log}
        choices == {l \in ready : policy = "Ask" /\ Ranked(scope(l)) # {}}
        decided == {l \in ready \ choices : \A k \in choices : ReadyBefore(l, k)}
    IN /\ batches' = [b \in KeptBatches |->
                         [batches[b] EXCEPT !.logs = @ \cap PendingLogs]]
       /\ logs' = [l \in DOMAIN logs |->
                     IF l \in decided
                     THEN Anchored(logs[l], Unambiguous(logs[l].content, scope(l)))
                     ELSE logs[l]]
       /\ \/ /\ choices = {} \/ association_dialog.log # 0
             /\ UNCHANGED association_dialog
          \/ /\ association_dialog.log = 0
             /\ \E l \in choices :
                  /\ \A k \in choices \ {l} : ReadyBefore(l, k)
                  /\ association_dialog' =
                        [log |-> l, initial |-> TRUE, candidates |-> scope(l),
                         selected |-> Unambiguous(logs[l].content, scope(l))]
       /\ UNCHANGED <<history, stored, loaded_files, next_file, next_log,
                      operations, readings, policy, renamed, requests>>

-----------------------------------------------------------------------------
\* The way of a recording.

UserRequest == requests < Requests /\ requests' = requests + 1

\* load_arriving_files, with a database or without one to screen against.
Arrive(recordings, texts) ==
    /\ UserRequest
    /\ batches' = With(batches, requests',
                       [candidates |-> DOMAIN loaded_files, logs |-> {},
                        born |-> next_file])
    /\ operations' = operations \cup
          {[request |-> requests', arrival |-> TRUE, recording |-> r, over |-> 0,
            stage |-> IF history THEN "Screening" ELSE "Loading"] : r \in recordings}
    /\ readings' = readings \cup
          {[batch |-> requests', content |-> c] : c \in texts}
    /\ UNCHANGED <<history, stored, loaded_files, next_file, logs, next_log,
                   association_dialog, policy, renamed>>

\* The user opens a recording from the history window.
Open(r) ==
    /\ UserRequest
    /\ history /\ stored[r] # 0
    /\ operations' = operations \cup
          {[request |-> requests', arrival |-> FALSE, recording |-> r,
            over |-> stored[r], stage |-> "Opening"]}
    /\ UNCHANGED <<history, stored, loaded_files, next_file, logs, next_log,
                   batches, readings, association_dialog, policy, renamed>>

OnlyOperations ==
    UNCHANGED <<history, stored, loaded_files, next_file, logs, next_log, batches,
                readings, association_dialog, policy, renamed, requests>>

At(stage) == {op \in operations : op.stage = stage}

\* The operations ops go on at the stage.
Pass(ops, stage) ==
    operations' = (operations \ ops) \cup {[op EXCEPT !.stage = stage] : op \in ops}

\* screen_against_history, on the history worker, of all recordings of one
\* arrival, and load_screened_recordings, which only passes them on.  A stored
\* recording that cannot be read counts as new.
Screen(b) ==
    LET ops == {op \in At("Screening") : op.request = b}
    IN /\ ops # {}
       /\ \E known \in SUBSET {op \in ops : stored[op.recording] # 0} :
             operations' = (operations \ ops)
                \cup {[op EXCEPT !.stage = "Prompted",
                                 !.over = stored[op.recording]] : op \in known}
                \cup {[op EXCEPT !.stage = "Loading"] : op \in ops \ known}
       /\ OnlyOperations

\* The prompt over the recordings history holds already: Cancel.
CancelArrivals ==
    /\ At("Prompted") # {}
    /\ operations' = operations \ At("Prompted")
    /\ OnlyOperations

\* The prompt: OpenTheStoredVersion.
OpenStoredVersions ==
    /\ At("Prompted") # {}
    /\ Pass(At("Prompted"), "Opening")
    /\ OnlyOperations

\* The prompt: LoadFromDisk, with the shelved tracks left out or not.
LoadFromDisk ==
    /\ At("Prompted") # {}
    /\ \/ Pass(At("Prompted"), "Loading")
       \/ operations' = (operations \ At("Prompted")) \cup
             {[op EXCEPT !.stage = "Loading", !.over = 0] : op \in At("Prompted")}
    /\ OnlyOperations

\* ReadRequest::Open on the history worker: the name may be gone by now.
\* Then begin_history_open: the track settings of the recording are the
\* current ones or not.
OpenStored(op) ==
    /\ op.stage = "Opening"
    /\ \/ stored[op.recording] = op.over /\ Pass({op}, "Resegment")
       \/ stored[op.recording] = op.over /\ Pass({op}, "Loading")
       \/ Pass({op}, "Failed")
    /\ OnlyOperations

\* show_resegment_prompt; which of the prompts in the queue is shown is open.
AnswerResegment(op) ==
    /\ op.stage = "Resegment"
    /\ Pass({op}, "Loading") \/ operations' = operations \ {op}
    /\ OnlyOperations

\* A load thread reads the recording and stores it, under its own identity if
\* history does not hold it; where it is not stored, the name it was opened
\* under remains.
Load(op) ==
    /\ op.stage = "Loading"
    /\ \/ /\ history
          /\ LET name == IF stored[op.recording] = 0 THEN 1 ELSE stored[op.recording]
             IN /\ stored' = [stored EXCEPT ![op.recording] = name]
                /\ operations' = (operations \ {op}) \cup
                       {[op EXCEPT !.stage = "Loaded", !.over = name]}
       \/ Pass({op}, "Loaded") /\ UNCHANGED stored
       \/ Pass({op}, "Failed") /\ UNCHANGED stored
    /\ UNCHANGED <<history, loaded_files, next_file, logs, next_log, batches,
                   readings, association_dialog, policy, renamed, requests>>

\* handle_completed_load of a recording: an entry is added, a candidate of the
\* batch it arrived with.
AddLoaded(op) ==
    /\ op.stage = "Loaded"
    /\ loaded_files' = With(loaded_files, next_file,
           [recording |-> op.recording, identity |-> 1, name |-> op.over,
            request |-> IF op.arrival THEN op.request ELSE 0])
    /\ next_file' = next_file + 1
    /\ batches' = register_recording(op, next_file)
    /\ logs' = ReassociateAll(loaded_files', logs)
    /\ operations' = operations \ {op}
    /\ UNCHANGED <<history, stored, next_log, readings, association_dialog,
                   policy, renamed, requests>>

\* Slip: a load that failed keeps its token.
DropFailed_Kept(op) == op.stage = "Failed" /\ UNCHANGED vars

\* handle_completed_load or handle_history_response of a failure.
DropFailed(op) ==
    /\ op.stage = "Failed"
    /\ operations' = operations \ {op}
    /\ OnlyOperations

-----------------------------------------------------------------------------
\* Logs.

\* handle_completed_load of a log, which may not parse; a loose log already
\* loaded is not loaded again, and not registered.
ReadLog(r) ==
    /\ r \in readings
    /\ readings' = readings \ {r}
    /\ \/ UNCHANGED <<logs, next_log, batches>>
       \/ /\ \A l \in DOMAIN logs : logs[l].content # r.content
          /\ logs' = With(logs, next_log,
                 [content |-> r.content, source |-> "Pending", key |-> NoKey,
                  recording |-> 0])
          /\ next_log' = next_log + 1
          /\ batches' = register_log(r.batch, next_log)
    /\ UNCHANGED <<history, stored, loaded_files, next_file, operations,
                   association_dialog, policy, renamed, requests>>

UnloadLog(l) ==
    /\ l \in DOMAIN logs
    /\ logs' = Only(logs, DOMAIN logs \ {l})
    /\ UNCHANGED <<history, stored, loaded_files, next_file, next_log, batches,
                   operations, readings, association_dialog, policy, renamed,
                   requests>>

\* Slip: the logs of an unloaded recording stay.
UnloadRecording_LogsStay(f) ==
    /\ f \in DOMAIN loaded_files
    /\ loaded_files' = Only(loaded_files, DOMAIN loaded_files \ {f})
    /\ logs' = ReassociateAll(loaded_files', logs)
    /\ UNCHANGED <<history, stored, next_file, next_log, batches, operations,
                   readings, association_dialog, policy, renamed, requests>>

\* apply_pending_unload_and_removal: the logs of the recording go with it.
UnloadRecording(f) ==
    /\ f \in DOMAIN loaded_files
    /\ loaded_files' = Only(loaded_files, DOMAIN loaded_files \ {f})
    /\ logs' = ReassociateAll(loaded_files',
           Only(logs, {l \in DOMAIN logs : logs[l].key # KeyOf(loaded_files, f)}))
    /\ UNCHANGED <<history, stored, next_file, next_log, batches, operations,
                   readings, association_dialog, policy, renamed, requests>>

\* RenameIdentity on the history worker.
RenameStored(r) ==
    /\ r \in Familiar /\ stored[r] \in 1 .. Renames
    /\ stored' = [stored EXCEPT ![r] = @ + 1]
    /\ renamed' = renamed \cup {[recording |-> r, old |-> stored[r]]}
    /\ UNCHANGED <<history, loaded_files, next_file, logs, next_log, batches,
                   operations, readings, association_dialog, policy, requests>>

\* rename_identity: the entries filed under the old identity follow.  The
\* logs anchored under the old name are not told.
ApplyRename(x) ==
    /\ x \in renamed
    /\ renamed' = renamed \ {x}
    /\ loaded_files' = [f \in DOMAIN loaded_files |->
          IF loaded_files[f].recording = x.recording /\ loaded_files[f].identity = x.old
          THEN [loaded_files[f] EXCEPT !.identity = x.old + 1,
                                       !.name = IF @ = 0 THEN 0 ELSE x.old + 1]
          ELSE loaded_files[f]]
    /\ UNCHANGED <<history, stored, next_file, logs, next_log, batches, operations,
                   readings, association_dialog, policy, requests>>

-----------------------------------------------------------------------------
\* The dialog.

OnlyDialog ==
    UNCHANGED <<history, stored, loaded_files, next_file, logs, next_log, batches,
                operations, readings, renamed>>

\* open_log_association_dialog, from the log viewer: it takes the place of
\* the dialog that is open.
OpenDialog(l) ==
    /\ UserRequest
    /\ l \in DOMAIN logs
    /\ association_dialog' =
          [log |-> l, initial |-> FALSE, candidates |-> {},
           selected |-> IF logs[l].recording # 0 THEN logs[l].recording
                        ELSE Unambiguous(logs[l].content, DOMAIN loaded_files)]
    /\ OnlyDialog /\ UNCHANGED policy

DialogShown == association_dialog.log \in DOMAIN logs

\* The checkbox of the dialog.
TogglePolicy ==
    /\ DialogShown
    /\ policy' = IF policy = "Ask" THEN "AutomaticallyUseUnambiguous" ELSE "Ask"
    /\ OnlyDialog /\ UNCHANGED <<association_dialog, requests>>

\* The recordings the dialog lists.
Listed ==
    IF association_dialog.initial
    THEN Ranked(association_dialog.candidates) ELSE DOMAIN loaded_files

\* A click on one of the recordings listed, or none, and then the button:
\* apply_log_association_choice of Confirmed, without saving the log.
Confirm ==
    /\ DialogShown
    /\ \E target \in Listed \cup {association_dialog.selected} :
          logs' = [logs EXCEPT ![association_dialog.log] = Anchored(@, target)]
    /\ association_dialog' = NoDialog
    /\ UNCHANGED <<history, stored, loaded_files, next_file, next_log, batches,
                   operations, readings, policy, renamed, requests>>

\* apply_log_association_choice of Cancelled: a log that waits for its first
\* decision has none from now on.
Cancel ==
    /\ DialogShown
    /\ logs' = [logs EXCEPT ![association_dialog.log] =
                   IF @.source = "Pending" THEN Anchored(@, 0) ELSE @]
    /\ association_dialog' = NoDialog
    /\ UNCHANGED <<history, stored, loaded_files, next_file, next_log, batches,
                   operations, readings, policy, renamed, requests>>

\* show_log_association_dialog of a log that is no longer loaded.
DropDialog ==
    /\ association_dialog.log # 0 /\ ~DialogShown
    /\ association_dialog' = NoDialog
    /\ OnlyDialog /\ UNCHANGED <<policy, requests>>

-----------------------------------------------------------------------------
User ==
    \/ requests < Requests
          /\ \E drop \in Drops[requests + 1] : Arrive(drop[1], drop[2])
    \/ \E r \in Recordings : Open(r) \/ RenameStored(r)
    \/ CancelArrivals \/ OpenStoredVersions \/ LoadFromDisk
    \/ \E op \in operations : AnswerResegment(op)
    \/ \E l \in DOMAIN logs : UnloadLog(l) \/ OpenDialog(l)
    \/ \E f \in DOMAIN loaded_files : UnloadRecording(f)
    \/ TogglePolicy \/ Confirm \/ Cancel

\* What goes on without the user: threads, the history worker, and the frame
\* that takes their results.
Background ==
    \/ \E b \in 1 .. requests : Screen(b)
    \/ \E op \in operations :
          OpenStored(op) \/ Load(op) \/ AddLoaded(op) \/ DropFailed(op)
    \/ \E r \in readings : ReadLog(r)
    \/ \E x \in renamed : ApplyRename(x)
    \/ DropDialog

Next == User \/ Background \/ resolve_initial_log_associations

\* Threads end and each sends a repaint with its result.  A frame resolves
\* the logs before it takes what the user does in it, so the resolving is not
\* passed over for ever by dialogs that open and close.
Spec ==
    /\ Init /\ [][Next]_vars
    /\ WF_vars(Background)
    /\ SF_vars(resolve_initial_log_associations)

-----------------------------------------------------------------------------
\* A token that is not dropped finds its batch, and a pending log is in just
\* one batch: registering an arrival never panics
\* (batch_for_live_arrival_mut), and no log is forgotten.
BatchesOutliveTheirArrivals ==
    /\ \A op \in operations : op.arrival => op.request \in DOMAIN batches
    /\ \A r \in readings : r.batch \in DOMAIN batches
    /\ \A l \in PendingLogs :
          \E b \in DOMAIN batches :
             /\ l \in batches[b].logs
             /\ \A c \in DOMAIN batches : l \in batches[c].logs => c = b

\* What a log of batch b is judged by: the loaded recordings that were there
\* when its files arrived, and those that arrived with it.
Seen(b) ==
    {f \in DOMAIN loaded_files :
        f < batches[b].born \/ loaded_files[f].request = b}

\* A step judges log l by what arrived with it, if it decides it without the
\* user, and asks for it among just those.
Judged(l) ==
    LET b == BatchOf(l)
        fitting == {f \in Seen(b) :
            <<logs[l].content, loaded_files[f].recording>> \in Overlaps}
    IN /\ (/\ l \in DOMAIN logs' /\ ~Pending(l)'
           /\ association_dialog.log # l)
             => /\ RecordingsOf(b) = {}
                /\ IF \E f \in fitting : fitting = {f}
                   THEN \A f \in fitting : logs'[l].key = KeyOf(loaded_files, f)
                   ELSE logs'[l].source = "None"
                /\ policy = "Ask" => Seen(b) = {}
       /\ (/\ association_dialog'.log = l /\ association_dialog'.initial
           /\ association_dialog.log # l)
             => /\ RecordingsOf(b) = {}
                /\ Ranked(association_dialog'.candidates) = Seen(b)

\* A log that is decided without the user is anchored to the one recording it
\* ran together with among those that were loaded when it arrived or arrived
\* with it, if there is one only, whatever way those took and whatever else was
\* loaded meanwhile; and a dialog that opens by itself lists just those
\* (resolve_initial_log_associations).
LogsAreJudgedByWhatArrivedWithThem == [][\A l \in PendingLogs : Judged(l)]_vars

\* A log that is anchored has its recording loaded and is placed on it, unless
\* the identity it was anchored under was renamed since (LoadedLog::reassociate,
\* unload_logs_and_forget_attachments_of).
OnlyRenamesLoseAnchors ==
    \A l \in DOMAIN logs :
        LET log == logs[l]
        IN log.source = "Recording" =>
              \/ /\ log.recording \in DOMAIN loaded_files
                 /\ KeyOf(loaded_files, log.recording) = log.key
              \/ log.key.name # 0 /\ stored[log.key.recording] # log.key.name

\* The user is asked something that a log may wait for.
UserIsAsked ==
    \/ association_dialog.log # 0
    \/ At("Prompted") \cup At("Resegment") # {}

\* If no question stays unanswered, the logs that wait are decided: no
\* recording that failed, was cancelled, was opened instead of loaded or came
\* twice keeps its batch waiting (RecordingArrival, ready_logs).  Arrivals are
\* bounded, so logs cannot wait by taking turns.
PendingLogsAreDecided == []<>~UserIsAsked => []<>(PendingLogs = {})
=============================================================================
