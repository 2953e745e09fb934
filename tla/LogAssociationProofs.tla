----------------------- MODULE LogAssociationProofs -----------------------
(***************************************************************************)
(* Log association for any recordings, logs, arrivals and renames: it      *)
(* types, a batch is there as long as anything of its arrival is on its    *)
(* way, a log that is decided without the user is judged by the recordings *)
(* of its arrival, and an anchored log stays on its recording as long as   *)
(* the name it is anchored under lasts.                                    *)
(***************************************************************************)
EXTENDS LogAssociation, FiniteSetTheorems, WellFoundedInduction, TLAPS

-----------------------------------------------------------------------------
\* Sets of ids.

LEMMA MinIsMember ==
    ASSUME NEW S \in SUBSET Nat, S # {} PROVE Min(S) \in S
<1>1. PICK x \in S : \A y \in S : ~ (<<y, x>> \in OpToRel(<, Nat))
  BY NatLessThanWellFounded, WFMin
<1>2. \A y \in S : x =< y
  <2> SUFFICES ASSUME NEW y \in S PROVE x =< y
    OBVIOUS
  <2>1. ~ (<<y, x>> \in OpToRel(<, Nat))
    BY <1>1
  <2>2. ~ (y < x)
    BY <2>1 DEF OpToRel
  <2>3. QED
    BY <2>2
<1>3. QED
  BY <1>2 DEF Min

\* A set of cardinality one is a singleton.
LEMMA OneIsSingleton ==
    ASSUME NEW S, IsFiniteSet(S)
    PROVE  Cardinality(S) = 1 <=> \E x \in S : S = {x}
<1>1. (Cardinality(S) = 1) <=> \E x : S = {x}
  BY FS_Singleton
<1>2. QED
  BY <1>1

LEMMA IdsAreFinite ==
    ASSUME NEW n \in Nat, NEW S \in SUBSET (1 .. n)
    PROVE  IsFiniteSet(S) /\ S \subseteq Nat
<1>1. IsFiniteSet(1 .. n)
  BY FS_Interval
<1>2. IsFiniteSet(S)
  BY <1>1, FS_Subset
<1>3. QED
  BY <1>2

-----------------------------------------------------------------------------
\* Anchors.

\* Loaded recordings by their ids.
LoadedFiles(files) == /\ files \in [DOMAIN files -> Files]
                      /\ DOMAIN files \subseteq Nat \ {0}

LEMMA KeyType ==
    ASSUME NEW files, LoadedFiles(files), NEW f \in DOMAIN files
    PROVE  KeyOf(files, f) \in RecordingKeys
<1>1. /\ files[f].recording \in Recordings /\ files[f].name \in Names
      /\ f \in Nat
  BY DEF LoadedFiles, Files
<1>2. 0 \in Names
  BY BoundAssumption DEF Names
<1>3. files[f].recording \in Nat
  BY <1>1, ContentAssumption
<1>4. QED
  BY <1>1, <1>2, <1>3 DEF KeyOf, RecordingKeys

\* A key resolves to a loaded recording of that key, if there is one.
LEMMA LoadedRecordingType ==
    ASSUME NEW files, LoadedFiles(files), NEW key
    PROVE  /\ LoadedRecording(files, key) \in DOMAIN files \cup {0}
           /\ LoadedRecording(files, key) \in Nat
<1> DEFINE matching == {f \in DOMAIN files : KeyOf(files, f) = key}
<1>1. matching \in SUBSET Nat
  BY DEF LoadedFiles
<1>2. matching # {} => Min(matching) \in matching
  BY <1>1, MinIsMember
<1>3. QED
  BY <1>1, <1>2 DEF LoadedRecording

LEMMA ReassociatedType ==
    ASSUME NEW files, LoadedFiles(files), NEW log \in LoadedLogs
    PROVE  /\ Reassociated(files, log) \in LoadedLogs
           /\ Reassociated(files, log).recording \in DOMAIN files \cup {0}
           /\ Reassociated(files, log).source = log.source
           /\ Reassociated(files, log).key = log.key
           /\ Reassociated(files, log).content = log.content
<1> DEFINE g == IF log.source = "Recording" THEN LoadedRecording(files, log.key) ELSE 0
<1>1. g \in DOMAIN files \cup {0} /\ g \in Nat
  BY LoadedRecordingType
<1>2. Reassociated(files, log) = [log EXCEPT !.recording = g]
  BY DEF Reassociated
<1> HIDE DEF g
<1>3. QED
  BY <1>1, <1>2 DEF LoadedLogs

LEMMA ReassociateAllType ==
    ASSUME NEW files, LoadedFiles(files), NEW held, held \in [DOMAIN held -> LoadedLogs]
    PROVE  /\ ReassociateAll(files, held) \in [DOMAIN held -> LoadedLogs]
           /\ DOMAIN ReassociateAll(files, held) = DOMAIN held
           /\ \A l \in DOMAIN held :
                 /\ ReassociateAll(files, held)[l].recording \in DOMAIN files \cup {0}
                 /\ ReassociateAll(files, held)[l].source = held[l].source
<1>1. \A l \in DOMAIN held : held[l] \in LoadedLogs
  OBVIOUS
<1>2. QED
  BY <1>1, ReassociatedType DEF ReassociateAll

\* An anchored log is decided: it has the key of the recording, or none.
LEMMA AnchoredType ==
    ASSUME LoadedFiles(loaded_files), NEW log \in LoadedLogs, NEW f
    PROVE  /\ Anchored(log, f) \in LoadedLogs
           /\ Anchored(log, f).recording \in DOMAIN loaded_files \cup {0}
           /\ Anchored(log, f).source # "Pending"
           /\ f \in DOMAIN loaded_files =>
                 Anchored(log, f).key = KeyOf(loaded_files, f)
           /\ f \notin DOMAIN loaded_files => Anchored(log, f).source = "None"
<1>1. CASE f \in DOMAIN loaded_files
  <2> DEFINE a == [log EXCEPT !.source = "Recording", !.key = KeyOf(loaded_files, f)]
  <2>1. KeyOf(loaded_files, f) \in RecordingKeys
    BY <1>1, KeyType
  <2>2. a \in LoadedLogs /\ a.source = "Recording" /\ a.key = KeyOf(loaded_files, f)
    BY <2>1 DEF LoadedLogs
  <2>3. Anchored(log, f) = Reassociated(loaded_files, a)
    BY <1>1 DEF Anchored
  <2> HIDE DEF a
  <2>4. QED
    BY <1>1, <2>2, <2>3, ReassociatedType
<1>2. CASE f \notin DOMAIN loaded_files
  <2>1. NoKey \in RecordingKeys
    BY BoundAssumption DEF NoKey, RecordingKeys, Names
  <2>2. QED
    BY <1>2, <2>1 DEF Anchored, LoadedLogs
<1>3. QED
  BY <1>1, <1>2

LEMMA LoadedFilesTyped == TypeOK => LoadedFiles(loaded_files)
BY DEF TypeOK, LoadedFiles

\* unambiguous_target finds the only loaded recording that fits.
LEMMA UnambiguousIsTheOnlyOne ==
    ASSUME TypeOK, NEW content, NEW scope
    PROVE  LET fitting == {f \in Ranked(scope) :
                   <<content, loaded_files[f].recording>> \in Overlaps}
           IN /\ Unambiguous(content, scope) \in DOMAIN loaded_files \cup {0}
              /\ Unambiguous(content, scope) \in Nat
              /\ (\E f \in fitting : fitting = {f})
                    => fitting = {Unambiguous(content, scope)}
              /\ ~ (\E f \in fitting : fitting = {f})
                    => Unambiguous(content, scope) = 0
<1> DEFINE fitting == {f \in Ranked(scope) :
                 <<content, loaded_files[f].recording>> \in Overlaps}
<1>1. fitting \in SUBSET (1 .. (next_file - 1)) /\ next_file - 1 \in Nat
  BY DEF TypeOK, Ranked
<1>2. IsFiniteSet(fitting) /\ fitting \subseteq Nat
  BY <1>1, IdsAreFinite
<1>3. Cardinality(fitting) = 1 <=> \E f \in fitting : fitting = {f}
  BY <1>2, OneIsSingleton
<1>4. fitting # {} => Min(fitting) \in fitting
  BY <1>2, MinIsMember
<1>5. fitting \subseteq DOMAIN loaded_files
  BY DEF Ranked
<1>6. Unambiguous(content, scope) =
          IF Cardinality(fitting) = 1 THEN Min(fitting) ELSE 0
  BY DEF Unambiguous
<1> HIDE DEF fitting
<1>7. /\ Unambiguous(content, scope) \in DOMAIN loaded_files \cup {0}
      /\ Unambiguous(content, scope) \in Nat
      /\ (\E f \in fitting : fitting = {f})
            => fitting = {Unambiguous(content, scope)}
      /\ ~ (\E f \in fitting : fitting = {f})
            => Unambiguous(content, scope) = 0
  BY <1>2, <1>3, <1>4, <1>5, <1>6
<1>8. QED
  BY <1>7 DEF fitting

-----------------------------------------------------------------------------
\* The invariant.

\* The logs of a batch have been loaded.
BatchLogsWereLoaded ==
    \A b \in DOMAIN batches : batches[b].logs \subseteq 1 .. (next_log - 1)

\* The candidates of a batch are what its logs are judged by.
CandidatesAreSeen ==
    \A b \in DOMAIN batches :
        /\ batches[b].candidates \subseteq 1 .. (next_file - 1)
        /\ batches[b].born \in 1 .. next_file
        /\ Ranked(batches[b].candidates) = Seen(b)

Inv == TypeOK /\ BatchesOutliveTheirArrivals /\ BatchLogsWereLoaded
              /\ CandidatesAreSeen

LEMMA InitInv == Init => Inv
<1> SUFFICES ASSUME Init PROVE Inv
  OBVIOUS
<1>1. 0 \in Names /\ 1 \in Names
  BY BoundAssumption DEF Names
<1>2. stored \in [Recordings -> Names]
  BY <1>1 DEF Init
<1>3. NoDialog \in Dialogs
  BY DEF NoDialog, Dialogs
<1>4. DOMAIN loaded_files = {} /\ DOMAIN logs = {} /\ DOMAIN batches = {}
  BY DEF Init
<1>5. TypeOK
  BY <1>2, <1>3, <1>4, BoundAssumption DEF Init, TypeOK
<1>6. BatchesOutliveTheirArrivals /\ BatchLogsWereLoaded /\ CandidatesAreSeen
  BY <1>4 DEF Init, BatchesOutliveTheirArrivals, BatchLogsWereLoaded,
              CandidatesAreSeen, PendingLogs
<1>7. QED
  BY <1>5, <1>6 DEF Inv

-----------------------------------------------------------------------------
\* What leaves a part of the invariant alone.

\* The tokens of an arrival that are not dropped were there before.
TokensRemain ==
    /\ \A o \in operations' : o.arrival =>
          \E p \in operations : p.arrival /\ p.request = o.request
    /\ \A r \in readings' : \E p \in readings : p.batch = r.batch

LEMMA TokensLeaveBatches ==
    ASSUME Inv, TokensRemain, UNCHANGED batches,
           DOMAIN logs' \subseteq DOMAIN logs,
           \A l \in DOMAIN logs' : logs'[l].source = "Pending" => logs[l].source = "Pending"
    PROVE  BatchesOutliveTheirArrivals'
<1>1. PendingLogs' \subseteq PendingLogs
  BY DEF PendingLogs
<1>2. \A op \in operations' : op.arrival => op.request \in DOMAIN batches'
  BY DEF Inv, BatchesOutliveTheirArrivals, TokensRemain
<1>3. \A r \in readings' : r.batch \in DOMAIN batches'
  BY DEF Inv, BatchesOutliveTheirArrivals, TokensRemain
<1>4. \A l \in PendingLogs' :
          \E b \in DOMAIN batches' :
             /\ l \in batches'[b].logs
             /\ \A c \in DOMAIN batches' : l \in batches'[c].logs => c = b
  BY <1>1 DEF Inv, BatchesOutliveTheirArrivals
<1>5. QED
  BY <1>2, <1>3, <1>4 DEF BatchesOutliveTheirArrivals

LEMMA BatchesStay ==
    ASSUME Inv, UNCHANGED <<batches, next_log>>
    PROVE  BatchLogsWereLoaded'
BY DEF Inv, BatchLogsWereLoaded

LEMMA FilesStay ==
    ASSUME Inv, UNCHANGED <<batches, loaded_files, next_file>>
    PROVE  CandidatesAreSeen'
BY DEF Inv, CandidatesAreSeen, Ranked, Seen

\* Recordings go on their way.
LEMMA OperationsGoOn ==
    ASSUME Inv, OnlyOperations, operations' \subseteq Operations, TokensRemain
    PROVE  Inv'
<1>1. TypeOK'
  BY DEF Inv, TypeOK, OnlyOperations
<1>2. BatchesOutliveTheirArrivals'
  BY TokensLeaveBatches DEF OnlyOperations
<1>3. BatchLogsWereLoaded' /\ CandidatesAreSeen'
  BY BatchesStay, FilesStay DEF OnlyOperations
<1>4. QED
  BY <1>1, <1>2, <1>3 DEF Inv

-----------------------------------------------------------------------------
\* The way of a recording.

LEMMA OperationStage ==
    ASSUME NEW op \in Operations, NEW stage \in Stages, NEW name \in Names
    PROVE  /\ [op EXCEPT !.stage = stage] \in Operations
           /\ [op EXCEPT !.stage = stage].request = op.request
           /\ [op EXCEPT !.stage = stage].arrival = op.arrival
           /\ [op EXCEPT !.stage = stage, !.over = name] \in Operations
           /\ [op EXCEPT !.stage = stage, !.over = name].request = op.request
           /\ [op EXCEPT !.stage = stage, !.over = name].arrival = op.arrival
BY DEF Operations

\* One of the operations, at another stage or over another name.
WasOnItsWay(o) ==
    \E p \in operations :
        \/ o = p
        \/ \E stage \in Stages : o = [p EXCEPT !.stage = stage]
        \/ \E stage \in Stages, name \in Names :
              o = [p EXCEPT !.stage = stage, !.over = name]

LEMMA OperationsPass ==
    ASSUME Inv, OnlyOperations, \A o \in operations' : WasOnItsWay(o)
    PROVE  Inv'
<1>1. \A o \in operations' : /\ o \in Operations
                             /\ \E p \in operations : /\ p.arrival = o.arrival
                                                      /\ p.request = o.request
  <2> SUFFICES ASSUME NEW o \in operations'
               PROVE  /\ o \in Operations
                      /\ \E p \in operations : /\ p.arrival = o.arrival
                                               /\ p.request = o.request
    OBVIOUS
  <2>1. PICK p \in operations :
           \/ o = p
           \/ \E stage \in Stages : o = [p EXCEPT !.stage = stage]
           \/ \E stage \in Stages, name \in Names :
                 o = [p EXCEPT !.stage = stage, !.over = name]
    BY DEF WasOnItsWay
  <2>2. p \in Operations
    BY DEF Inv, TypeOK
  <2>3. CASE o = p
    BY <2>2, <2>3
  <2>4. CASE \E stage \in Stages : o = [p EXCEPT !.stage = stage]
    <3>1. PICK stage \in Stages : o = [p EXCEPT !.stage = stage]
      BY <2>4
    <3>2. 0 \in Names
      BY BoundAssumption DEF Names
    <3>3. QED
      BY <2>2, <3>1, <3>2, OperationStage
  <2>5. CASE \E stage \in Stages, name \in Names :
                 o = [p EXCEPT !.stage = stage, !.over = name]
    <3>1. PICK stage \in Stages, name \in Names :
             o = [p EXCEPT !.stage = stage, !.over = name]
      BY <2>5
    <3>2. QED
      BY <2>2, <3>1, OperationStage
  <2>6. QED
    BY <2>1, <2>3, <2>4, <2>5
<1>2. TokensRemain
  BY <1>1 DEF TokensRemain, OnlyOperations
<1>3. operations' \subseteq Operations
  BY <1>1
<1>4. QED
  BY <1>2, <1>3, OperationsGoOn

LEMMA ScreenInv == ASSUME Inv, NEW b \in 1 .. requests, Screen(b) PROVE Inv'
<1> DEFINE ops == {op \in At("Screening") : op.request = b}
<1>1. PICK known \in SUBSET {op \in ops : stored[op.recording] # 0} :
          operations' = (operations \ ops)
                \cup {[op EXCEPT !.stage = "Prompted",
                                 !.over = stored[op.recording]] : op \in known}
                \cup {[op EXCEPT !.stage = "Loading"] : op \in ops \ known}
  BY DEF Screen
<1>2. OnlyOperations
  BY DEF Screen
<1>3. \A op \in operations : stored[op.recording] \in Names
  BY DEF Inv, TypeOK, Operations
<1>4. ops \subseteq operations /\ known \subseteq operations
  BY DEF At
<1>5. "Prompted" \in Stages /\ "Loading" \in Stages
  BY DEF Stages
<1> HIDE DEF ops
<1>6. \A o \in operations' : WasOnItsWay(o)
  <2> SUFFICES ASSUME NEW o \in operations' PROVE WasOnItsWay(o)
    OBVIOUS
  <2>1. CASE o \in operations \ ops
    BY <2>1 DEF WasOnItsWay
  <2>2. CASE \E op \in known : o = [op EXCEPT !.stage = "Prompted",
                                              !.over = stored[op.recording]]
    BY <1>3, <1>4, <1>5, <2>2, Zenon DEF WasOnItsWay
  <2>3. CASE \E op \in ops \ known : o = [op EXCEPT !.stage = "Loading"]
    BY <1>4, <1>5, <2>3, Zenon DEF WasOnItsWay
  <2>4. QED
    BY <1>1, <2>1, <2>2, <2>3
<1>7. QED
  BY <1>2, <1>6, OperationsPass

LEMMA PassInv ==
    ASSUME Inv, NEW ops \in SUBSET operations, NEW stage \in Stages,
           Pass(ops, stage), OnlyOperations
    PROVE  Inv'
<1>1. \A o \in operations' : o \in operations \/ \E p \in ops : o = [p EXCEPT !.stage = stage]
  BY DEF Pass
<1>2. \A o \in operations' : WasOnItsWay(o)
  BY <1>1, Zenon DEF WasOnItsWay
<1>3. QED
  BY <1>2, OperationsPass

LEMMA FewerInv ==
    ASSUME Inv, operations' \subseteq operations, OnlyOperations PROVE Inv'
<1>1. \A o \in operations' : WasOnItsWay(o)
  BY Zenon DEF WasOnItsWay
<1>2. QED
  BY <1>1, OperationsPass

LEMMA LoadFromDiskInv == ASSUME Inv, LoadFromDisk PROVE Inv'
<1>1. At("Prompted") \subseteq operations /\ "Loading" \in Stages /\ OnlyOperations
  BY DEF At, Stages, LoadFromDisk
<1>2. CASE Pass(At("Prompted"), "Loading")
  BY <1>1, <1>2, PassInv
<1>3. CASE operations' = (operations \ At("Prompted")) \cup
              {[op EXCEPT !.stage = "Loading", !.over = 0] : op \in At("Prompted")}
  <2>1. 0 \in Names
    BY BoundAssumption DEF Names
  <2>2. \A o \in operations' :
           \/ o \in operations
           \/ \E p \in operations : o = [p EXCEPT !.stage = "Loading", !.over = 0]
    BY <1>1, <1>3, Zenon
  <2>3. \A o \in operations' : WasOnItsWay(o)
    <3> SUFFICES ASSUME NEW o \in operations' PROVE WasOnItsWay(o)
      OBVIOUS
    <3>1. CASE o \in operations
      BY <3>1 DEF WasOnItsWay
    <3>2. CASE \E p \in operations : o = [p EXCEPT !.stage = "Loading", !.over = 0]
      <4>1. PICK p \in operations : o = [p EXCEPT !.stage = "Loading", !.over = 0]
        BY <3>2
      <4>2. "Loading" \in Stages
        BY <1>1
      <4>3. QED
        BY <2>1, <4>1, <4>2, Zenon DEF WasOnItsWay
    <3>3. QED
      BY <2>2, <3>1, <3>2
  <2>4. QED
    BY <1>1, <2>3, OperationsPass
<1>4. QED
  BY <1>2, <1>3 DEF LoadFromDisk

LEMMA OperationInv ==
    ASSUME Inv, NEW op \in operations,
           OpenStored(op) \/ AnswerResegment(op) \/ DropFailed(op)
    PROVE  Inv'
<1>1. {op} \subseteq operations /\ OnlyOperations
  BY DEF OpenStored, AnswerResegment, DropFailed
<1>2. "Resegment" \in Stages /\ "Loading" \in Stages /\ "Failed" \in Stages
  BY DEF Stages
<1>3. \/ Pass({op}, "Resegment") \/ Pass({op}, "Loading") \/ Pass({op}, "Failed")
      \/ operations' = operations \ {op}
  BY DEF OpenStored, AnswerResegment, DropFailed
<1>4. operations' = operations \ {op} => operations' \subseteq operations
  OBVIOUS
<1>5. QED
  BY <1>1, <1>2, <1>3, <1>4, PassInv, FewerInv

LEMMA PromptInv == ASSUME Inv, CancelArrivals \/ OpenStoredVersions PROVE Inv'
<1>1. At("Prompted") \subseteq operations /\ "Opening" \in Stages
  BY DEF At, Stages
<1>2. CASE CancelArrivals
  BY <1>2, FewerInv DEF CancelArrivals
<1>3. CASE OpenStoredVersions
  BY <1>1, <1>3, PassInv DEF OpenStoredVersions
<1>4. QED
  BY <1>2, <1>3

LEMMA ArriveInv ==
    ASSUME Inv, requests < Requests, NEW drop \in Drops[requests + 1],
           Arrive(drop[1], drop[2])
    PROVE  Inv'
<1> DEFINE arrived == [candidates |-> DOMAIN loaded_files, logs |-> {},
                       born |-> next_file]
<1>1. /\ requests \in Nat /\ requests' = requests + 1 /\ requests' <= Requests
      /\ requests + 1 \in 1 .. Requests
  BY BoundAssumption DEF Inv, TypeOK, Arrive, UserRequest
<1>2. drop[1] \subseteq Recordings /\ drop[2] \subseteq Logs
  BY <1>1, DropAssumption
<1>3. /\ DOMAIN loaded_files \subseteq 1 .. (next_file - 1)
      /\ next_file \in Nat \ {0} /\ next_log \in Nat \ {0}
  BY DEF Inv, TypeOK
<1>4. arrived \in Batches
  BY <1>3 DEF Batches
<1>5. DOMAIN batches \subseteq 1 .. requests
  BY DEF Inv, TypeOK
<1>6. requests' \notin DOMAIN batches
  BY <1>1, <1>5
<1>7. /\ batches' \in [DOMAIN batches' -> Batches]
      /\ DOMAIN batches' = DOMAIN batches \cup {requests'}
      /\ batches'[requests'] = arrived
      /\ \A b \in DOMAIN batches : batches'[b] = batches[b]
  <2>1. batches' = With(batches, requests', arrived)
    BY DEF Arrive
  <2>2. batches \in [DOMAIN batches -> Batches]
    BY DEF Inv, TypeOK
  <2> HIDE DEF arrived
  <2> DEFINE W == With(batches, requests', arrived)
  <2>3. /\ W \in [DOMAIN W -> Batches]
        /\ DOMAIN W = DOMAIN batches \cup {requests'}
        /\ W[requests'] = arrived
        /\ \A b \in DOMAIN batches \ {requests'} : W[b] = batches[b]
    BY <1>4, <2>2 DEF With
  <2> HIDE DEF W
  <2>4. batches' = W
    BY <2>1 DEF W
  <2>5. QED
    BY <1>6, <2>3, <2>4
<1>8. arrived.logs = {} /\ arrived.candidates = DOMAIN loaded_files
      /\ arrived.born = next_file
  OBVIOUS
<1>9. /\ operations' \subseteq Operations
      /\ \A op \in operations' : op \in operations \/ op.request = requests'
  <2>1. 0 \in Names
    BY BoundAssumption DEF Names
  <2> DEFINE new == {[request |-> requests', arrival |-> TRUE, recording |-> r, over |-> 0,
            stage |-> IF history THEN "Screening" ELSE "Loading"] : r \in drop[1]}
  <2> DEFINE first == IF history THEN "Screening" ELSE "Loading"
             of(r) == [request |-> requests', arrival |-> TRUE, recording |-> r,
                       over |-> 0, stage |-> first]
  <2>2. first \in Stages /\ requests' \in Nat
    BY <1>1 DEF Stages
  <2>3. \A r \in drop[1] : of(r) \in Operations /\ of(r).request = requests'
    <3> HIDE DEF first
    <3>1. QED
      BY <1>2, <2>1, <2>2 DEF Operations
  <2>4. new \subseteq Operations /\ \A op \in new : op.request = requests'
    BY <2>3
  <2>5. operations' = operations \cup new
    BY DEF Arrive
  <2> HIDE DEF new
  <2>6. QED
    BY <2>4, <2>5 DEF Inv, TypeOK
<1>10. /\ readings' \subseteq Readings
       /\ \A r \in readings' : r \in readings \/ r.batch = requests'
  BY <1>1, <1>2 DEF Arrive, Readings, Inv, TypeOK
<1>11. UNCHANGED <<history, stored, loaded_files, next_file, logs, next_log,
                   association_dialog, policy, renamed>>
  BY DEF Arrive
<1> HIDE DEF arrived
<1>12. TypeOK'
  <2>1. DOMAIN batches' \subseteq 1 .. requests'
    BY <1>1, <1>5, <1>7
  <2>2. requests' \in 0 .. Requests
    BY <1>1, BoundAssumption
  <2>3. QED
    BY <1>7, <1>9, <1>10, <1>11, <2>1, <2>2 DEF Inv, TypeOK
<1>13. BatchesOutliveTheirArrivals'
  <2>1. \A op \in operations' : op.arrival => op.request \in DOMAIN batches'
    BY <1>7, <1>9 DEF Inv, BatchesOutliveTheirArrivals
  <2>2. \A r \in readings' : r.batch \in DOMAIN batches'
    BY <1>7, <1>10 DEF Inv, BatchesOutliveTheirArrivals
  <2>3. PendingLogs' = PendingLogs
    BY <1>11 DEF PendingLogs
  <2>4. \A l \in PendingLogs' :
          \E b \in DOMAIN batches' :
             /\ l \in batches'[b].logs
             /\ \A c \in DOMAIN batches' : l \in batches'[c].logs => c = b
    BY <1>7, <1>8, <2>3 DEF Inv, BatchesOutliveTheirArrivals
  <2>5. QED
    BY <2>1, <2>2, <2>4 DEF BatchesOutliveTheirArrivals
<1>14. BatchLogsWereLoaded'
  BY <1>7, <1>8, <1>11 DEF Inv, BatchLogsWereLoaded
<1>15. CandidatesAreSeen'
  <2>1. \A b \in DOMAIN batches' :
           /\ batches'[b].candidates \subseteq 1 .. (next_file' - 1)
           /\ batches'[b].born \in 1 .. next_file'
           /\ batches'[b].candidates \cap DOMAIN loaded_files' =
                {f \in DOMAIN loaded_files' :
                   f < batches'[b].born \/ loaded_files'[f].request = b}
    BY <1>3, <1>7, <1>8, <1>11 DEF Inv, CandidatesAreSeen, Ranked, Seen
  <2>2. QED
    BY <2>1 DEF CandidatesAreSeen, Ranked, Seen
<1>16. QED
  BY <1>12, <1>13, <1>14, <1>15 DEF Inv

LEMMA OpenInv == ASSUME Inv, NEW r \in Recordings, Open(r) PROVE Inv'
<1>1. /\ requests \in Nat /\ requests' = requests + 1 /\ requests' \in 0 .. Requests
  BY BoundAssumption DEF Inv, TypeOK, Open, UserRequest
<1> DEFINE opened == [request |-> requests', arrival |-> FALSE, recording |-> r,
                      over |-> stored[r], stage |-> "Opening"]
<1>2. opened \in Operations /\ opened.arrival = FALSE
  BY <1>1 DEF Inv, TypeOK, Operations, Stages
<1>3. operations' = operations \cup {opened}
  BY DEF Open
<1>4. UNCHANGED <<history, stored, loaded_files, next_file, logs, next_log,
                  batches, readings, association_dialog, policy, renamed>>
  BY DEF Open
<1> HIDE DEF opened
<1>5. TypeOK'
  <2>1. DOMAIN batches' \subseteq 1 .. requests'
    BY <1>1, <1>4 DEF Inv, TypeOK
  <2>2. operations' \subseteq Operations
    BY <1>2, <1>3 DEF Inv, TypeOK
  <2>3. QED
    BY <1>1, <1>4, <2>1, <2>2 DEF Inv, TypeOK
<1>6. TokensRemain
  BY <1>2, <1>3, <1>4 DEF TokensRemain
<1>7. BatchesOutliveTheirArrivals'
  BY <1>4, <1>6, TokensLeaveBatches
<1>8. QED
  BY <1>4, <1>5, <1>7, BatchesStay, FilesStay DEF Inv

LEMMA LoadInv == ASSUME Inv, NEW op \in operations, Load(op) PROVE Inv'
<1>1. op \in Operations /\ op.recording \in Recordings
  BY DEF Inv, TypeOK, Operations
<1>2. 1 \in Names /\ "Loaded" \in Stages /\ "Failed" \in Stages
  BY BoundAssumption DEF Names, Stages
<1>3. UNCHANGED <<history, loaded_files, next_file, logs, next_log, batches,
                  readings, association_dialog, policy, renamed, requests>>
  BY DEF Load
<1>4. PICK o : /\ operations' = (operations \ {op}) \cup {o}
               /\ o \in Operations /\ o.arrival = op.arrival /\ o.request = op.request
               /\ stored' \in [Recordings -> Names]
  <2> DEFINE name == IF stored[op.recording] = 0 THEN 1 ELSE stored[op.recording]
  <2>1. stored \in [Recordings -> Names] /\ name \in Names
    BY <1>1, <1>2 DEF Inv, TypeOK
  <2>2. CASE /\ stored' = [stored EXCEPT ![op.recording] = name]
             /\ operations' = (operations \ {op}) \cup
                    {[op EXCEPT !.stage = "Loaded", !.over = name]}
    <3>1. stored' \in [Recordings -> Names]
      BY <2>1, <2>2
    <3> HIDE DEF name
    <3> DEFINE o == [op EXCEPT !.stage = "Loaded", !.over = name]
    <3>2. o \in Operations /\ o.arrival = op.arrival /\ o.request = op.request
      BY <1>1, <1>2, <2>1, OperationStage
    <3>3. operations' = (operations \ {op}) \cup {o}
      BY <2>2
    <3> HIDE DEF o
    <3>4. QED
      BY <3>1, <3>2, <3>3
  <2>3. ASSUME NEW stage \in Stages, Pass({op}, stage), UNCHANGED stored
        PROVE  /\ operations' = (operations \ {op}) \cup {[op EXCEPT !.stage = stage]}
               /\ [op EXCEPT !.stage = stage] \in Operations
               /\ [op EXCEPT !.stage = stage].arrival = op.arrival
               /\ [op EXCEPT !.stage = stage].request = op.request
               /\ stored' \in [Recordings -> Names]
    <3>1. /\ [op EXCEPT !.stage = stage] \in Operations
          /\ [op EXCEPT !.stage = stage].arrival = op.arrival
          /\ [op EXCEPT !.stage = stage].request = op.request
      BY <1>1, <1>2, OperationStage
    <3>2. operations' = (operations \ {op}) \cup {[op EXCEPT !.stage = stage]}
      BY <2>3 DEF Pass
    <3>3. QED
      BY <2>1, <2>3, <3>1, <3>2
  <2>4. QED
    BY <1>2, <2>2, <2>3 DEF Load
<1>5. TypeOK'
  BY <1>3, <1>4 DEF Inv, TypeOK
<1>6. TokensRemain
  BY <1>3, <1>4 DEF TokensRemain
<1>7. BatchesOutliveTheirArrivals'
  BY <1>3, <1>6, TokensLeaveBatches
<1>8. QED
  BY <1>3, <1>5, <1>7, BatchesStay, FilesStay DEF Inv

LEMMA AddLoadedInv == ASSUME Inv, NEW op \in operations, AddLoaded(op) PROVE Inv'
<1> DEFINE entry == [recording |-> op.recording, identity |-> 1, name |-> op.over,
                     request |-> IF op.arrival THEN op.request ELSE 0]
           mine(b) == op.arrival /\ op.request = b
<1>1. /\ op \in Operations /\ next_file \in Nat \ {0}
      /\ DOMAIN loaded_files \subseteq 1 .. (next_file - 1)
      /\ DOMAIN batches \subseteq 1 .. requests /\ requests \in Nat
  BY DEF Inv, TypeOK
<1>2. next_file' = next_file + 1 /\ operations' = operations \ {op}
  BY DEF AddLoaded
<1>3. UNCHANGED <<history, stored, next_log, readings, association_dialog, policy,
                  renamed, requests>>
  BY DEF AddLoaded
<1>4. entry \in Files /\ \A b \in DOMAIN batches : entry.request = b <=> mine(b)
  <2>1. 1 \in Names \ {0}
    BY BoundAssumption DEF Names
  <2>2. 0 \notin DOMAIN batches
    BY <1>1
  <2>3. QED
    BY <1>1, <2>1, <2>2 DEF Operations, Files
<1>5. /\ loaded_files' \in [DOMAIN loaded_files' -> Files]
      /\ DOMAIN loaded_files' = DOMAIN loaded_files \cup {next_file}
      /\ loaded_files'[next_file] = entry
      /\ \A f \in DOMAIN loaded_files : loaded_files'[f] = loaded_files[f]
  <2>1. loaded_files' = With(loaded_files, next_file, entry)
    BY DEF AddLoaded
  <2>2. loaded_files \in [DOMAIN loaded_files -> Files]
    BY DEF Inv, TypeOK
  <2> HIDE DEF entry
  <2>3. QED
    BY <1>1, <1>4, <2>1, <2>2 DEF With
<1> HIDE DEF entry
<1>6. LoadedFiles(loaded_files')
  BY <1>1, <1>5 DEF LoadedFiles
<1>7. /\ DOMAIN batches' = DOMAIN batches
      /\ \A b \in DOMAIN batches :
           /\ batches'[b] \in Batches
           /\ batches'[b].logs = batches[b].logs
           /\ batches'[b].born = batches[b].born
           /\ batches'[b].candidates = batches[b].candidates \cup
                 (IF mine(b) THEN {next_file} ELSE {})
  BY <1>1 DEF AddLoaded, register_recording, Inv, TypeOK, Batches
<1>8. batches' \in [DOMAIN batches' -> Batches]
  <2>1. batches' = [b \in DOMAIN batches |-> batches'[b]]
    BY DEF AddLoaded, register_recording
  <2>2. QED
    BY <1>7, <2>1
<1>9. /\ logs' \in [DOMAIN logs -> LoadedLogs] /\ DOMAIN logs' = DOMAIN logs
      /\ \A l \in DOMAIN logs :
            /\ logs'[l].recording \in DOMAIN loaded_files' \cup {0}
            /\ logs'[l].source = logs[l].source
  BY <1>6, ReassociateAllType DEF AddLoaded, Inv, TypeOK
<1>10. TypeOK'
  <2>1. next_file' \in Nat \ {0} /\ DOMAIN loaded_files' \subseteq 1 .. (next_file' - 1)
    BY <1>1, <1>2, <1>5
  <2>2. operations' \subseteq Operations
    BY <1>2 DEF Inv, TypeOK
  <2>3. QED
    BY <1>3, <1>5, <1>7, <1>8, <1>9, <2>1, <2>2 DEF Inv, TypeOK
<1>11. BatchesOutliveTheirArrivals'
  <2>1. PendingLogs' = PendingLogs
    BY <1>9 DEF PendingLogs
  <2>2. QED
    BY <1>2, <1>3, <1>7, <2>1 DEF Inv, BatchesOutliveTheirArrivals
<1>12. BatchLogsWereLoaded'
  BY <1>3, <1>7 DEF Inv, BatchLogsWereLoaded
<1>13. CandidatesAreSeen'
  <2> SUFFICES ASSUME NEW b \in DOMAIN batches'
               PROVE  /\ batches'[b].candidates \subseteq 1 .. (next_file' - 1)
                      /\ batches'[b].born \in 1 .. next_file'
                      /\ batches'[b].candidates \cap DOMAIN loaded_files' =
                           {f \in DOMAIN loaded_files' :
                              f < batches'[b].born \/ loaded_files'[f].request = b}
    BY DEF CandidatesAreSeen, Ranked, Seen
  <2>1. /\ batches[b].candidates \subseteq 1 .. (next_file - 1)
        /\ batches[b].born \in 1 .. next_file
        /\ batches[b].candidates \cap DOMAIN loaded_files =
             {f \in DOMAIN loaded_files :
                f < batches[b].born \/ loaded_files[f].request = b}
    BY <1>7 DEF Inv, CandidatesAreSeen, Ranked, Seen
  <2>2. next_file \notin batches[b].candidates /\ ~ (next_file < batches[b].born)
    BY <1>1, <2>1
  <2>3. batches'[b].candidates \subseteq 1 .. (next_file' - 1)
    BY <1>1, <1>2, <1>7, <2>1
  <2>4. batches'[b].born \in 1 .. next_file'
    BY <1>1, <1>2, <1>7, <2>1
  <2>5. \A f \in DOMAIN loaded_files' :
           f \in batches'[b].candidates <=>
              f < batches'[b].born \/ loaded_files'[f].request = b
    <3>1. CASE mine(b)
      BY <1>4, <1>5, <1>7, <2>1, <2>2, <3>1
    <3>2. CASE ~ mine(b)
      BY <1>4, <1>5, <1>7, <2>1, <2>2, <3>2
    <3>3. QED
      BY <3>1, <3>2
  <2>6. QED
    BY <2>3, <2>4, <2>5
<1>14. QED
  BY <1>10, <1>11, <1>12, <1>13 DEF Inv

-----------------------------------------------------------------------------
\* Logs.

LEMMA ReadLogInv == ASSUME Inv, NEW r \in readings, ReadLog(r) PROVE Inv'
<1>1. /\ r \in Readings /\ r.batch \in DOMAIN batches
      /\ next_log \in Nat \ {0} /\ DOMAIN logs \subseteq 1 .. (next_log - 1)
  BY DEF Inv, TypeOK, BatchesOutliveTheirArrivals
<1>2. readings' \subseteq readings /\ readings' \subseteq Readings
  BY DEF ReadLog, Inv, TypeOK
<1>3. UNCHANGED <<history, stored, loaded_files, next_file, operations,
                  association_dialog, policy, renamed, requests>>
  BY DEF ReadLog
<1>4. TokensRemain
  BY <1>2, <1>3 DEF TokensRemain
<1>5. CASE UNCHANGED <<logs, next_log, batches>>
  <2>1. TypeOK'
    BY <1>2, <1>3, <1>5 DEF Inv, TypeOK
  <2>2. BatchesOutliveTheirArrivals'
    BY <1>4, <1>5, TokensLeaveBatches
  <2>3. QED
    BY <1>3, <1>5, <2>1, <2>2, BatchesStay, FilesStay DEF Inv
<1>6. CASE /\ logs' = With(logs, next_log,
                 [content |-> r.content, source |-> "Pending", key |-> NoKey,
                  recording |-> 0])
           /\ next_log' = next_log + 1
           /\ batches' = register_log(r.batch, next_log)
  <2> DEFINE new == [content |-> r.content, source |-> "Pending", key |-> NoKey,
                     recording |-> 0]
  <2>1. new \in LoadedLogs /\ new.source = "Pending" /\ new.recording = 0
    <3>1. NoKey \in RecordingKeys
      BY BoundAssumption DEF NoKey, RecordingKeys, Names
    <3>2. QED
      BY <1>1, <3>1 DEF LoadedLogs, Readings
  <2>2. logs' = With(logs, next_log, new)
    BY <1>6
  <2> HIDE DEF new
  <2>3. /\ logs' \in [DOMAIN logs' -> LoadedLogs]
        /\ DOMAIN logs' = DOMAIN logs \cup {next_log}
        /\ logs'[next_log] = new
        /\ \A l \in DOMAIN logs : logs'[l] = logs[l]
    <3>1. logs \in [DOMAIN logs -> LoadedLogs] /\ next_log \notin DOMAIN logs
      BY <1>1 DEF Inv, TypeOK
    <3>2. QED
      BY <2>1, <2>2, <3>1 DEF With
  <2>4. /\ DOMAIN batches' = DOMAIN batches
        /\ batches' \in [DOMAIN batches' -> Batches]
        /\ \A b \in DOMAIN batches :
             /\ batches'[b].candidates = batches[b].candidates
             /\ batches'[b].born = batches[b].born
             /\ batches'[b].logs = batches[b].logs \cup
                   (IF b = r.batch THEN {next_log} ELSE {})
    BY <1>1, <1>6 DEF register_log, Inv, TypeOK, Batches
  <2>5. TypeOK'
    <3>1. next_log' \in Nat \ {0} /\ DOMAIN logs' \subseteq 1 .. (next_log' - 1)
      BY <1>1, <1>6, <2>3
    <3>2. \A l \in DOMAIN logs' : logs'[l].recording \in DOMAIN loaded_files' \cup {0}
      BY <1>3, <2>1, <2>3 DEF Inv, TypeOK
    <3>3. QED
      BY <1>2, <1>3, <2>3, <2>4, <3>1, <3>2 DEF Inv, TypeOK
  <2>6. BatchLogsWereLoaded'
    <3>1. \A b \in DOMAIN batches : batches[b].logs \subseteq 1 .. (next_log - 1)
      BY DEF Inv, BatchLogsWereLoaded
    <3>2. \A b \in DOMAIN batches' : batches'[b].logs \subseteq 1 .. (next_log' - 1)
      BY <1>1, <1>6, <2>4, <3>1
    <3>3. QED
      BY <3>2 DEF BatchLogsWereLoaded
  <2>7. BatchesOutliveTheirArrivals'
    <3>1. PendingLogs' = PendingLogs \cup {next_log}
      BY <2>1, <2>3 DEF PendingLogs
    <3>2. \A b \in DOMAIN batches : next_log \notin batches[b].logs
      BY <1>1 DEF Inv, BatchLogsWereLoaded
    <3>3. ASSUME NEW l \in PendingLogs'
          PROVE  \E b \in DOMAIN batches' :
                   /\ l \in batches'[b].logs
                   /\ \A c \in DOMAIN batches' : l \in batches'[c].logs => c = b
      <4>1. CASE l = next_log
        BY <1>1, <2>4, <3>2, <4>1
      <4>2. CASE l # next_log
        BY <2>4, <3>1, <3>3, <4>2 DEF Inv, BatchesOutliveTheirArrivals
      <4>3. QED
        BY <4>1, <4>2
    <3>4. \A o \in operations' : o.arrival => o.request \in DOMAIN batches'
      BY <1>3, <2>4 DEF Inv, BatchesOutliveTheirArrivals
    <3>5. \A x \in readings' : x.batch \in DOMAIN batches'
      BY <1>2, <2>4 DEF Inv, BatchesOutliveTheirArrivals
    <3>6. QED
      BY <3>3, <3>4, <3>5 DEF BatchesOutliveTheirArrivals
  <2>8. CandidatesAreSeen'
    BY <1>3, <2>4 DEF Inv, CandidatesAreSeen, Ranked, Seen
  <2>9. QED
    BY <2>5, <2>6, <2>7, <2>8 DEF Inv
<1>7. QED
  BY <1>5, <1>6 DEF ReadLog

LEMMA UnloadLogInv == ASSUME Inv, NEW l \in DOMAIN logs, UnloadLog(l) PROVE Inv'
<1>1. UNCHANGED <<history, stored, loaded_files, next_file, next_log, batches,
                  operations, readings, association_dialog, policy, renamed, requests>>
  BY DEF UnloadLog
<1>2. /\ logs' \in [DOMAIN logs' -> LoadedLogs] /\ DOMAIN logs' \subseteq DOMAIN logs
      /\ \A k \in DOMAIN logs' : logs'[k] = logs[k]
  BY DEF UnloadLog, Only, Inv, TypeOK
<1>3. TypeOK'
  BY <1>1, <1>2 DEF Inv, TypeOK
<1>4. TokensRemain
  BY <1>1 DEF TokensRemain
<1>5. BatchesOutliveTheirArrivals'
  BY <1>1, <1>2, <1>4, TokensLeaveBatches
<1>6. QED
  BY <1>1, <1>3, <1>5, BatchesStay, FilesStay DEF Inv

LEMMA UnloadRecordingInv ==
    ASSUME Inv, NEW f \in DOMAIN loaded_files, UnloadRecording(f) PROVE Inv'
<1>1. UNCHANGED <<history, stored, next_file, next_log, batches, operations,
                  readings, association_dialog, policy, renamed, requests>>
  BY DEF UnloadRecording
<1>2. /\ loaded_files' \in [DOMAIN loaded_files' -> Files]
      /\ DOMAIN loaded_files' \subseteq DOMAIN loaded_files
      /\ \A g \in DOMAIN loaded_files' : loaded_files'[g] = loaded_files[g]
  BY DEF UnloadRecording, Only, Inv, TypeOK
<1>3. LoadedFiles(loaded_files')
  BY <1>2 DEF LoadedFiles, Inv, TypeOK
<1> DEFINE held == Only(logs, {l \in DOMAIN logs : logs[l].key # KeyOf(loaded_files, f)})
<1>4. /\ held \in [DOMAIN held -> LoadedLogs] /\ DOMAIN held \subseteq DOMAIN logs
      /\ \A l \in DOMAIN held : held[l] = logs[l]
  BY DEF Only, Inv, TypeOK
<1>5. logs' = ReassociateAll(loaded_files', held)
  BY DEF UnloadRecording
<1> HIDE DEF held
<1>6. /\ logs' \in [DOMAIN logs' -> LoadedLogs] /\ DOMAIN logs' = DOMAIN held
      /\ \A l \in DOMAIN logs' : /\ logs'[l].recording \in DOMAIN loaded_files' \cup {0}
                                 /\ logs'[l].source = logs[l].source
  BY <1>3, <1>4, <1>5, ReassociateAllType
<1>7. TypeOK'
  BY <1>1, <1>2, <1>4, <1>6 DEF Inv, TypeOK
<1>8. TokensRemain
  BY <1>1 DEF TokensRemain
<1>9. BatchesOutliveTheirArrivals'
  BY <1>1, <1>4, <1>6, <1>8, TokensLeaveBatches
<1>10. CandidatesAreSeen'
  BY <1>1, <1>2 DEF Inv, CandidatesAreSeen, Ranked, Seen
<1>11. QED
  BY <1>1, <1>7, <1>9, <1>10, BatchesStay DEF Inv

LEMMA RenameStoredInv == ASSUME Inv, NEW r \in Recordings, RenameStored(r) PROVE Inv'
<1>1. UNCHANGED <<history, loaded_files, next_file, logs, next_log, batches,
                  operations, readings, association_dialog, policy, requests>>
  BY DEF RenameStored
<1>2. stored[r] + 1 \in Names
  BY BoundAssumption DEF RenameStored, Names
<1>3. stored' \in [Recordings -> Names]
  BY <1>2 DEF RenameStored, Inv, TypeOK
<1>4. renamed' \subseteq [recording : Recordings, old : 1 .. Renames]
  BY DEF RenameStored, Inv, TypeOK
<1>5. TypeOK'
  BY <1>1, <1>3, <1>4 DEF Inv, TypeOK
<1>6. TokensRemain
  BY <1>1 DEF TokensRemain
<1>7. BatchesOutliveTheirArrivals'
  BY <1>1, <1>6, TokensLeaveBatches
<1>8. QED
  BY <1>1, <1>5, <1>7, BatchesStay, FilesStay DEF Inv

LEMMA ApplyRenameInv == ASSUME Inv, NEW x \in renamed, ApplyRename(x) PROVE Inv'
<1>1. UNCHANGED <<history, stored, next_file, logs, next_log, batches, operations,
                  readings, association_dialog, policy, requests>>
  BY DEF ApplyRename
<1>2. renamed' \subseteq renamed
  BY DEF ApplyRename
<1>3. x.old + 1 \in Names \ {0} /\ 0 \in Names
  BY BoundAssumption DEF Inv, TypeOK, Names
<1>4. ASSUME NEW file \in Files
      PROVE  /\ [file EXCEPT !.identity = x.old + 1,
                             !.name = IF @ = 0 THEN 0 ELSE x.old + 1] \in Files
             /\ [file EXCEPT !.identity = x.old + 1,
                             !.name = IF @ = 0 THEN 0 ELSE x.old + 1].request
                  = file.request
  BY <1>3 DEF Files
<1>5. /\ loaded_files' \in [DOMAIN loaded_files' -> Files]
      /\ DOMAIN loaded_files' = DOMAIN loaded_files
      /\ \A g \in DOMAIN loaded_files :
            loaded_files'[g].request = loaded_files[g].request
  <2>1. \A g \in DOMAIN loaded_files : loaded_files[g] \in Files
    BY DEF Inv, TypeOK
  <2>2. QED
    BY <1>4, <2>1 DEF ApplyRename
<1>6. TypeOK'
  BY <1>1, <1>2, <1>5 DEF Inv, TypeOK
<1>7. TokensRemain
  BY <1>1 DEF TokensRemain
<1>8. BatchesOutliveTheirArrivals'
  BY <1>1, <1>7, TokensLeaveBatches
<1>9. CandidatesAreSeen'
  BY <1>1, <1>5 DEF Inv, CandidatesAreSeen, Ranked, Seen
<1>10. QED
  BY <1>1, <1>6, <1>8, <1>9, BatchesStay DEF Inv

-----------------------------------------------------------------------------
\* The dialog.

\* A step of the dialog that only decides logs.
LEMMA DialogStep ==
    ASSUME Inv,
           UNCHANGED <<history, stored, loaded_files, next_file, next_log, batches,
                       operations, readings, renamed>>,
           association_dialog' \in Dialogs,
           policy' \in {"Ask", "AutomaticallyUseUnambiguous"},
           requests' \in requests .. Requests,
           logs' \in [DOMAIN logs -> LoadedLogs],
           \A l \in DOMAIN logs :
              /\ logs'[l].recording \in DOMAIN loaded_files \cup {0}
              /\ logs'[l].source = "Pending" => logs[l].source = "Pending"
    PROVE  Inv'
<1>1. requests \in 0 .. Requests
  BY DEF Inv, TypeOK
<1>2. requests' \in 0 .. Requests /\ DOMAIN batches' \subseteq 1 .. requests'
  BY <1>1, BoundAssumption DEF Inv, TypeOK
<1>3. TypeOK'
  BY <1>2 DEF Inv, TypeOK
<1>4. BatchesOutliveTheirArrivals'
  BY TokensLeaveBatches DEF TokensRemain
<1>5. QED
  BY <1>3, <1>4, BatchesStay, FilesStay DEF Inv

LEMMA NoDialogType == NoDialog \in Dialogs
BY DEF NoDialog, Dialogs

LEMMA OpenDialogInv == ASSUME Inv, NEW l \in DOMAIN logs, OpenDialog(l) PROVE Inv'
<1>1. /\ l \in Nat /\ logs[l].recording \in Nat
      /\ logs \in [DOMAIN logs -> LoadedLogs]
      /\ \A k \in DOMAIN logs : logs[k].recording \in DOMAIN loaded_files \cup {0}
      /\ policy \in {"Ask", "AutomaticallyUseUnambiguous"}
      /\ requests \in 0 .. Requests
  BY DEF Inv, TypeOK, LoadedLogs
<1>2. Unambiguous(logs[l].content, DOMAIN loaded_files) \in Nat
  BY UnambiguousIsTheOnlyOne DEF Inv
<1>3. association_dialog' \in Dialogs
  BY <1>1, <1>2 DEF OpenDialog, Dialogs
<1>4. requests' \in requests .. Requests
  BY <1>1, BoundAssumption DEF OpenDialog, UserRequest
<1>5. QED
  BY <1>1, <1>3, <1>4, DialogStep DEF OpenDialog, OnlyDialog

LEMMA OtherDialogInv ==
    ASSUME Inv, TogglePolicy \/ DropDialog PROVE Inv'
<1>1. /\ logs \in [DOMAIN logs -> LoadedLogs]
      /\ \A k \in DOMAIN logs : logs[k].recording \in DOMAIN loaded_files \cup {0}
      /\ policy \in {"Ask", "AutomaticallyUseUnambiguous"}
      /\ requests \in 0 .. Requests /\ association_dialog \in Dialogs
  BY DEF Inv, TypeOK
<1>2. /\ association_dialog' \in Dialogs
      /\ policy' \in {"Ask", "AutomaticallyUseUnambiguous"}
      /\ requests' = requests
      /\ OnlyDialog
  BY <1>1, NoDialogType DEF TogglePolicy, DropDialog
<1>3. requests' \in requests .. Requests
  BY <1>1, <1>2, BoundAssumption
<1>4. QED
  BY <1>1, <1>2, <1>3, DialogStep DEF OnlyDialog

\* Only the log of the dialog is decided.
LEMMA DecisionStep ==
    ASSUME Inv, Confirm \/ Cancel
    PROVE  /\ logs' \in [DOMAIN logs -> LoadedLogs]
           /\ \A l \in DOMAIN logs :
                 /\ logs'[l].recording \in DOMAIN loaded_files \cup {0}
                 /\ logs'[l].source = "Pending" => logs[l].source = "Pending"
                 /\ l # association_dialog.log => logs'[l] = logs[l]
<1> DEFINE d == association_dialog.log
<1>1. d \in DOMAIN logs
  BY DEF Confirm, Cancel, DialogShown
<1>2. /\ logs \in [DOMAIN logs -> LoadedLogs] /\ logs[d] \in LoadedLogs
      /\ \A l \in DOMAIN logs : logs[l].recording \in DOMAIN loaded_files \cup {0}
      /\ LoadedFiles(loaded_files)
  BY <1>1, LoadedFilesTyped DEF Inv, TypeOK
<1>3. PICK v : /\ logs' = [logs EXCEPT ![d] = v]
               /\ v = logs[d] \/ \E target : v = Anchored(logs[d], target)
  <2>1. CASE Confirm
    BY <2>1 DEF Confirm
  <2>2. CASE Cancel
    BY <2>2 DEF Cancel
  <2>3. QED
    BY <2>1, <2>2
<1>4. /\ v \in LoadedLogs /\ v.recording \in DOMAIN loaded_files \cup {0}
      /\ v.source = "Pending" => logs[d].source = "Pending"
  BY <1>1, <1>2, <1>3, AnchoredType
<1> HIDE DEF d
<1>5. /\ logs' \in [DOMAIN logs -> LoadedLogs]
      /\ \A l \in DOMAIN logs : logs'[l] = IF l = d THEN v ELSE logs[l]
  BY <1>1, <1>2, <1>3, <1>4
<1>6. QED
  BY <1>2, <1>4, <1>5 DEF d

LEMMA DecisionInv == ASSUME Inv, Confirm \/ Cancel PROVE Inv'
<1>1. UNCHANGED <<history, stored, loaded_files, next_file, next_log, batches,
                  operations, readings, policy, renamed, requests>>
  BY DEF Confirm, Cancel
<1>2. association_dialog' \in Dialogs
  BY NoDialogType DEF Confirm, Cancel
<1>3. requests' \in requests .. Requests
  BY <1>1, BoundAssumption DEF Inv, TypeOK
<1>4. policy' \in {"Ask", "AutomaticallyUseUnambiguous"}
  BY <1>1 DEF Inv, TypeOK
<1>5. QED
  BY <1>1, <1>2, <1>3, <1>4, DecisionStep, DialogStep

-----------------------------------------------------------------------------
\* The resolving.

\* A pending log is in the batch BatchOf names and in no other.
LEMMA BatchOfPending ==
    ASSUME Inv, NEW l \in PendingLogs
    PROVE  /\ BatchOf(l) \in DOMAIN batches /\ l \in batches[BatchOf(l)].logs
           /\ \A b \in DOMAIN batches : l \in batches[b].logs => b = BatchOf(l)
<1>1. PICK b \in DOMAIN batches :
         /\ l \in batches[b].logs
         /\ \A c \in DOMAIN batches : l \in batches[c].logs => c = b
  BY DEF Inv, BatchesOutliveTheirArrivals
<1>2. QED
  BY <1>1 DEF BatchOf

\* What it does to the logs and to the dialog.
LEMMA ResolveStep ==
    ASSUME Inv, resolve_initial_log_associations
    PROVE  /\ logs' \in [DOMAIN logs -> LoadedLogs]
           /\ \A l \in DOMAIN logs :
                 \/ logs'[l] = logs[l]
                 \/ LET scope == batches[BatchOf(l)].candidates
                    IN /\ l \in ReadyLogs /\ l # association_dialog.log
                       /\ policy = "Ask" => Ranked(scope) = {}
                       /\ logs'[l] =
                            Anchored(logs[l], Unambiguous(logs[l].content, scope))
           /\ \/ UNCHANGED association_dialog
              \/ \E l \in ReadyLogs :
                    LET scope == batches[BatchOf(l)].candidates
                    IN association_dialog' =
                         [log |-> l, initial |-> TRUE, candidates |-> scope,
                          selected |-> Unambiguous(logs[l].content, scope)]
<1> DEFINE scope(l) == batches[BatchOf(l)].candidates
           ready == ReadyLogs \ {association_dialog.log}
           choices == {l \in ready : policy = "Ask" /\ Ranked(scope(l)) # {}}
           decided == {l \in ready \ choices : \A k \in choices : ReadyBefore(l, k)}
           v(l) == Anchored(logs[l], Unambiguous(logs[l].content, scope(l)))
<1>1. /\ logs' = [l \in DOMAIN logs |-> IF l \in decided THEN v(l) ELSE logs[l]]
      /\ \/ UNCHANGED association_dialog
         \/ \E l \in choices :
               association_dialog' =
                        [log |-> l, initial |-> TRUE, candidates |-> scope(l),
                         selected |-> Unambiguous(logs[l].content, scope(l))]
  BY DEF resolve_initial_log_associations
<1>2. choices \subseteq ReadyLogs
  OBVIOUS
<1>3. \A l \in decided : /\ l \in ReadyLogs /\ l # association_dialog.log
                         /\ policy = "Ask" => Ranked(scope(l)) = {}
  OBVIOUS
<1>4. \A l \in DOMAIN logs : logs[l] \in LoadedLogs /\ v(l) \in LoadedLogs
  BY AnchoredType, LoadedFilesTyped DEF Inv, TypeOK
<1> HIDE DEF choices, decided, v
<1>5. logs' \in [DOMAIN logs -> LoadedLogs]
  BY <1>1, <1>4
<1>6. \A l \in DOMAIN logs :
         \/ logs'[l] = logs[l]
         \/ /\ l \in ReadyLogs /\ l # association_dialog.log
            /\ policy = "Ask" => Ranked(scope(l)) = {}
            /\ logs'[l] = v(l)
  BY <1>1, <1>3
<1>7. QED
  BY <1>1, <1>2, <1>5, <1>6 DEF v

LEMMA ResolveInv == ASSUME Inv, resolve_initial_log_associations PROVE Inv'
<1>1. UNCHANGED <<history, stored, loaded_files, next_file, next_log,
                  operations, readings, policy, renamed, requests>>
  BY DEF resolve_initial_log_associations
<1>2. batches' = [b \in KeptBatches |-> [batches[b] EXCEPT !.logs = @ \cap PendingLogs]]
  BY DEF resolve_initial_log_associations
<1>3. KeptBatches \subseteq DOMAIN batches
  BY DEF KeptBatches
<1>4. /\ DOMAIN batches' = KeptBatches
      /\ batches' \in [DOMAIN batches' -> Batches]
      /\ \A b \in KeptBatches :
            /\ batches'[b].logs = batches[b].logs \cap PendingLogs
            /\ batches'[b].candidates = batches[b].candidates
            /\ batches'[b].born = batches[b].born
  BY <1>2, <1>3 DEF Inv, TypeOK, Batches
<1>5. /\ logs' \in [DOMAIN logs -> LoadedLogs]
      /\ \A l \in DOMAIN logs :
            /\ logs'[l].recording \in DOMAIN loaded_files \cup {0}
            /\ logs'[l].source = "Pending" => logs[l].source = "Pending"
  <2> SUFFICES ASSUME NEW l \in DOMAIN logs
               PROVE  /\ logs'[l].recording \in DOMAIN loaded_files \cup {0}
                      /\ logs'[l].source = "Pending" => logs[l].source = "Pending"
    BY ResolveStep
  <2>1. logs[l] \in LoadedLogs /\ logs[l].recording \in DOMAIN loaded_files \cup {0}
    BY DEF Inv, TypeOK
  <2>2. logs'[l] = logs[l] \/ \E f : logs'[l] = Anchored(logs[l], f)
    BY ResolveStep
  <2>3. QED
    BY <2>1, <2>2, AnchoredType, LoadedFilesTyped DEF Inv
<1>6. association_dialog' \in Dialogs
  <2>1. association_dialog \in Dialogs
    BY DEF Inv, TypeOK
  <2>2. ASSUME NEW l \in ReadyLogs,
               association_dialog' =
                  [log |-> l, initial |-> TRUE,
                   candidates |-> batches[BatchOf(l)].candidates,
                   selected |-> Unambiguous(logs[l].content,
                                            batches[BatchOf(l)].candidates)]
        PROVE  association_dialog' \in Dialogs
    <3>1. l \in PendingLogs
      BY DEF ReadyLogs
    <3>2. l \in Nat /\ BatchOf(l) \in DOMAIN batches
      BY <3>1, BatchOfPending DEF Inv, TypeOK, PendingLogs
    <3>3. batches[BatchOf(l)].candidates \subseteq Nat
      BY <3>2 DEF Inv, TypeOK, Batches
    <3>4. Unambiguous(logs[l].content, batches[BatchOf(l)].candidates) \in Nat
      BY UnambiguousIsTheOnlyOne DEF Inv
    <3>5. QED
      BY <2>2, <3>2, <3>3, <3>4 DEF Dialogs
  <2>3. QED
    BY <2>1, <2>2, ResolveStep
<1>7. TypeOK'
  BY <1>1, <1>3, <1>4, <1>5, <1>6 DEF Inv, TypeOK
<1>8. BatchesOutliveTheirArrivals'
  <2>1. \A op \in operations' : op.arrival => op.request \in DOMAIN batches'
    BY <1>1, <1>4 DEF Inv, BatchesOutliveTheirArrivals, KeptBatches, RecordingsOf
  <2>2. \A r \in readings' : r.batch \in DOMAIN batches'
    BY <1>1, <1>4 DEF Inv, BatchesOutliveTheirArrivals, KeptBatches, ReadingsOf
  <2>3. PendingLogs' \subseteq PendingLogs
    BY <1>5 DEF PendingLogs
  <2>4. ASSUME NEW l \in PendingLogs'
        PROVE  \E b \in DOMAIN batches' :
                 /\ l \in batches'[b].logs
                 /\ \A c \in DOMAIN batches' : l \in batches'[c].logs => c = b
    <3>1. l \in PendingLogs
      BY <2>3
    <3>2. BatchOf(l) \in KeptBatches
      BY <3>1, BatchOfPending DEF KeptBatches
    <3>3. QED
      BY <1>3, <1>4, <3>1, <3>2, BatchOfPending
  <2>5. QED
    BY <2>1, <2>2, <2>4 DEF BatchesOutliveTheirArrivals
<1>9. BatchLogsWereLoaded'
  BY <1>1, <1>3, <1>4 DEF Inv, BatchLogsWereLoaded
<1>10. CandidatesAreSeen'
  BY <1>1, <1>3, <1>4 DEF Inv, CandidatesAreSeen, Ranked, Seen
<1>11. QED
  BY <1>7, <1>8, <1>9, <1>10 DEF Inv

-----------------------------------------------------------------------------
\* The theorems.

LEMMA NextInv == ASSUME Inv, [Next]_vars PROVE Inv'
<1>1. CASE UNCHANGED vars
  <2>1. TypeOK'
    BY <1>1 DEF Inv, TypeOK, vars
  <2>2. BatchesOutliveTheirArrivals'
    BY <1>1, TokensLeaveBatches DEF TokensRemain, vars
  <2>3. QED
    BY <1>1, <2>1, <2>2, BatchesStay, FilesStay DEF Inv, vars
<1>2. CASE User
  <2>1. ASSUME requests < Requests,
               \E drop \in Drops[requests + 1] : Arrive(drop[1], drop[2])
        PROVE  Inv'
    BY <2>1, ArriveInv
  <2>2. ASSUME NEW r \in Recordings, Open(r) \/ RenameStored(r) PROVE Inv'
    BY <2>2, OpenInv, RenameStoredInv
  <2>3. CASE CancelArrivals \/ OpenStoredVersions \/ LoadFromDisk
    BY <2>3, PromptInv, LoadFromDiskInv
  <2>4. ASSUME NEW op \in operations, AnswerResegment(op) PROVE Inv'
    BY <2>4, OperationInv
  <2>5. ASSUME NEW l \in DOMAIN logs, UnloadLog(l) \/ OpenDialog(l) PROVE Inv'
    BY <2>5, UnloadLogInv, OpenDialogInv
  <2>6. ASSUME NEW f \in DOMAIN loaded_files, UnloadRecording(f) PROVE Inv'
    BY <2>6, UnloadRecordingInv
  <2>7. CASE TogglePolicy \/ Confirm \/ Cancel
    BY <2>7, OtherDialogInv, DecisionInv
  <2>8. QED
    BY <1>2, <2>1, <2>2, <2>3, <2>4, <2>5, <2>6, <2>7 DEF User
<1>3. CASE Background
  <2>1. ASSUME NEW b \in 1 .. requests, Screen(b) PROVE Inv'
    BY <2>1, ScreenInv
  <2>2. ASSUME NEW op \in operations,
               OpenStored(op) \/ Load(op) \/ AddLoaded(op) \/ DropFailed(op)
        PROVE  Inv'
    BY <2>2, OperationInv, LoadInv, AddLoadedInv
  <2>3. ASSUME NEW r \in readings, ReadLog(r) PROVE Inv'
    BY <2>3, ReadLogInv
  <2>4. ASSUME NEW x \in renamed, ApplyRename(x) PROVE Inv'
    BY <2>4, ApplyRenameInv
  <2>5. CASE DropDialog
    BY <2>5, OtherDialogInv
  <2>6. QED
    BY <1>3, <2>1, <2>2, <2>3, <2>4, <2>5 DEF Background
<1>4. CASE resolve_initial_log_associations
  BY <1>4, ResolveInv
<1>5. QED
  BY <1>1, <1>2, <1>3, <1>4 DEF Next

LEMMA Invariance == Spec => []Inv
<1>1. Inv /\ [Next]_vars => Inv'
  BY NextInv
<1>2. QED
  BY <1>1, InitInv, PTL DEF Spec

\* Every variable keeps its type: an id that a batch, a log or the dialog holds
\* is one that was given out (LoadedFiles, LoadedLogs, AssociationBatches).
THEOREM TypeCorrect == Spec => []TypeOK
<1>1. Inv => TypeOK
  BY DEF Inv
<1>2. QED
  BY <1>1, Invariance, PTL

\* Whatever arrives in whatever order, a token that is not dropped finds its
\* batch (batch_for_live_arrival_mut never panics), and a pending log is in one
\* batch and no other.
THEOREM ArrivalsFindTheirBatch == Spec => []BatchesOutliveTheirArrivals
<1>1. Inv => BatchesOutliveTheirArrivals
  BY DEF Inv
<1>2. QED
  BY <1>1, Invariance, PTL

-----------------------------------------------------------------------------
\* Who decides a log.

\* All but the resolving leave a log as undecided as it is, unless it is the one
\* the dialog asks about, and open no dialog by themselves.
LEMMA OthersDecideNothing ==
    ASSUME Inv, User \/ Background \/ UNCHANGED vars
    PROVE  /\ \A l \in DOMAIN logs \cap DOMAIN logs' :
                 logs'[l].source = logs[l].source \/ l = association_dialog.log
           /\ UNCHANGED association_dialog \/ association_dialog'.initial = FALSE
<1>1. NoDialog.initial = FALSE
  BY DEF NoDialog
<1>2. CASE UNCHANGED <<logs, association_dialog>>
  BY <1>2
<1>3. ASSUME NEW op \in operations, AddLoaded(op)
      PROVE  /\ \A l \in DOMAIN logs : logs'[l].source = logs[l].source
             /\ UNCHANGED association_dialog
  <2>1. LoadedFiles(loaded_files')
    <3>1. AddLoaded(op) => Inv'
      BY AddLoadedInv
    <3>2. TypeOK'
      BY <1>3, <3>1 DEF Inv
    <3>3. QED
      BY <3>2 DEF TypeOK, LoadedFiles
  <2>2. QED
    BY <1>3, <2>1, ReassociateAllType DEF AddLoaded, Inv, TypeOK
<1>4. ASSUME NEW f \in DOMAIN loaded_files, UnloadRecording(f)
      PROVE  /\ \A l \in DOMAIN logs \cap DOMAIN logs' : logs'[l].source = logs[l].source
             /\ UNCHANGED association_dialog
  <2> DEFINE held == Only(logs, {l \in DOMAIN logs : logs[l].key # KeyOf(loaded_files, f)})
  <2>1. LoadedFiles(loaded_files')
    BY <1>4 DEF UnloadRecording, Only, LoadedFiles, Inv, TypeOK
  <2>2. /\ held \in [DOMAIN held -> LoadedLogs]
        /\ \A l \in DOMAIN held : held[l] = logs[l]
    BY DEF Only, Inv, TypeOK
  <2>3. logs' = ReassociateAll(loaded_files', held) /\ UNCHANGED association_dialog
    BY <1>4 DEF UnloadRecording
  <2> HIDE DEF held
  <2>4. QED
    BY <2>1, <2>2, <2>3, ReassociateAllType
<1>5. ASSUME NEW r \in readings, ReadLog(r)
      PROVE  /\ \A l \in DOMAIN logs : logs'[l] = logs[l]
             /\ UNCHANGED association_dialog
  <2>1. next_log \notin DOMAIN logs
    BY DEF Inv, TypeOK
  <2>2. QED
    BY <1>5, <2>1 DEF ReadLog, With
<1>6. ASSUME NEW l \in DOMAIN logs, UnloadLog(l)
      PROVE  /\ \A k \in DOMAIN logs' : logs'[k] = logs[k]
             /\ UNCHANGED association_dialog
  BY <1>6 DEF UnloadLog, Only
<1>7. ASSUME NEW l \in DOMAIN logs, OpenDialog(l)
      PROVE  UNCHANGED logs /\ association_dialog'.initial = FALSE
  BY <1>7 DEF OpenDialog, OnlyDialog
<1>8. CASE TogglePolicy \/ DropDialog
  BY <1>1, <1>8 DEF TogglePolicy, DropDialog, OnlyDialog
<1>9. CASE Confirm \/ Cancel
  <2>1. \A l \in DOMAIN logs : l # association_dialog.log => logs'[l] = logs[l]
    BY <1>9, DecisionStep
  <2>2. association_dialog'.initial = FALSE
    BY <1>1, <1>9 DEF Confirm, Cancel
  <2>3. QED
    BY <2>1, <2>2
<1>10. CASE User
  <2>1. ASSUME NEW drop \in Drops[requests + 1], Arrive(drop[1], drop[2])
        PROVE  UNCHANGED <<logs, association_dialog>>
    BY <2>1 DEF Arrive
  <2>2. ASSUME NEW r \in Recordings, Open(r) \/ RenameStored(r)
        PROVE  UNCHANGED <<logs, association_dialog>>
    BY <2>2 DEF Open, RenameStored
  <2>3. ASSUME NEW op \in operations, AnswerResegment(op)
        PROVE  UNCHANGED <<logs, association_dialog>>
    BY <2>3 DEF AnswerResegment, OnlyOperations
  <2>4. CASE CancelArrivals \/ OpenStoredVersions \/ LoadFromDisk
    BY <1>2, <2>4 DEF CancelArrivals, OpenStoredVersions, LoadFromDisk, OnlyOperations
  <2>5. QED
    BY <1>2, <1>4, <1>6, <1>7, <1>8, <1>9, <1>10, <2>1, <2>2, <2>3, <2>4 DEF User
<1>11. CASE Background
  <2>1. ASSUME NEW b \in 1 .. requests, Screen(b)
        PROVE  UNCHANGED <<logs, association_dialog>>
    BY <2>1 DEF Screen, OnlyOperations
  <2>2. ASSUME NEW op \in operations, OpenStored(op) \/ Load(op) \/ DropFailed(op)
        PROVE  UNCHANGED <<logs, association_dialog>>
    BY <2>2 DEF OpenStored, Load, DropFailed, OnlyOperations
  <2>3. ASSUME NEW x \in renamed, ApplyRename(x)
        PROVE  UNCHANGED <<logs, association_dialog>>
    BY <2>3 DEF ApplyRename
  <2>4. QED
    BY <1>2, <1>3, <1>5, <1>8, <1>11, <2>1, <2>2, <2>3 DEF Background
<1>12. QED
  BY <1>2, <1>10, <1>11 DEF vars

LEMMA ResolveJudges ==
    ASSUME Inv, resolve_initial_log_associations, NEW l \in PendingLogs
    PROVE  Judged(l)
<1> DEFINE b == BatchOf(l)
           scope == batches[b].candidates
           fitting == {f \in Seen(b) :
               <<logs[l].content, loaded_files[f].recording>> \in Overlaps}
           target == Unambiguous(logs[l].content, scope)
<1>1. b \in DOMAIN batches /\ l \in DOMAIN logs /\ logs[l].source = "Pending"
  BY BatchOfPending DEF PendingLogs
<1>2. Ranked(scope) = Seen(b)
  BY <1>1 DEF Inv, CandidatesAreSeen
<1>3. l \in ReadyLogs => RecordingsOf(b) = {}
  BY BatchOfPending DEF ReadyLogs
<1>4. /\ (\E f \in fitting : fitting = {f}) => fitting = {target}
      /\ ~ (\E f \in fitting : fitting = {f}) => target = 0
  BY <1>2, UnambiguousIsTheOnlyOne DEF Inv
<1>5. logs[l] \in LoadedLogs /\ LoadedFiles(loaded_files)
  BY <1>1, LoadedFilesTyped DEF Inv, TypeOK
<1>6. fitting \subseteq DOMAIN loaded_files /\ 0 \notin DOMAIN loaded_files
  BY <1>5 DEF Seen, LoadedFiles
<1>7. ASSUME l \in DOMAIN logs', ~Pending(l)', association_dialog.log # l
      PROVE  /\ RecordingsOf(b) = {}
             /\ IF \E f \in fitting : fitting = {f}
                THEN \A f \in fitting : logs'[l].key = KeyOf(loaded_files, f)
                ELSE logs'[l].source = "None"
             /\ policy = "Ask" => Seen(b) = {}
  <2>1. logs'[l] # logs[l]
    BY <1>1, <1>7 DEF Pending
  <2>2. /\ l \in ReadyLogs
        /\ policy = "Ask" => Ranked(scope) = {}
        /\ logs'[l] = Anchored(logs[l], target)
    BY <1>1, <2>1, ResolveStep
  <2> HIDE DEF fitting, target
  <2>3. CASE \E f \in fitting : fitting = {f}
    <3>1. target \in DOMAIN loaded_files /\ \A f \in fitting : f = target
      BY <1>4, <1>6, <2>3
    <3>2. logs'[l].key = KeyOf(loaded_files, target)
      BY <1>5, <2>2, <3>1, AnchoredType
    <3>3. QED
      BY <1>2, <1>3, <2>2, <2>3, <3>1, <3>2
  <2>4. CASE ~ \E f \in fitting : fitting = {f}
    <3>1. target \notin DOMAIN loaded_files
      BY <1>4, <1>6, <2>4
    <3>2. logs'[l].source = "None"
      BY <1>5, <2>2, <3>1, AnchoredType
    <3>3. QED
      BY <1>2, <1>3, <2>2, <2>4, <3>2
  <2>5. QED
    BY <2>3, <2>4
<1>8. ASSUME association_dialog'.log = l, association_dialog'.initial,
             association_dialog.log # l
      PROVE  /\ RecordingsOf(b) = {}
             /\ Ranked(association_dialog'.candidates) = Seen(b)
  <2>1. PICK k \in ReadyLogs :
           association_dialog' =
             [log |-> k, initial |-> TRUE,
              candidates |-> batches[BatchOf(k)].candidates,
              selected |-> Unambiguous(logs[k].content, batches[BatchOf(k)].candidates)]
    BY <1>8, ResolveStep
  <2>2. k = l /\ association_dialog'.candidates = scope
    BY <1>8, <2>1
  <2>3. QED
    BY <1>2, <1>3, <2>1, <2>2
<1>9. QED
  BY <1>7, <1>8 DEF Judged

LEMMA EveryStepJudges ==
    ASSUME Inv, [Next]_vars PROVE \A l \in PendingLogs : Judged(l)
<1> SUFFICES ASSUME NEW l \in PendingLogs PROVE Judged(l)
  OBVIOUS
<1>1. CASE resolve_initial_log_associations
  BY <1>1, ResolveJudges
<1>2. CASE User \/ Background \/ UNCHANGED vars
  <2>1. l \in DOMAIN logs /\ logs[l].source = "Pending"
    BY DEF PendingLogs
  <2>2. ~ (l \in DOMAIN logs' /\ ~Pending(l)' /\ association_dialog.log # l)
    BY <1>2, <2>1, OthersDecideNothing DEF Pending
  <2>3. ~ (/\ association_dialog'.log = l /\ association_dialog'.initial
           /\ association_dialog.log # l)
    BY <1>2, OthersDecideNothing
  <2>4. QED
    BY <2>2, <2>3 DEF Judged
<1>3. QED
  BY <1>1, <1>2 DEF Next

\* A log that is decided without the user has the one recording of its arrival,
\* or of those loaded before, that it ran together with, and none where there is
\* not just one, whatever was loaded, opened, unloaded or renamed meanwhile.
THEOREM LogsAreJudged == Spec => LogsAreJudgedByWhatArrivedWithThem
<1>1. Inv /\ [Next]_vars => [\A l \in PendingLogs : Judged(l)]_vars
  BY EveryStepJudges
<1>2. QED
  BY <1>1, Invariance, PTL DEF Spec, LogsAreJudgedByWhatArrivedWithThem
-----------------------------------------------------------------------------
\* Anchors and renames.

\* The names under which recordings are on their way, loaded and anchored to were
\* given before now, and so was what a rename the window has not applied leads to.
NamesWereGiven ==
    /\ \A op \in operations : op.over <= stored[op.recording]
    /\ \A f \in DOMAIN loaded_files :
          loaded_files[f].name <= stored[loaded_files[f].recording]
    /\ \A x \in renamed : x.old + 1 <= stored[x.recording]
    /\ \A l \in DOMAIN logs : logs[l].key.name # 0 =>
          /\ logs[l].key.recording \in Recordings
          /\ logs[l].key.name <= stored[logs[l].key.recording]

\* No rename takes the name of the key away: the key is of one session, or it has
\* the name its recording has in history, which was renamed once at the most.
Lasting(key) ==
    key.name # 0 => stored[key.recording] = key.name /\ stored[key.recording] <= 2

Placed(log) ==
    /\ log.recording \in DOMAIN loaded_files
    /\ KeyOf(loaded_files, log.recording) = log.key

\* A log is placed on the recording of its key as long as the key lasts.
AnchorsHold ==
    \A l \in DOMAIN logs :
       logs[l].source = "Recording" /\ Lasting(logs[l].key) => Placed(logs[l])

AInv == Inv /\ NamesWereGiven /\ AnchorsHold

LEMMA NamesAreNumbers ==
    ASSUME Inv
    PROVE  /\ \A r \in Recordings : stored[r] \in Nat /\ stored[r] <= 1 + Renames
           /\ \A op \in operations : op.recording \in Recordings /\ op.over \in Nat
           /\ \A f \in DOMAIN loaded_files :
                 /\ loaded_files[f].recording \in Recordings
                 /\ loaded_files[f].name \in Nat
           /\ \A x \in renamed : x.recording \in Recordings /\ x.old \in Nat \ {0}
           /\ \A l \in DOMAIN logs : logs[l] \in LoadedLogs /\ logs[l].key.name \in Nat
<1>1. \A n \in Names : n \in Nat /\ n <= 1 + Renames
  BY BoundAssumption DEF Names
<1>2. /\ stored \in [Recordings -> Names] /\ operations \subseteq Operations
      /\ loaded_files \in [DOMAIN loaded_files -> Files]
      /\ renamed \subseteq [recording : Recordings, old : 1 .. Renames]
      /\ logs \in [DOMAIN logs -> LoadedLogs]
  BY DEF Inv, TypeOK
<1>3. \A r \in Recordings : stored[r] \in Names
  BY <1>2
<1>4. \A op \in operations : op.recording \in Recordings /\ op.over \in Names
  BY <1>2 DEF Operations
<1>5. \A f \in DOMAIN loaded_files : /\ loaded_files[f].recording \in Recordings
                                     /\ loaded_files[f].name \in Names
  BY <1>2 DEF Files
<1>6. \A x \in renamed : x.recording \in Recordings /\ x.old \in Nat \ {0}
  BY <1>2, BoundAssumption
<1>7. \A l \in DOMAIN logs : logs[l] \in LoadedLogs /\ logs[l].key.name \in Names
  BY <1>2 DEF LoadedLogs, RecordingKeys
<1> QED
  BY <1>1, <1>3, <1>4, <1>5, <1>6, <1>7

\* A log whose recording is loaded is placed on it when it is looked up again.
LEMMA LookedUp ==
    ASSUME NEW files, LoadedFiles(files), NEW log \in LoadedLogs, log.source = "Recording",
           NEW g \in DOMAIN files, KeyOf(files, g) = log.key
    PROVE  /\ Reassociated(files, log).recording \in DOMAIN files
           /\ KeyOf(files, Reassociated(files, log).recording) = log.key
           /\ Reassociated(files, log).key = log.key
<1> DEFINE matching == {f \in DOMAIN files : KeyOf(files, f) = log.key}
<1>1. matching \in SUBSET Nat /\ g \in matching
  BY DEF LoadedFiles
<1>2. Min(matching) \in matching
  BY <1>1, MinIsMember
<1>3. LoadedRecording(files, log.key) = Min(matching)
  BY <1>1 DEF LoadedRecording
<1>4. Reassociated(files, log) = [log EXCEPT !.recording = LoadedRecording(files, log.key)]
  BY DEF Reassociated
<1>5. Reassociated(files, log).recording = LoadedRecording(files, log.key)
  BY <1>4 DEF LoadedLogs
<1> QED
  BY <1>2, <1>3, <1>5, ReassociatedType

\* A log that is anchored is placed on its recording, under a name that was given.
LEMMA AnchoredIsPlaced ==
    ASSUME Inv, NamesWereGiven, NEW log \in LoadedLogs, NEW f
    PROVE  /\ Anchored(log, f).source = "Recording" => Placed(Anchored(log, f))
           /\ Anchored(log, f).key.name # 0 =>
                 /\ Anchored(log, f).key.recording \in Recordings
                 /\ Anchored(log, f).key.name \in Nat
                 /\ Anchored(log, f).key.name <= stored[Anchored(log, f).key.recording]
<1>1. LoadedFiles(loaded_files)
  BY LoadedFilesTyped DEF Inv
<1>2. CASE f \in DOMAIN loaded_files
  <2> DEFINE a == [log EXCEPT !.source = "Recording", !.key = KeyOf(loaded_files, f)]
             v == Anchored(log, f)
  <2>1. KeyOf(loaded_files, f) \in RecordingKeys
    BY <1>1, <1>2, KeyType
  <2>2. a \in LoadedLogs /\ a.source = "Recording" /\ a.key = KeyOf(loaded_files, f)
    BY <2>1 DEF LoadedLogs
  <2>3. v = Reassociated(loaded_files, a)
    BY <1>2 DEF Anchored
  <2> HIDE DEF a, v
  <2>4. /\ v.recording \in DOMAIN loaded_files
        /\ KeyOf(loaded_files, v.recording) = v.key /\ v.key = KeyOf(loaded_files, f)
    BY <1>1, <1>2, <2>2, <2>3, LookedUp
  <2>5. v.key.name # 0 =>
           /\ v.key.recording \in Recordings /\ v.key.name \in Nat
           /\ v.key.name <= stored[v.key.recording]
    <3>1. loaded_files[f].recording \in Recordings /\ loaded_files[f].name \in Nat
      BY <1>2, NamesAreNumbers
    <3>2. loaded_files[f].name <= stored[loaded_files[f].recording]
      BY <1>2 DEF NamesWereGiven
    <3> QED
      BY <2>4, <3>1, <3>2 DEF KeyOf
  <2>6. Placed(v)
    BY <2>4 DEF Placed
  <2> QED
    BY <2>5, <2>6 DEF v
<1>3. CASE f \notin DOMAIN loaded_files
  <2>1. Anchored(log, f).source = "None" /\ Anchored(log, f).key = NoKey
    BY <1>3 DEF Anchored, LoadedLogs
  <2> QED
    BY <2>1 DEF NoKey
<1> QED
  BY <1>2, <1>3

\* While recordings stay as they are loaded, logs keep their anchors or take new ones,
\* and names of history only go up.
LEMMA AnchorsStay ==
    ASSUME Inv, NamesWereGiven, AnchorsHold, UNCHANGED loaded_files,
           \A r \in Recordings : stored'[r] \in Nat /\ stored[r] <= stored'[r],
           \A o \in operations' : o.over <= stored'[o.recording],
           \A x \in renamed' : x.old + 1 <= stored'[x.recording],
           \A l \in DOMAIN logs' :
              \/ l \in DOMAIN logs /\ logs'[l] = logs[l]
              \/ \E log \in LoadedLogs : \E f : logs'[l] = Anchored(log, f)
              \/ logs'[l].source = "Pending" /\ logs'[l].key = NoKey
    PROVE  NamesWereGiven' /\ AnchorsHold'
<1>1. \A f \in DOMAIN loaded_files' :
         loaded_files'[f].name <= stored'[loaded_files'[f].recording]
  <2> SUFFICES ASSUME NEW f \in DOMAIN loaded_files
               PROVE  loaded_files[f].name <= stored'[loaded_files[f].recording]
    OBVIOUS
  <2> DEFINE r == loaded_files[f].recording
             n == loaded_files[f].name
  <2>1. /\ r \in Recordings /\ n \in Nat /\ stored[r] \in Nat
        /\ n <= stored[r] /\ stored'[r] \in Nat /\ stored[r] <= stored'[r]
    BY NamesAreNumbers DEF NamesWereGiven
  <2> HIDE DEF r, n
  <2>2. n <= stored'[r]
    BY <2>1
  <2> QED
    BY <2>2 DEF r, n
<1>2. ASSUME NEW l \in DOMAIN logs', NEW v, v = logs'[l]
      PROVE  /\ v.key.name # 0 => /\ v.key.recording \in Recordings
                                 /\ v.key.name <= stored'[v.key.recording]
             /\ v.source = "Recording" /\ Lasting(v.key)' => Placed(v)'
  <2> DEFINE r == v.key.recording
             n == v.key.name
  <2>1. CASE l \in DOMAIN logs /\ v = logs[l]
    <3>1. n # 0 => /\ r \in Recordings /\ n \in Nat /\ stored[r] \in Nat
                   /\ n <= stored[r] /\ stored'[r] \in Nat /\ stored[r] <= stored'[r]
      BY <2>1, NamesAreNumbers DEF NamesWereGiven
    <3>2. v.source = "Recording" /\ Lasting(v.key) => Placed(v)
      BY <2>1 DEF AnchorsHold
    <3>3. Lasting(v.key)' => Lasting(v.key)
      <4>1. Lasting(v.key)' <=>
               (n # 0 => stored'[r] = n /\ stored'[r] <= 2)
        BY DEF Lasting
      <4>2. Lasting(v.key) <=>
               (n # 0 => stored[r] = n /\ stored[r] <= 2)
        BY DEF Lasting
      <4> HIDE DEF r, n
      <4> QED
        BY <3>1, <4>1, <4>2
    <3>4. Placed(v) => Placed(v)'
      BY DEF Placed, KeyOf
    <3> HIDE DEF r, n
    <3>5. n # 0 => r \in Recordings /\ n <= stored'[r]
      BY <3>1
    <3> QED
      BY <3>2, <3>3, <3>4, <3>5 DEF r, n
  <2>2. CASE \E log \in LoadedLogs : \E f : v = Anchored(log, f)
    <3>1. PICK log \in LoadedLogs : \E f : v = Anchored(log, f)
      BY <2>2
    <3>2. PICK f : v = Anchored(log, f)
      BY <3>1
    <3>3. /\ v.source = "Recording" => Placed(v)
          /\ n # 0 => r \in Recordings /\ n \in Nat /\ n <= stored[r]
      BY <3>2, AnchoredIsPlaced
    <3>4. n # 0 => stored[r] \in Nat /\ stored'[r] \in Nat /\ stored[r] <= stored'[r]
      BY <3>3, NamesAreNumbers
    <3>5. Placed(v) => Placed(v)'
      BY DEF Placed, KeyOf
    <3> HIDE DEF r, n
    <3>6. n # 0 => r \in Recordings /\ n <= stored'[r]
      BY <3>3, <3>4
    <3> QED
      BY <3>3, <3>5, <3>6 DEF r, n
  <2>3. CASE v.source = "Pending" /\ v.key = NoKey
    BY <2>3 DEF NoKey
  <2> QED
    BY <1>2, <2>1, <2>2, <2>3
<1>3. \A l \in DOMAIN logs' : logs'[l].key.name # 0 =>
         /\ logs'[l].key.recording \in Recordings
         /\ logs'[l].key.name <= stored'[logs'[l].key.recording]
  BY <1>2
<1>4. AnchorsHold'
  <2> SUFFICES ASSUME NEW l \in DOMAIN logs',
                      (logs[l].source = "Recording" /\ Lasting(logs[l].key))'
               PROVE  Placed(logs[l])'
    BY DEF AnchorsHold
  <2>1. PICK v : v = logs'[l]
    OBVIOUS
  <2>2. v.source = "Recording" /\ Lasting(v.key)'
    BY <2>1 DEF Lasting
  <2>3. Placed(v)'
    BY <1>2, <2>1, <2>2
  <2> QED
    BY <2>1, <2>3 DEF Placed, KeyOf
<1> QED
  BY <1>1, <1>3, <1>4 DEF NamesWereGiven

\* An operation goes on over the name it had, or that its recording has now.
LEMMA OversPass ==
    ASSUME AInv, OnlyOperations,
           \A o \in operations' : \E p \in operations :
              /\ o.recording = p.recording
              /\ o.over \in {0, p.over, stored[p.recording]}
    PROVE  NamesWereGiven' /\ AnchorsHold'
<1>1. Inv /\ NamesWereGiven /\ AnchorsHold /\ UNCHANGED <<loaded_files, stored, logs, renamed>>
  BY DEF AInv, OnlyOperations
<1>2. \A r \in Recordings : stored[r] \in Nat
  BY <1>1, NamesAreNumbers
<1>3. \A p \in operations : /\ p.recording \in Recordings /\ p.over \in Nat
                            /\ p.over <= stored[p.recording]
  BY <1>1, NamesAreNumbers DEF NamesWereGiven
<1>4. \A o \in operations' : o.over <= stored'[o.recording]
  <2> SUFFICES ASSUME NEW o \in operations' PROVE o.over <= stored[o.recording]
    BY <1>1
  <2>1. PICK p \in operations : /\ o.recording = p.recording
                                /\ o.over \in {0, p.over, stored[p.recording]}
    OBVIOUS
  <2>2. stored[p.recording] \in Nat /\ p.over \in Nat /\ p.over <= stored[p.recording]
    BY <1>2, <1>3
  <2> QED
    BY <2>1, <2>2
<1>5. \A x \in renamed' : x.old + 1 <= stored'[x.recording]
  BY <1>1 DEF NamesWereGiven
<1>6. \A r \in Recordings : stored'[r] \in Nat /\ stored[r] <= stored'[r]
  BY <1>1, <1>2
<1>7. \A l \in DOMAIN logs' : l \in DOMAIN logs /\ logs'[l] = logs[l]
  BY <1>1
<1> QED
  BY <1>1, <1>4, <1>5, <1>6, <1>7, AnchorsStay

LEMMA PassAnchors ==
    ASSUME AInv, OnlyOperations, NEW ops \in SUBSET operations, NEW stage \in Stages,
           Pass(ops, stage) \/ operations' = operations \ ops
    PROVE  NamesWereGiven' /\ AnchorsHold'
<1> DEFINE Later(p) == [p EXCEPT !.stage = stage]
<1>1. \A p \in operations : p \in Operations
  BY DEF AInv, Inv, TypeOK
<1>2. \A p \in Operations : Later(p).recording = p.recording /\ Later(p).over = p.over
  BY DEF Operations
<1>3. operations' \subseteq (operations \ ops) \cup {Later(p) : p \in ops}
  BY DEF Pass
<1> HIDE DEF Later
<1>4. \A o \in operations' : o \in operations \/ \E p \in ops : o = Later(p)
  BY <1>3
<1>5. \A o \in operations' : \E p \in operations :
         o.recording = p.recording /\ o.over = p.over
  BY <1>1, <1>2, <1>4
<1> QED
  BY <1>5, OversPass

LEMMA OperationAnchors ==
    ASSUME AInv, NEW op \in operations,
           OpenStored(op) \/ AnswerResegment(op) \/ DropFailed(op)
    PROVE  NamesWereGiven' /\ AnchorsHold'
<1>1. {op} \in SUBSET operations /\ OnlyOperations
  BY DEF OpenStored, AnswerResegment, DropFailed
<1>2. "Resegment" \in Stages /\ "Loading" \in Stages /\ "Failed" \in Stages
  BY DEF Stages
<1>3. \/ Pass({op}, "Resegment") \/ Pass({op}, "Loading") \/ Pass({op}, "Failed")
      \/ operations' = operations \ {op}
  BY DEF OpenStored, AnswerResegment, DropFailed
<1> QED
  BY <1>1, <1>2, <1>3, PassAnchors

LEMMA PromptAnchors ==
    ASSUME AInv, CancelArrivals \/ OpenStoredVersions
    PROVE  NamesWereGiven' /\ AnchorsHold'
<1>1. At("Prompted") \in SUBSET operations /\ "Opening" \in Stages
  BY DEF At, Stages
<1>2. OnlyOperations
  BY DEF CancelArrivals, OpenStoredVersions
<1>3. Pass(At("Prompted"), "Opening") \/ operations' = operations \ At("Prompted")
  BY DEF CancelArrivals, OpenStoredVersions
<1> QED
  BY <1>1, <1>2, <1>3, PassAnchors

LEMMA LoadFromDiskAnchors ==
    ASSUME AInv, LoadFromDisk PROVE NamesWereGiven' /\ AnchorsHold'
<1> DEFINE ops == At("Prompted")
           Left(p) == [p EXCEPT !.stage = "Loading", !.over = 0]
<1>1. ops \in SUBSET operations /\ "Loading" \in Stages /\ OnlyOperations
  BY DEF At, Stages, LoadFromDisk
<1>2. CASE Pass(ops, "Loading")
  BY <1>1, <1>2, PassAnchors
<1>3. CASE operations' = (operations \ ops) \cup {Left(op) : op \in ops}
  <2>1. \A p \in Operations : Left(p).recording = p.recording /\ Left(p).over = 0
    BY DEF Operations
  <2>2. \A p \in operations : p \in Operations
    BY DEF AInv, Inv, TypeOK
  <2> HIDE DEF Left, ops
  <2>3. \A o \in operations' : o \in operations \/ \E p \in ops : o = Left(p)
    BY <1>3
  <2>4. \A o \in operations' : \E p \in operations :
           o.recording = p.recording /\ o.over \in {0, p.over, stored[p.recording]}
    BY <1>1, <2>1, <2>2, <2>3
  <2> QED
    BY <1>1, <2>4, OversPass
<1> QED
  BY <1>2, <1>3 DEF LoadFromDisk

LEMMA ScreenAnchors ==
    ASSUME AInv, NEW b \in 1 .. requests, Screen(b)
    PROVE  NamesWereGiven' /\ AnchorsHold'
<1> DEFINE ops == {op \in At("Screening") : op.request = b}
           Known(p) == [p EXCEPT !.stage = "Prompted", !.over = stored[p.recording]]
           Fresh(p) == [p EXCEPT !.stage = "Loading"]
<1>1. OnlyOperations /\ ops \subseteq operations
  BY DEF Screen, At
<1>2. PICK known \in SUBSET {op \in ops : stored[op.recording] # 0} :
          operations' = (operations \ ops) \cup {Known(op) : op \in known}
                           \cup {Fresh(op) : op \in ops \ known}
  BY DEF Screen
<1>3. \A p \in Operations :
         /\ Known(p).recording = p.recording /\ Known(p).over = stored[p.recording]
         /\ Fresh(p).recording = p.recording /\ Fresh(p).over = p.over
  BY DEF Operations
<1>4. \A p \in operations : p \in Operations
  BY DEF AInv, Inv, TypeOK
<1>5. known \subseteq ops
  OBVIOUS
<1> HIDE DEF Known, Fresh, ops
<1>6. \A o \in operations' : \/ o \in operations
                             \/ \E p \in known : o = Known(p)
                             \/ \E p \in ops : o = Fresh(p)
  BY <1>2
<1>7. \A o \in operations' : \E p \in operations :
         o.recording = p.recording /\ o.over \in {0, p.over, stored[p.recording]}
  BY <1>1, <1>3, <1>4, <1>5, <1>6
<1> QED
  BY <1>1, <1>7, OversPass

\* No operation, rename or recording in history changes.
LEMMA AnchorsOnly ==
    ASSUME AInv, UNCHANGED <<loaded_files, stored, renamed, operations>>,
           \A l \in DOMAIN logs' :
              \/ l \in DOMAIN logs /\ logs'[l] = logs[l]
              \/ \E log \in LoadedLogs : \E f : logs'[l] = Anchored(log, f)
              \/ logs'[l].source = "Pending" /\ logs'[l].key = NoKey
    PROVE  NamesWereGiven' /\ AnchorsHold'
<1>1. Inv /\ NamesWereGiven /\ AnchorsHold
  BY DEF AInv
<1>2. \A r \in Recordings : stored'[r] \in Nat /\ stored[r] <= stored'[r]
  BY <1>1, NamesAreNumbers
<1>3. \A o \in operations' : o.over <= stored'[o.recording]
  BY <1>1 DEF NamesWereGiven
<1>4. \A x \in renamed' : x.old + 1 <= stored'[x.recording]
  BY <1>1 DEF NamesWereGiven
<1> QED
  BY <1>1, <1>2, <1>3, <1>4, AnchorsStay

LEMMA LogAnchors ==
    ASSUME AInv, \/ \E r \in readings : ReadLog(r)
                 \/ \E l \in DOMAIN logs : UnloadLog(l) \/ OpenDialog(l)
                 \/ TogglePolicy \/ DropDialog
    PROVE  NamesWereGiven' /\ AnchorsHold'
<1>1. UNCHANGED <<loaded_files, stored, renamed, operations>>
  BY DEF ReadLog, UnloadLog, OpenDialog, TogglePolicy, DropDialog, OnlyDialog
<1>2. ASSUME NEW l \in DOMAIN logs'
      PROVE  \/ l \in DOMAIN logs /\ logs'[l] = logs[l]
             \/ logs'[l].source = "Pending" /\ logs'[l].key = NoKey
  <2>1. CASE \E r \in readings : ReadLog(r)
    <3>1. PICK r \in readings : ReadLog(r)
      BY <2>1
    <3> DEFINE new == [content |-> r.content, source |-> "Pending", key |-> NoKey,
                       recording |-> 0]
    <3>2. (logs' = logs) \/ (logs' = With(logs, next_log, new))
      BY <3>1 DEF ReadLog
    <3>3. new.source = "Pending" /\ new.key = NoKey
      OBVIOUS
    <3> HIDE DEF new
    <3> QED
      BY <1>2, <3>2, <3>3 DEF With
  <2>2. CASE \E k \in DOMAIN logs : UnloadLog(k)
    BY <1>2, <2>2 DEF UnloadLog, Only
  <2>3. CASE (\E k \in DOMAIN logs : OpenDialog(k)) \/ TogglePolicy \/ DropDialog
    <3>1. logs' = logs
      BY <2>3 DEF OpenDialog, TogglePolicy, DropDialog, OnlyDialog
    <3> QED
      BY <1>2, <3>1
  <2> QED
    BY <2>1, <2>2, <2>3
<1> QED
  BY <1>1, <1>2, AnchorsOnly

LEMMA DecisionAnchors ==
    ASSUME AInv, Confirm \/ Cancel PROVE NamesWereGiven' /\ AnchorsHold'
<1> DEFINE d == association_dialog.log
<1>1. UNCHANGED <<loaded_files, stored, renamed, operations>> /\ d \in DOMAIN logs
  BY DEF Confirm, Cancel, DialogShown
<1>2. logs[d] \in LoadedLogs
  BY <1>1 DEF AInv, Inv, TypeOK
<1>3. PICK v : /\ logs' = [logs EXCEPT ![d] = v]
               /\ v = logs[d] \/ \E target : v = Anchored(logs[d], target)
  <2>1. CASE Confirm
    BY <2>1 DEF Confirm
  <2>2. CASE Cancel
    BY <2>2 DEF Cancel
  <2> QED
    BY <2>1, <2>2
<1> HIDE DEF d
<1>4. \A l \in DOMAIN logs' :
         \/ l \in DOMAIN logs /\ logs'[l] = logs[l]
         \/ \E log \in LoadedLogs : \E f : logs'[l] = Anchored(log, f)
  <2> SUFFICES ASSUME NEW l \in DOMAIN logs'
               PROVE  \/ l \in DOMAIN logs /\ logs'[l] = logs[l]
                      \/ \E log \in LoadedLogs : \E f : logs'[l] = Anchored(log, f)
    OBVIOUS
  <2>1. l \in DOMAIN logs /\ logs'[l] = IF l = d THEN v ELSE logs[l]
    BY <1>3
  <2> QED
    BY <1>2, <1>3, <2>1
<1> QED
  BY <1>1, <1>4, AnchorsOnly

LEMMA ResolveAnchors ==
    ASSUME AInv, resolve_initial_log_associations
    PROVE  NamesWereGiven' /\ AnchorsHold'
<1>1. UNCHANGED <<loaded_files, stored, renamed, operations>>
  BY DEF resolve_initial_log_associations
<1>2. /\ logs' \in [DOMAIN logs -> LoadedLogs]
      /\ \A l \in DOMAIN logs : \/ logs'[l] = logs[l]
                                \/ \E f : logs'[l] = Anchored(logs[l], f)
  BY ResolveStep DEF AInv
<1>3. \A l \in DOMAIN logs : logs[l] \in LoadedLogs
  BY DEF AInv, Inv, TypeOK
<1>4. \A l \in DOMAIN logs' :
         \/ l \in DOMAIN logs /\ logs'[l] = logs[l]
         \/ \E log \in LoadedLogs : \E f : logs'[l] = Anchored(log, f)
  BY <1>2, <1>3
<1> QED
  BY <1>1, <1>4, AnchorsOnly

LEMMA ArriveAnchors ==
    ASSUME AInv, requests < Requests, NEW drop \in Drops[requests + 1],
           Arrive(drop[1], drop[2])
    PROVE  NamesWereGiven' /\ AnchorsHold'
<1> DEFINE new == {[request |-> requests', arrival |-> TRUE, recording |-> r, over |-> 0,
              stage |-> IF history THEN "Screening" ELSE "Loading"] : r \in drop[1]}
<1>1. Inv /\ NamesWereGiven /\ AnchorsHold /\ UNCHANGED <<loaded_files, stored, logs, renamed>>
  BY DEF AInv, Arrive
<1>2. drop[1] \subseteq Recordings
  <2>1. requests + 1 \in 1 .. Requests
    BY <1>1, BoundAssumption DEF Inv, TypeOK
  <2> QED
    BY <2>1, DropAssumption
<1>3. \A o \in new : o.over = 0 /\ o.recording \in Recordings
  BY <1>2
<1>4. operations' = operations \cup new
  BY DEF Arrive
<1> HIDE DEF new
<1>5. \A r \in Recordings : stored[r] \in Nat
  BY <1>1, NamesAreNumbers
<1>6. \A o \in new : o.over <= stored[o.recording]
  BY <1>3, <1>5
<1>7. \A o \in operations' : o.over <= stored'[o.recording]
  BY <1>1, <1>4, <1>6 DEF NamesWereGiven
<1>8. \A x \in renamed' : x.old + 1 <= stored'[x.recording]
  BY <1>1 DEF NamesWereGiven
<1>9. \A r \in Recordings : stored'[r] \in Nat /\ stored[r] <= stored'[r]
  BY <1>1, <1>5
<1>10. \A l \in DOMAIN logs' : l \in DOMAIN logs /\ logs'[l] = logs[l]
  BY <1>1
<1> QED
  BY <1>1, <1>7, <1>8, <1>9, <1>10, AnchorsStay

LEMMA OpenAnchors ==
    ASSUME AInv, NEW r \in Recordings, Open(r)
    PROVE  NamesWereGiven' /\ AnchorsHold'
<1> DEFINE opened == [request |-> requests', arrival |-> FALSE, recording |-> r,
                      over |-> stored[r], stage |-> "Opening"]
<1>1. Inv /\ NamesWereGiven /\ AnchorsHold /\ UNCHANGED <<loaded_files, stored, logs, renamed>>
  BY DEF AInv, Open
<1>2. operations' = operations \cup {opened}
  BY DEF Open
<1>3. opened.recording = r /\ opened.over = stored[r]
  OBVIOUS
<1> HIDE DEF opened
<1>4. \A q \in Recordings : stored'[q] \in Nat /\ stored[q] <= stored'[q]
  BY <1>1, NamesAreNumbers
<1>5. opened.over <= stored[opened.recording]
  BY <1>1, <1>3, <1>4
<1>6. \A o \in operations' : o.over <= stored'[o.recording]
  BY <1>1, <1>2, <1>5 DEF NamesWereGiven
<1>7. \A x \in renamed' : x.old + 1 <= stored'[x.recording]
  BY <1>1 DEF NamesWereGiven
<1>8. \A l \in DOMAIN logs' : l \in DOMAIN logs /\ logs'[l] = logs[l]
  BY <1>1
<1> QED
  BY <1>1, <1>4, <1>6, <1>7, <1>8, AnchorsStay

\* Where names go up, what was given before stays so.
LEMMA NamesGoUp ==
    ASSUME Inv, NamesWereGiven,
           \A r \in Recordings : stored'[r] \in Nat /\ stored[r] <= stored'[r]
    PROVE  /\ \A o \in operations : o.over <= stored'[o.recording]
           /\ \A x \in renamed : x.old + 1 <= stored'[x.recording]
<1>1. ASSUME NEW o \in operations PROVE o.over <= stored'[o.recording]
  <2> DEFINE q == o.recording
             n == o.over
  <2>1. /\ n \in Nat /\ stored[q] \in Nat /\ stored'[q] \in Nat
        /\ n <= stored[q] /\ stored[q] <= stored'[q]
    BY <1>1, NamesAreNumbers DEF NamesWereGiven
  <2> HIDE DEF q, n
  <2>2. n <= stored'[q]
    BY <2>1
  <2> QED
    BY <2>2 DEF q, n
<1>2. ASSUME NEW x \in renamed PROVE x.old + 1 <= stored'[x.recording]
  <2> DEFINE q == x.recording
             n == x.old
  <2>1. /\ n \in Nat /\ stored[q] \in Nat /\ stored'[q] \in Nat
        /\ n + 1 <= stored[q] /\ stored[q] <= stored'[q]
    BY <1>2, NamesAreNumbers DEF NamesWereGiven
  <2> HIDE DEF q, n
  <2>2. n + 1 <= stored'[q]
    BY <2>1
  <2> QED
    BY <2>2 DEF q, n
<1> QED
  BY <1>1, <1>2

LEMMA LoadAnchors ==
    ASSUME AInv, NEW op \in operations, Load(op)
    PROVE  NamesWereGiven' /\ AnchorsHold'
<1> DEFINE q == op.recording
           name == IF stored[q] = 0 THEN 1 ELSE stored[q]
<1>1. Inv /\ NamesWereGiven /\ AnchorsHold /\ UNCHANGED <<loaded_files, logs, renamed>>
  BY DEF AInv, Load
<1>2. /\ op \in Operations /\ q \in Recordings /\ stored[q] \in Nat
      /\ \A r \in Recordings : stored[r] \in Nat
      /\ stored \in [Recordings -> Names]
  BY <1>1, NamesAreNumbers DEF Inv, TypeOK
<1>3. \A l \in DOMAIN logs' : l \in DOMAIN logs /\ logs'[l] = logs[l]
  BY <1>1
<1>4. CASE \E stage \in {"Loaded", "Failed"} : Pass({op}, stage) /\ UNCHANGED stored
  <2>1. PICK stage \in {"Loaded", "Failed"} : Pass({op}, stage) /\ UNCHANGED stored
    BY <1>4
  <2> DEFINE later == [op EXCEPT !.stage = stage]
  <2>2. later.recording = q /\ later.over = op.over
    BY <1>2 DEF Operations
  <2>3. operations' = (operations \ {op}) \cup {later}
    BY <2>1 DEF Pass
  <2> HIDE DEF later
  <2>4. \A o \in operations' : o.over <= stored'[o.recording]
    BY <1>1, <2>1, <2>2, <2>3 DEF NamesWereGiven
  <2>5. \A r \in Recordings : stored'[r] \in Nat /\ stored[r] <= stored'[r]
    BY <1>2, <2>1
  <2>6. \A x \in renamed' : x.old + 1 <= stored'[x.recording]
    BY <1>1, <2>1 DEF NamesWereGiven
  <2> QED
    BY <1>1, <1>3, <2>4, <2>5, <2>6, AnchorsStay
<1>5. CASE /\ stored' = [stored EXCEPT ![q] = name]
           /\ operations' = (operations \ {op}) \cup
                  {[op EXCEPT !.stage = "Loaded", !.over = name]}
  <2> DEFINE later == [op EXCEPT !.stage = "Loaded", !.over = name]
  <2>1. later.recording = q /\ later.over = name
    BY <1>2 DEF Operations
  <2>2. operations' = (operations \ {op}) \cup {later}
    BY <1>5
  <2>3. stored'[q] = name /\ \A r \in Recordings : r # q => stored'[r] = stored[r]
    BY <1>2, <1>5
  <2>4. name \in Nat /\ stored[q] <= name
    BY <1>2
  <2> HIDE DEF later, name
  <2>5. \A r \in Recordings : stored'[r] \in Nat /\ stored[r] <= stored'[r]
    BY <1>2, <2>3, <2>4
  <2>6. later.over <= stored'[later.recording]
    BY <2>1, <2>3, <2>4
  <2>7. /\ \A o \in operations : o.over <= stored'[o.recording]
        /\ \A x \in renamed : x.old + 1 <= stored'[x.recording]
    BY <1>1, <2>5, NamesGoUp
  <2>8. \A o \in operations' : o.over <= stored'[o.recording]
    BY <2>2, <2>6, <2>7
  <2>9. \A x \in renamed' : x.old + 1 <= stored'[x.recording]
    BY <1>1, <2>7
  <2> QED
    BY <1>1, <1>3, <2>5, <2>8, <2>9, AnchorsStay
<1> QED
  BY <1>4, <1>5 DEF Load

LEMMA RenameStoredAnchors ==
    ASSUME AInv, NEW r \in Recordings, RenameStored(r)
    PROVE  NamesWereGiven' /\ AnchorsHold'
<1> DEFINE new == [recording |-> r, old |-> stored[r]]
<1>1. Inv /\ NamesWereGiven /\ AnchorsHold /\ UNCHANGED <<loaded_files, logs, operations>>
  BY DEF AInv, RenameStored
<1>2. /\ stored \in [Recordings -> Names] /\ stored[r] \in Nat
      /\ \A q \in Recordings : stored[q] \in Nat
  BY <1>1, NamesAreNumbers DEF Inv, TypeOK
<1>3. stored' = [stored EXCEPT ![r] = stored[r] + 1] /\ renamed' = renamed \cup {new}
  BY DEF RenameStored
<1>4. stored'[r] = stored[r] + 1 /\ \A q \in Recordings : q # r => stored'[q] = stored[q]
  BY <1>2, <1>3
<1>5. new.recording = r /\ new.old = stored[r]
  OBVIOUS
<1> HIDE DEF new
<1>6. \A q \in Recordings : stored'[q] \in Nat /\ stored[q] <= stored'[q]
  BY <1>2, <1>4
<1>7. /\ \A o \in operations : o.over <= stored'[o.recording]
      /\ \A x \in renamed : x.old + 1 <= stored'[x.recording]
  BY <1>1, <1>6, NamesGoUp
<1>8. new.old + 1 <= stored'[new.recording]
  BY <1>2, <1>4, <1>5
<1>9. \A o \in operations' : o.over <= stored'[o.recording]
  BY <1>1, <1>7
<1>10. \A x \in renamed' : x.old + 1 <= stored'[x.recording]
  BY <1>3, <1>7, <1>8
<1>11. \A l \in DOMAIN logs' : l \in DOMAIN logs /\ logs'[l] = logs[l]
  BY <1>1
<1> QED
  BY <1>1, <1>6, <1>9, <1>10, <1>11, AnchorsStay

\* The loaded recordings change, and every log that was placed still is.
LEMMA FilesMove ==
    ASSUME AInv, UNCHANGED stored,
           operations' \subseteq operations, renamed' \subseteq renamed,
           \A f \in DOMAIN loaded_files' :
              loaded_files'[f].name <= stored[loaded_files'[f].recording],
           \A l \in DOMAIN logs' :
              /\ l \in DOMAIN logs
              /\ logs'[l].key = logs[l].key /\ logs'[l].source = logs[l].source
              /\ logs[l].source = "Recording" /\ Placed(logs[l]) /\ Lasting(logs[l].key) =>
                    /\ logs'[l].recording \in DOMAIN loaded_files'
                    /\ KeyOf(loaded_files', logs'[l].recording) = logs[l].key
    PROVE  NamesWereGiven' /\ AnchorsHold'
<1>1. Inv /\ NamesWereGiven /\ AnchorsHold
  BY DEF AInv
<1>2. /\ \A o \in operations' : o.over <= stored'[o.recording]
      /\ \A x \in renamed' : x.old + 1 <= stored'[x.recording]
  BY <1>1 DEF NamesWereGiven
<1>3. \A f \in DOMAIN loaded_files' :
         loaded_files'[f].name <= stored'[loaded_files'[f].recording]
  OBVIOUS
<1>4. \A l \in DOMAIN logs' : logs'[l].key.name # 0 =>
         /\ logs'[l].key.recording \in Recordings
         /\ logs'[l].key.name <= stored'[logs'[l].key.recording]
  BY <1>1 DEF NamesWereGiven
<1>5. NamesWereGiven'
  BY <1>2, <1>3, <1>4 DEF NamesWereGiven
<1>6. AnchorsHold'
  <2> SUFFICES ASSUME NEW l \in DOMAIN logs',
                      (logs[l].source = "Recording" /\ Lasting(logs[l].key))'
               PROVE  Placed(logs[l])'
    BY DEF AnchorsHold
  <2>1. /\ l \in DOMAIN logs
        /\ logs'[l].key = logs[l].key /\ logs'[l].source = logs[l].source
    OBVIOUS
  <2>2. logs[l].source = "Recording" /\ Lasting(logs[l].key)
    BY <2>1 DEF Lasting
  <2>3. Placed(logs[l])
    BY <1>1, <2>1, <2>2 DEF AnchorsHold
  <2>4. /\ logs'[l].recording \in DOMAIN loaded_files'
        /\ KeyOf(loaded_files', logs'[l].recording) = logs'[l].key
    BY <2>1, <2>2, <2>3
  <2> QED
    BY <2>4 DEF Placed, KeyOf
<1> QED
  BY <1>5, <1>6

LEMMA AddLoadedAnchors ==
    ASSUME AInv, NEW op \in operations, AddLoaded(op)
    PROVE  NamesWereGiven' /\ AnchorsHold'
<1> DEFINE entry == [recording |-> op.recording, identity |-> 1, name |-> op.over,
                     request |-> IF op.arrival THEN op.request ELSE 0]
<1>1. Inv /\ NamesWereGiven /\ Inv'
  BY AddLoadedInv DEF AInv
<1>2. UNCHANGED <<stored, renamed>> /\ operations' \subseteq operations
  BY DEF AddLoaded
<1>3. loaded_files' = With(loaded_files, next_file, entry)
  BY DEF AddLoaded
<1>4. entry.recording = op.recording /\ entry.name = op.over
  OBVIOUS
<1> HIDE DEF entry
<1>5. /\ DOMAIN loaded_files' = DOMAIN loaded_files \cup {next_file}
      /\ next_file \notin DOMAIN loaded_files
      /\ loaded_files'[next_file] = entry
      /\ \A f \in DOMAIN loaded_files : loaded_files'[f] = loaded_files[f]
  <2>1. next_file \notin DOMAIN loaded_files
    BY <1>1 DEF Inv, TypeOK
  <2> QED
    BY <1>3, <2>1 DEF With
<1>6. \A f \in DOMAIN loaded_files' :
         loaded_files'[f].name <= stored[loaded_files'[f].recording]
  BY <1>1, <1>4, <1>5 DEF NamesWereGiven
<1>7. LoadedFiles(loaded_files')
  <2>1. TypeOK'
    BY <1>1 DEF Inv
  <2> QED
    BY <2>1 DEF TypeOK, LoadedFiles
<1>8. logs' = ReassociateAll(loaded_files', logs)
  BY DEF AddLoaded
<1>9. ASSUME NEW l \in DOMAIN logs'
      PROVE  /\ l \in DOMAIN logs
             /\ logs'[l].key = logs[l].key /\ logs'[l].source = logs[l].source
             /\ logs[l].source = "Recording" /\ Placed(logs[l]) =>
                   /\ logs'[l].recording \in DOMAIN loaded_files'
                   /\ KeyOf(loaded_files', logs'[l].recording) = logs[l].key
  <2>1. l \in DOMAIN logs /\ logs'[l] = Reassociated(loaded_files', logs[l])
    BY <1>8 DEF ReassociateAll
  <2>2. logs[l] \in LoadedLogs
    BY <1>1, <2>1, NamesAreNumbers
  <2>3. logs'[l].key = logs[l].key /\ logs'[l].source = logs[l].source
    BY <1>7, <2>1, <2>2, ReassociatedType
  <2>4. ASSUME logs[l].source = "Recording", Placed(logs[l])
        PROVE  /\ logs'[l].recording \in DOMAIN loaded_files'
               /\ KeyOf(loaded_files', logs'[l].recording) = logs[l].key
    <3>1. PICK g \in DOMAIN loaded_files : KeyOf(loaded_files, g) = logs[l].key
      BY <2>4 DEF Placed
    <3>2. g \in DOMAIN loaded_files' /\ KeyOf(loaded_files', g) = logs[l].key
      BY <1>5, <3>1 DEF KeyOf
    <3> QED
      BY <1>7, <2>1, <2>2, <2>4, <3>2, LookedUp
  <2> QED
    BY <2>1, <2>3, <2>4
<1> QED
  BY <1>2, <1>6, <1>9, FilesMove

LEMMA UnloadRecordingAnchors ==
    ASSUME AInv, NEW f \in DOMAIN loaded_files, UnloadRecording(f)
    PROVE  NamesWereGiven' /\ AnchorsHold'
<1> DEFINE held == Only(logs, {l \in DOMAIN logs : logs[l].key # KeyOf(loaded_files, f)})
<1>1. Inv /\ NamesWereGiven /\ Inv'
  BY UnloadRecordingInv DEF AInv
<1>2. UNCHANGED <<stored, renamed, operations>>
  BY DEF UnloadRecording
<1>3. /\ DOMAIN loaded_files' = DOMAIN loaded_files \ {f}
      /\ \A g \in DOMAIN loaded_files' : loaded_files'[g] = loaded_files[g]
  BY DEF UnloadRecording, Only
<1>4. \A g \in DOMAIN loaded_files' :
         loaded_files'[g].name <= stored[loaded_files'[g].recording]
  BY <1>1, <1>3 DEF NamesWereGiven
<1>5. LoadedFiles(loaded_files')
  <2>1. TypeOK'
    BY <1>1 DEF Inv
  <2> QED
    BY <2>1 DEF TypeOK, LoadedFiles
<1>6. logs' = ReassociateAll(loaded_files', held)
  BY DEF UnloadRecording
<1>7. \A l \in DOMAIN held : /\ l \in DOMAIN logs /\ held[l] = logs[l]
                             /\ logs[l].key # KeyOf(loaded_files, f)
  BY DEF Only
<1> HIDE DEF held
<1>8. ASSUME NEW l \in DOMAIN logs'
      PROVE  /\ l \in DOMAIN logs
             /\ logs'[l].key = logs[l].key /\ logs'[l].source = logs[l].source
             /\ logs[l].source = "Recording" /\ Placed(logs[l]) =>
                   /\ logs'[l].recording \in DOMAIN loaded_files'
                   /\ KeyOf(loaded_files', logs'[l].recording) = logs[l].key
  <2>1. /\ l \in DOMAIN logs /\ logs'[l] = Reassociated(loaded_files', logs[l])
        /\ logs[l].key # KeyOf(loaded_files, f)
    BY <1>6, <1>7 DEF ReassociateAll
  <2>2. logs[l] \in LoadedLogs
    BY <1>1, <2>1, NamesAreNumbers
  <2>3. logs'[l].key = logs[l].key /\ logs'[l].source = logs[l].source
    BY <1>5, <2>1, <2>2, ReassociatedType
  <2>4. ASSUME logs[l].source = "Recording", Placed(logs[l])
        PROVE  /\ logs'[l].recording \in DOMAIN loaded_files'
               /\ KeyOf(loaded_files', logs'[l].recording) = logs[l].key
    <3>1. PICK g \in DOMAIN loaded_files : KeyOf(loaded_files, g) = logs[l].key
      BY <2>4 DEF Placed
    <3>2. g \in DOMAIN loaded_files' /\ KeyOf(loaded_files', g) = logs[l].key
      BY <1>3, <2>1, <3>1 DEF KeyOf
    <3> QED
      BY <1>5, <2>1, <2>2, <2>4, <3>2, LookedUp
  <2> QED
    BY <2>1, <2>3, <2>4
<1> QED
  BY <1>2, <1>4, <1>8, FilesMove

\* A recording moves to the name its rename led to: the name it has in history, if
\* it was renamed once.
LEMMA ApplyRenameAnchors ==
    ASSUME AInv, NEW x \in renamed, ApplyRename(x)
    PROVE  NamesWereGiven' /\ AnchorsHold'
<1> DEFINE moves(f) == /\ loaded_files[f].recording = x.recording
                       /\ loaded_files[f].identity = x.old
<1>1. Inv /\ NamesWereGiven
  BY DEF AInv
<1>2. UNCHANGED <<stored, operations, logs>> /\ renamed' \subseteq renamed
  BY DEF ApplyRename
<1>3. /\ DOMAIN loaded_files' = DOMAIN loaded_files
      /\ \A f \in DOMAIN loaded_files :
            loaded_files'[f] =
               IF moves(f)
               THEN [loaded_files[f] EXCEPT !.identity = x.old + 1,
                                            !.name = IF @ = 0 THEN 0 ELSE x.old + 1]
               ELSE loaded_files[f]
  BY DEF ApplyRename
<1>4. /\ x.recording \in Recordings /\ x.old \in Nat \ {0}
      /\ x.old + 1 <= stored[x.recording]
      /\ stored[x.recording] \in Nat /\ stored[x.recording] <= 1 + Renames
  BY <1>1, NamesAreNumbers DEF NamesWereGiven
<1>5. \A f \in DOMAIN loaded_files :
         /\ loaded_files'[f].recording = loaded_files[f].recording
         /\ loaded_files'[f].name = IF moves(f) /\ loaded_files[f].name # 0
                                    THEN x.old + 1 ELSE loaded_files[f].name
  <2>1. \A f \in DOMAIN loaded_files : loaded_files[f] \in Files
    BY <1>1 DEF Inv, TypeOK
  <2> QED
    BY <1>3, <2>1 DEF Files
<1>6. ASSUME NEW f \in DOMAIN loaded_files'
      PROVE  loaded_files'[f].name <= stored[loaded_files'[f].recording]
  <2>1. f \in DOMAIN loaded_files
    BY <1>3
  <2>2. CASE moves(f) /\ loaded_files[f].name # 0
    BY <1>4, <1>5, <2>1, <2>2
  <2>3. CASE ~ (moves(f) /\ loaded_files[f].name # 0)
    <3>1. loaded_files[f].name <= stored[loaded_files[f].recording]
      BY <1>1, <2>1 DEF NamesWereGiven
    <3> QED
      BY <1>5, <2>1, <2>3, <3>1
  <2> QED
    BY <2>2, <2>3
<1>7. ASSUME NEW l \in DOMAIN logs', Placed(logs[l]), Lasting(logs[l].key)
      PROVE  KeyOf(loaded_files', logs[l].recording) = logs[l].key
  <2> DEFINE g == logs[l].recording
             n == loaded_files[g].name
  <2>1. /\ g \in DOMAIN loaded_files /\ KeyOf(loaded_files, g) = logs[l].key
    BY <1>7 DEF Placed
  <2>2. CASE ~ (moves(g) /\ n # 0)
    BY <1>5, <2>1, <2>2 DEF KeyOf
  <2>3. CASE moves(g) /\ n # 0
    <3>1. logs[l].key.name = n /\ logs[l].key.recording = x.recording
      BY <2>1, <2>3 DEF KeyOf
    <3>2. stored[x.recording] = n /\ n <= 2
      BY <1>7, <2>3, <3>1 DEF Lasting
    <3> DEFINE o == x.old
    <3>3. o \in Nat \ {0} /\ o + 1 <= n /\ n \in Nat
      BY <1>4, <3>2
    <3> HIDE DEF n, o
    <3>4. n = o + 1
      BY <3>2, <3>3
    <3> QED
      BY <1>5, <2>1, <2>3, <3>4 DEF KeyOf, n, o
  <2> QED
    BY <2>2, <2>3
<1>8. \A l \in DOMAIN logs' :
         /\ l \in DOMAIN logs
         /\ logs'[l].key = logs[l].key /\ logs'[l].source = logs[l].source
         /\ logs[l].source = "Recording" /\ Placed(logs[l]) /\ Lasting(logs[l].key) =>
               /\ logs'[l].recording \in DOMAIN loaded_files'
               /\ KeyOf(loaded_files', logs'[l].recording) = logs[l].key
  BY <1>2, <1>3, <1>7 DEF Placed
<1> QED
  BY <1>2, <1>6, <1>8, FilesMove

LEMMA InitAnchors == Init => NamesWereGiven /\ AnchorsHold
<1>1. Init => /\ operations = {} /\ renamed = {}
              /\ DOMAIN loaded_files = {} /\ DOMAIN logs = {}
  BY DEF Init
<1> QED
  BY <1>1 DEF NamesWereGiven, AnchorsHold

LEMMA NextAnchors ==
    ASSUME AInv, [Next]_vars PROVE NamesWereGiven' /\ AnchorsHold'
<1> DEFINE Goal == NamesWereGiven' /\ AnchorsHold'
<1>1. CASE UNCHANGED vars
  <2>1. /\ UNCHANGED <<loaded_files, stored, renamed, operations>>
        /\ \A l \in DOMAIN logs' : l \in DOMAIN logs /\ logs'[l] = logs[l]
    BY <1>1 DEF vars
  <2> QED
    BY <2>1, AnchorsOnly
<1>2. CASE User
  <2>1. ASSUME requests < Requests,
               \E drop \in Drops[requests + 1] : Arrive(drop[1], drop[2])
        PROVE  Goal
    BY <2>1, ArriveAnchors
  <2>2. ASSUME NEW r \in Recordings, Open(r) \/ RenameStored(r) PROVE Goal
    BY <2>2, OpenAnchors, RenameStoredAnchors
  <2>3. CASE CancelArrivals \/ OpenStoredVersions \/ LoadFromDisk
    BY <2>3, PromptAnchors, LoadFromDiskAnchors
  <2>4. ASSUME NEW op \in operations, AnswerResegment(op) PROVE Goal
    BY <2>4, OperationAnchors
  <2>5. ASSUME NEW l \in DOMAIN logs, UnloadLog(l) \/ OpenDialog(l) PROVE Goal
    BY <2>5, LogAnchors
  <2>6. ASSUME NEW f \in DOMAIN loaded_files, UnloadRecording(f) PROVE Goal
    BY <2>6, UnloadRecordingAnchors
  <2>7. CASE TogglePolicy \/ Confirm \/ Cancel
    BY <2>7, LogAnchors, DecisionAnchors
  <2> QED
    BY <1>2, <2>1, <2>2, <2>3, <2>4, <2>5, <2>6, <2>7 DEF User
<1>3. CASE Background
  <2>1. ASSUME NEW b \in 1 .. requests, Screen(b) PROVE Goal
    BY <2>1, ScreenAnchors
  <2>2. ASSUME NEW op \in operations,
               OpenStored(op) \/ Load(op) \/ AddLoaded(op) \/ DropFailed(op)
        PROVE  Goal
    BY <2>2, OperationAnchors, LoadAnchors, AddLoadedAnchors
  <2>3. ASSUME NEW r \in readings, ReadLog(r) PROVE Goal
    BY <2>3, LogAnchors
  <2>4. ASSUME NEW x \in renamed, ApplyRename(x) PROVE Goal
    BY <2>4, ApplyRenameAnchors
  <2>5. CASE DropDialog
    BY <2>5, LogAnchors
  <2> QED
    BY <1>3, <2>1, <2>2, <2>3, <2>4, <2>5 DEF Background
<1>4. CASE resolve_initial_log_associations
  BY <1>4, ResolveAnchors
<1> QED
  BY <1>1, <1>2, <1>3, <1>4 DEF Next

\* However often recordings are renamed, a log that is anchored has its recording
\* loaded and is placed on it, as long as the name it is anchored under is the one in
\* history and the recording was renamed once at the most (LoadedLog::reassociate,
\* unload_logs_and_forget_attachments_of).
THEOREM AnchorsLast == Spec => []AnchorsHold
<1>1. Init => AInv
  BY InitInv, InitAnchors DEF AInv
<1>2. AInv /\ [Next]_vars => AInv'
  <2>1. AInv /\ [Next]_vars => Inv'
    BY NextInv DEF AInv
  <2>2. AInv /\ [Next]_vars => NamesWereGiven' /\ AnchorsHold'
    BY NextAnchors
  <2> QED
    BY <2>1, <2>2 DEF AInv
<1>3. AInv => AnchorsHold
  BY DEF AInv
<1> QED
  BY <1>1, <1>2, <1>3, PTL DEF Spec

\* Where an identity is renamed once at the most, an anchor is lost only by the rename
\* (LoadedLog::reassociate, unload_logs_and_forget_attachments_of).
THEOREM OnlyRenamesLose ==
    ASSUME Renames <= 1 PROVE Spec => []OnlyRenamesLoseAnchors
<1>1. Inv /\ AnchorsHold => OnlyRenamesLoseAnchors
  <2> SUFFICES ASSUME Inv, AnchorsHold, NEW l \in DOMAIN logs,
                      logs[l].source = "Recording", ~ Placed(logs[l])
               PROVE  /\ logs[l].key.name # 0
                      /\ stored[logs[l].key.recording] # logs[l].key.name
    BY DEF OnlyRenamesLoseAnchors, Placed
  <2> DEFINE n == logs[l].key.name
  <2>1. ~ Lasting(logs[l].key)
    BY DEF AnchorsHold
  <2>2. n # 0 /\ (stored[logs[l].key.recording] = n => ~ (n <= 2))
    BY <2>1 DEF Lasting
  <2>3. n \in Names
    BY DEF Inv, TypeOK, LoadedLogs, RecordingKeys
  <2> HIDE DEF n
  <2>4. n <= 2
    BY <2>3, BoundAssumption DEF Names
  <2> QED
    BY <2>2, <2>4 DEF n
<1> QED
  BY <1>1, Invariance, AnchorsLast, PTL
=============================================================================
