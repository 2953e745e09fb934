-------------------------- MODULE TrackValuesProofs --------------------------
(***************************************************************************)
(* What is drawn of the archives, for any tracks, spans, days, positions   *)
(* and revisions: no deviation of an earlier revision once the later one   *)
(* is reported, and nothing of a day once its delete is reported, but for  *)
(* the days that are crossed and the positions that changed hands.         *)
(***************************************************************************)
EXTENDS TrackValues, TLAPS

Typed ==
    /\ archive \in [Days -> Nat]
    /\ samples \in [Days -> Nat \cup {Unread}]
    /\ archived_days \subseteq Days /\ reports \subseteq Days
    /\ deleted \subseteq Days
    /\ phase \in {"Reports", "Deletes", "Draw"}
    /\ stores \in 0 .. (Revisions - 1)
    /\ phase = "Reports" => landed = {}

\* A day of the file is in the index, or is to be, or was crossed.
IndexStands == \A d \in Days : archive[d] # 0 /\ d \notin archived_days => d \in reports \cup crossed

\* What was read of a day is outdated only while a report of the day is
\* outstanding.
SamplesStand ==
    \A d \in Days :
        /\ samples[d] \in {Unread, archive[d]} \/ d \in reports \cup deleted
        /\ samples[d] \notin {Unread, 0} => archive[d] # 0 \/ d \in deleted
        /\ samples[d] \notin {Unread, 0} /\ d \notin archived_days
              => d \in reports \cup crossed

\* An entry whose position did not change hands is of the track drawn there.  It
\* lacks a day of the index only from the report of its store to the next draw, and
\* has more than the index only of days that are about to be reported.  What it has
\* of a day it is filed under is of the file, or of a delete to be reported.
CacheStands(cache, spans) ==
    \A p \in DOMAIN cache \ moved :
        /\ p \in DOMAIN entries /\ cache[p].of = entries[p]
        /\ \A d \in Days :
              /\ cache[p].read[d] # 0 => d \in spans[entries[p]]
              /\ (/\ d \in spans[entries[p]]
                  /\ d \in archived_days \ cache[p].days) => d \in landed
              /\ (/\ cache[p].read[d] # 0
                  /\ d \notin cache[p].days \cup archived_days)
                    => d \in reports \cup crossed
              /\ cache[p].read[d] # 0 /\ d \in cache[p].days
                    => archive[d] # 0 \/ d \in deleted

\* A peak, in addition, is of the revision the file holds.
PeaksFollow ==
    \A p \in DOMAIN peaks \ moved : \A d \in Days \cap Windows[entries[p]] :
        \/ peaks[p].read[d] = archive[d]
        \/ d \in reports \cup deleted \cup crossed
        \/ d \in archived_days \ peaks[p].days

Inv ==
    /\ Typed /\ IndexStands /\ SamplesStand
    /\ CacheStands(points, Spans) /\ CacheStands(peaks, Windows) /\ PeaksFollow

LEMMA InitInv == Init => Inv
<1> SUFFICES ASSUME Init PROVE Inv
  OBVIOUS
<1>1. Typed
  BY RevisionsAssumption DEF Init, Typed, Unread
<1>2. IndexStands /\ SamplesStand
  BY DEF Init, IndexStands, SamplesStand
<1>3. DOMAIN points = {} /\ DOMAIN peaks = {}
  BY DEF Init, NoEntries
<1> QED
  BY <1>1, <1>2, <1>3 DEF Inv, CacheStands, PeaksFollow

\* What a step that neither polls nor draws does with the history.
LEMMA Remembers ==
    ASSUME Inv, Remember, phase' = phase
    PROVE  /\ landed' = landed
           /\ crossed' = crossed \cup {d \in deleted \ deleted' :
                             d \in landed \/ (archive[d] # 0 /\ d \notin reports)}
           /\ moved \subseteq moved'
           /\ entries' = entries \/ ChangedHands \subseteq moved'
<1>1. landed' = landed
  BY DEF Remember, Inv, Typed
<1>2. crossed \ landed = crossed \/ phase # "Reports"
  BY DEF Inv, Typed
<1>3. /\ moved \subseteq moved'
      /\ entries' = entries \/ ChangedHands \subseteq moved'
  BY DEF Remember
<1> QED
  BY <1>1, <1>2, <1>3 DEF Remember

LEMMA ChangeEntriesInv == ASSUME Inv, ChangeEntries, Remember PROVE Inv'
<1>1. UNCHANGED <<archive, archived_days, reports, deleted, points, peaks, samples,
                  phase, stores>>
  BY DEF ChangeEntries
<1>2. /\ landed' = landed
      /\ moved \subseteq moved' /\ (entries' = entries \/ ChangedHands \subseteq moved')
  BY <1>1, Remembers
<1>3. landed' = landed /\ crossed' = crossed
  BY <1>1, <1>2, Remembers
<1>4. \A p \in (DOMAIN points \cup DOMAIN peaks) \ moved' :
         /\ p \notin moved
         /\ p \in DOMAIN entries => p \in DOMAIN entries' /\ entries'[p] = entries[p]
  BY <1>2 DEF ChangedHands
<1>5. Typed' /\ IndexStands' /\ SamplesStand'
  BY <1>1, <1>3 DEF Inv, Typed, IndexStands, SamplesStand
<1>6. CacheStands(points, Spans)'
  BY <1>1, <1>3, <1>4 DEF Inv, CacheStands
<1>7. CacheStands(peaks, Windows)'
  BY <1>1, <1>3, <1>4 DEF Inv, CacheStands
<1>8. PeaksFollow'
  BY <1>1, <1>3, <1>4 DEF Inv, CacheStands, PeaksFollow
<1> QED
  BY <1>5, <1>6, <1>7, <1>8 DEF Inv

LEMMA StoreInv == ASSUME Inv, NEW d \in Days, Store(d), Remember PROVE Inv'
<1>1. /\ UNCHANGED <<entries, archived_days, deleted, points, peaks, samples, phase>>
      /\ reports' = reports \cup {d} /\ stores > 0 /\ stores' = stores - 1
      /\ archive' = [archive EXCEPT ![d] = Revisions - stores + 1]
  BY DEF Store
<1>2. landed' = landed /\ crossed' = crossed /\ moved \subseteq moved'
  BY <1>1, Remembers
<1>3. /\ archive' \in [Days -> Nat] /\ archive'[d] # 0
      /\ \A e \in Days : e # d => archive'[e] = archive[e]
  BY <1>1, RevisionsAssumption DEF Inv, Typed
<1>4. Typed'
  BY <1>1, <1>2, <1>3, RevisionsAssumption DEF Inv, Typed
<1>5. IndexStands'
  BY <1>1, <1>2, <1>3 DEF Inv, IndexStands
<1>6. SamplesStand'
  BY <1>1, <1>2, <1>3 DEF Inv, SamplesStand
<1>7. CacheStands(points, Spans)'
  BY <1>1, <1>2, <1>3 DEF Inv, CacheStands
<1>8. CacheStands(peaks, Windows)'
  BY <1>1, <1>2, <1>3 DEF Inv, CacheStands
<1>9. PeaksFollow'
  BY <1>1, <1>2, <1>3 DEF Inv, PeaksFollow
<1> QED
  BY <1>4, <1>5, <1>6, <1>7, <1>8, <1>9 DEF Inv

LEMMA DeleteInv ==
    ASSUME Inv, NEW pruned \in PrunedDays, Delete(pruned), Remember PROVE Inv'
<1>1. /\ UNCHANGED <<entries, archived_days, reports, points, peaks, samples, phase,
                     stores>>
      /\ deleted = {} /\ deleted' = pruned
      /\ archive' = [d \in Days |-> IF d \in pruned THEN 0 ELSE archive[d]]
  BY DEF Delete
<1>2. landed' = landed /\ crossed' = crossed /\ moved \subseteq moved'
  BY <1>1, Remembers
<1>3. pruned \subseteq Days
  BY LastDayAssumption DEF PrunedDays, Days
<1>4. Typed'
  BY <1>1, <1>2, <1>3 DEF Inv, Typed
<1>5. IndexStands'
  BY <1>1, <1>2, <1>3 DEF Inv, IndexStands
<1>6. SamplesStand'
  BY <1>1, <1>2 DEF Inv, SamplesStand
<1>7. CacheStands(points, Spans)'
  BY <1>1, <1>2 DEF Inv, CacheStands
<1>8. CacheStands(peaks, Windows)'
  BY <1>1, <1>2 DEF Inv, CacheStands
<1>9. PeaksFollow'
  BY <1>1, <1>2 DEF Inv, PeaksFollow
<1> QED
  BY <1>4, <1>5, <1>6, <1>7, <1>8, <1>9 DEF Inv

LEMMA PollInv == ASSUME Inv, Poll, Remember PROVE Inv'
<1>1. /\ UNCHANGED <<entries, archive, deleted, points, stores>>
      /\ phase = "Reports" /\ phase' = "Deletes" /\ reports' = {}
      /\ archived_days' = archived_days \cup reports
      /\ peaks' = Without(peaks, reports)
      /\ samples' = [d \in Days |-> IF d \in reports THEN Unread ELSE samples[d]]
  BY DEF Poll, forget_peaks
<1>2. landed' = reports /\ crossed' = crossed \ reports /\ moved \subseteq moved'
  BY <1>1 DEF Remember
<1>3. \A p \in DOMAIN peaks' :
         /\ p \in DOMAIN peaks /\ peaks'[p] = peaks[p]
         /\ peaks[p].days \cap reports = {}
  BY <1>1 DEF Without
<1>4. Typed'
  BY <1>1 DEF Inv, Typed
<1>5. IndexStands'
  BY <1>1, <1>2 DEF Inv, IndexStands
<1>6. SamplesStand'
  BY <1>1, <1>2 DEF Inv, SamplesStand
<1>7. CacheStands(points, Spans)'
  BY <1>1, <1>2 DEF Inv, Typed, CacheStands
<1>8. CacheStands(peaks, Windows)'
  BY <1>1, <1>2, <1>3 DEF Inv, Typed, CacheStands
<1>9. PeaksFollow'
  BY <1>1, <1>2, <1>3 DEF Inv, PeaksFollow, CacheStands
<1> QED
  BY <1>4, <1>5, <1>6, <1>7, <1>8, <1>9 DEF Inv

LEMMA ForgetDeletedInv ==
    ASSUME Inv, ForgetDeleted, phase = "Deletes", phase' = "Draw",
           UNCHANGED <<entries, archive, reports, stores>>, Remember
    PROVE  Inv'
<1>1. /\ deleted' = {} /\ archived_days' = archived_days \ deleted
      /\ points' = Without(points, deleted) /\ peaks' = Without(peaks, deleted)
      /\ samples' = [d \in Days |-> IF d \in deleted THEN Unread ELSE samples[d]]
  BY DEF ForgetDeleted, forget_points, forget_peaks
<1>2. /\ landed' = landed /\ crossed \subseteq crossed' /\ moved \subseteq moved'
      /\ \A d \in deleted : d \in landed \/ (archive[d] # 0 /\ d \notin reports)
                               => d \in crossed'
  BY <1>1 DEF Remember
<1>3. \A p \in DOMAIN points' :
         /\ p \in DOMAIN points /\ points'[p] = points[p]
         /\ points[p].days \cap deleted = {}
  BY <1>1 DEF Without
<1>4. \A p \in DOMAIN peaks' :
         /\ p \in DOMAIN peaks /\ peaks'[p] = peaks[p]
         /\ peaks[p].days \cap deleted = {}
  BY <1>1 DEF Without
<1>5. Typed'
  BY <1>1 DEF Inv, Typed
<1>6. IndexStands'
  BY <1>1, <1>2 DEF Inv, IndexStands
<1>7. SamplesStand'
  BY <1>1, <1>2 DEF Inv, SamplesStand
<1>8. CacheStands(points, Spans)'
  BY <1>1, <1>2, <1>3 DEF Inv, Typed, CacheStands
<1>9. CacheStands(peaks, Windows)'
  BY <1>1, <1>2, <1>4 DEF Inv, Typed, CacheStands
<1>10. PeaksFollow'
  BY <1>1, <1>2, <1>4 DEF Inv, Typed, CacheStands, PeaksFollow
<1> QED
  BY <1>5, <1>6, <1>7, <1>8, <1>9, <1>10 DEF Inv

LEMMA PollDeleteInv == ASSUME Inv, PollDelete, Remember PROVE Inv'
<1>1. phase = "Deletes" /\ phase' = "Draw" /\ UNCHANGED <<entries, archive, reports, stores>>
  BY DEF PollDelete
<1>2. CASE NothingToForget
  <2>1. UNCHANGED <<deleted, archived_days, points, peaks, samples>>
    BY <1>2 DEF NothingToForget
  <2>2. landed' = landed /\ crossed' = crossed /\ moved \subseteq moved'
    BY <1>1, <2>1 DEF Remember
  <2>3. Typed' /\ IndexStands' /\ SamplesStand'
    BY <1>1, <2>1, <2>2 DEF Inv, Typed, IndexStands, SamplesStand
  <2>4. CacheStands(points, Spans)'
    BY <1>1, <2>1, <2>2 DEF Inv, CacheStands
  <2>5. CacheStands(peaks, Windows)'
    BY <1>1, <2>1, <2>2 DEF Inv, CacheStands
  <2>6. PeaksFollow'
    BY <1>1, <2>1, <2>2 DEF Inv, PeaksFollow
  <2> QED
    BY <2>3, <2>4, <2>5, <2>6 DEF Inv
<1>3. CASE ForgetDeleted
  BY <1>1, <1>3, ForgetDeletedInv
<1> QED
  BY <1>2, <1>3 DEF PollDelete

\* What the draw does with the history.
LEMMA DrawRemembers ==
    ASSUME Draw, Remember
    PROVE  /\ landed' = {} /\ crossed' = crossed
           /\ moved' = moved \cap DOMAIN entries
           /\ UNCHANGED <<entries, archive, archived_days, reports, deleted, stores>>
<1>1. phase = "Draw" /\ phase' = "Reports"
      /\ UNCHANGED <<entries, archive, archived_days, reports, deleted, stores>>
  BY DEF Draw
<1> QED
  BY <1>1 DEF Remember

\* What a position has once it is drawn: the entry it had, if that is filed
\* under the days of the index, or one that is read of the revisions.
LEMMA ResolvedEntry ==
    ASSUME NEW cache, NEW spans, NEW revision, NEW p \in DOMAIN entries
    PROVE  /\ DOMAIN Resolved(cache, spans, revision) = DOMAIN entries
           /\ Resolved(cache, spans, revision)[p].days
                = spans[entries[p]] \cap archived_days
           /\ \/ /\ p \in DOMAIN cache
                 /\ Resolved(cache, spans, revision)[p] = cache[p]
              \/ /\ Resolved(cache, spans, revision)[p].of = entries[p]
                 /\ \A d \in Days :
                       Resolved(cache, spans, revision)[p].read[d]
                         = IF d \in spans[entries[p]] THEN revision[d] ELSE 0
                 /\ ~IsHeld(cache, p, spans[entries[p]])
<1>1. DOMAIN Resolved(cache, spans, revision) = DOMAIN entries
  BY DEF Resolved
<1>2. Resolved(cache, spans, revision)[p]
        = IF IsHeld(cache, p, spans[entries[p]]) THEN cache[p]
          ELSE Reading(entries[p], spans[entries[p]], revision)
  BY DEF Resolved
<1>3. CASE IsHeld(cache, p, spans[entries[p]])
  BY <1>1, <1>2, <1>3 DEF IsHeld
<1>4. CASE ~IsHeld(cache, p, spans[entries[p]])
  BY <1>1, <1>2, <1>4 DEF Reading
<1> QED
  BY <1>3, <1>4

\* A sample that is read of a day for a track that lacks it is of the archive,
\* or of a day that something is still to be reported of.
LEMMA SamplesReadStand ==
    ASSUME Inv, NEW d \in Days
    PROVE  /\ SamplesRead[d] \in Nat \cup {Unread}
           /\ SamplesRead[d] \in {Unread, archive[d]} \/ d \in reports \cup deleted
           /\ SamplesRead[d] \notin {Unread, 0} => archive[d] # 0 \/ d \in deleted
           /\ SamplesRead[d] \notin {Unread, 0} /\ d \notin archived_days
                 => d \in reports \cup crossed
           /\ (\E p \in ReadAnew : d \in Windows[entries[p]])
                 => SamplesRead[d] # Unread
<1>1. SamplesRead[d] = IF samples[d] = Unread
                             /\ \E p \in ReadAnew : d \in Windows[entries[p]]
                       THEN archive[d] ELSE samples[d]
  BY DEF SamplesRead
<1>2. samples[d] \in Nat \cup {Unread} /\ archive[d] \in Nat /\ Unread \notin Nat
  BY DEF Inv, Typed, Unread
<1> QED
  BY <1>1, <1>2 DEF Inv, SamplesStand, IndexStands

LEMMA DrawnPoints ==
    ASSUME Inv, Draw, Remember
    PROVE  CacheStands(points, Spans)'
<1>1. /\ landed' = {} /\ crossed' = crossed
      /\ moved' = moved \cap DOMAIN entries
      /\ UNCHANGED <<entries, archive, archived_days, reports, deleted, stores>>
  BY DrawRemembers
<1>2. points' = Resolved(points, Spans, archive)
  BY DEF Draw
<1>3. DOMAIN points' = DOMAIN entries
  BY <1>2 DEF Resolved
<1> SUFFICES ASSUME NEW p \in DOMAIN entries \ moved
             PROVE  /\ points'[p].of = entries[p]
                    /\ \A d \in Days :
                         /\ points'[p].read[d] # 0 => d \in Spans[entries[p]]
                         /\ d \notin (Spans[entries[p]] \cap archived_days) \ points'[p].days
                         /\ (/\ points'[p].read[d] # 0
                             /\ d \notin points'[p].days \cup archived_days)
                               => d \in reports \cup crossed
                         /\ points'[p].read[d] # 0 /\ d \in points'[p].days
                               => archive[d] # 0 \/ d \in deleted
  BY <1>1, <1>3 DEF CacheStands
<1>4. points'[p].days = Spans[entries[p]] \cap archived_days
  BY <1>2, ResolvedEntry
<1>5. CASE p \in DOMAIN points /\ points'[p] = points[p]
  <2>1. points[p].days = Spans[entries[p]] \cap archived_days
    BY <1>4, <1>5
  <2> QED
    BY <1>5, <2>1 DEF Inv, CacheStands
<1>6. CASE /\ points'[p].of = entries[p]
           /\ \A d \in Days : points'[p].read[d]
                = IF d \in Spans[entries[p]] THEN archive[d] ELSE 0
  BY <1>4, <1>6 DEF Inv, IndexStands
<1> QED
  BY <1>2, <1>5, <1>6, ResolvedEntry

LEMMA DrawnPeaks ==
    ASSUME Inv, Draw, Remember
    PROVE  CacheStands(peaks, Windows)' /\ PeaksFollow'
<1>1. /\ landed' = {} /\ crossed' = crossed
      /\ moved' = moved \cap DOMAIN entries
      /\ UNCHANGED <<entries, archive, archived_days, reports, deleted, stores>>
  BY DrawRemembers
<1>2. peaks' = Resolved(peaks, Windows, SamplesRead)
  BY DEF Draw
<1>3. DOMAIN peaks' = DOMAIN entries
  BY <1>2 DEF Resolved
<1> SUFFICES ASSUME NEW p \in DOMAIN entries \ moved
             PROVE  /\ peaks'[p].of = entries[p]
                    /\ \A d \in Days :
                         /\ peaks'[p].read[d] # 0 => d \in Windows[entries[p]]
                         /\ d \notin (Windows[entries[p]] \cap archived_days) \ peaks'[p].days
                         /\ (/\ peaks'[p].read[d] # 0
                             /\ d \notin peaks'[p].days \cup archived_days)
                               => d \in reports \cup crossed
                         /\ peaks'[p].read[d] # 0 /\ d \in peaks'[p].days
                               => archive[d] # 0 \/ d \in deleted
                         /\ d \in Windows[entries[p]] =>
                               \/ peaks'[p].read[d] = archive[d]
                               \/ d \in reports \cup deleted \cup crossed
                               \/ d \in archived_days \ peaks'[p].days
  BY <1>1, <1>3 DEF CacheStands, PeaksFollow
<1>4. peaks'[p].days = Windows[entries[p]] \cap archived_days
  BY <1>2, ResolvedEntry
<1>5. CASE p \in DOMAIN peaks /\ peaks'[p] = peaks[p]
  <2>1. peaks[p].days = Windows[entries[p]] \cap archived_days
    BY <1>4, <1>5
  <2> QED
    BY <1>5, <2>1 DEF Inv, CacheStands, PeaksFollow
<1>6. CASE /\ peaks'[p].of = entries[p]
           /\ \A d \in Days : peaks'[p].read[d]
                = IF d \in Windows[entries[p]] THEN SamplesRead[d] ELSE 0
           /\ p \in ReadAnew
  <2>1. \A d \in Days : d \in Windows[entries[p]] => SamplesRead[d] # Unread
    BY <1>6, SamplesReadStand
  <2>2. \A d \in Days : d \in Windows[entries[p]] =>
           /\ SamplesRead[d] = archive[d] \/ d \in reports \cup deleted
           /\ SamplesRead[d] # 0 => archive[d] # 0 \/ d \in deleted
           /\ SamplesRead[d] # 0 /\ d \notin archived_days => d \in reports \cup crossed
    BY <2>1, SamplesReadStand
  <2> QED
    BY <1>4, <1>6, <2>2
<1> QED
  BY <1>2, <1>5, <1>6, ResolvedEntry DEF ReadAnew

LEMMA DrawInv == ASSUME Inv, Draw, Remember PROVE Inv'
<1>1. /\ landed' = {} /\ crossed' = crossed
      /\ UNCHANGED <<entries, archive, archived_days, reports, deleted, stores>>
  BY DrawRemembers
<1>2. /\ phase' = "Reports"
      /\ samples' = [d \in Days |-> IF d \in Assessed THEN SamplesRead[d] ELSE Unread]
  BY DEF Draw
<1>3. Typed'
  BY <1>1, <1>2, SamplesReadStand DEF Inv, Typed
<1>4. IndexStands'
  BY <1>1 DEF Inv, IndexStands
<1>5. SamplesStand'
  <2> SUFFICES ASSUME NEW d \in Days
               PROVE  /\ samples'[d] \in {Unread, archive[d]} \/ d \in reports \cup deleted
                      /\ samples'[d] \notin {Unread, 0} => archive[d] # 0 \/ d \in deleted
                      /\ samples'[d] \notin {Unread, 0} /\ d \notin archived_days
                            => d \in reports \cup crossed
    BY <1>1 DEF SamplesStand
  <2>1. samples'[d] \in {Unread, SamplesRead[d]}
    BY <1>2
  <2> QED
    BY <2>1, SamplesReadStand
<1> QED
  BY <1>3, <1>4, <1>5, DrawnPoints, DrawnPeaks DEF Inv

LEMMA StutterInv == ASSUME Inv, UNCHANGED vars PROVE Inv'
BY DEF Inv, vars, Typed, IndexStands, SamplesStand, CacheStands, PeaksFollow

LEMMA NextInv == ASSUME Inv, [Next]_vars PROVE Inv'
<1>1. CASE UNCHANGED vars
  BY <1>1, StutterInv
<1>2. CASE Next
  BY <1>2, ChangeEntriesInv, StoreInv, DeleteInv, PollInv, PollDeleteInv, DrawInv
     DEF Next
<1> QED
  BY <1>1, <1>2

LEMMA Invariance == Spec => []Inv
<1>1. Inv /\ [Next]_vars => Inv'
  BY NextInv
<1> QED
  BY <1>1, InitInv, PTL DEF Spec

\* A draw takes place in Next alone.
LEMMA DrawIsRemembered == ASSUME Inv, [Next]_vars, Draw PROVE Remember
<1>1. phase' # phase
  BY DEF Draw
<1> QED
  BY <1>1 DEF Next, vars

\* No deviation of an earlier revision of a day is drawn once the later one is
\* reported, for a track that kept its position and a day that is not crossed
\* (QuietTimeDeviationCache::forget and resolve).
THEOREM PeaksAreOfTheLastRevision == Spec => DrawnPeaksFollowRevisions
<1>1. ASSUME Inv, [Next]_vars, Draw
      PROVE  \A p \in DOMAIN peaks' \ moved : \A d \in Windows[entries[p]] \cap Known :
                peaks'[p].read[d] = archive[d]
  <2>1. Remember
    BY <1>1, DrawIsRemembered
  <2>2. /\ landed' = {} /\ crossed' = crossed
        /\ moved' = moved \cap DOMAIN entries
        /\ UNCHANGED <<entries, archive, archived_days, reports, deleted, stores>>
    BY <1>1, <2>1, DrawRemembers
  <2>3. CacheStands(peaks, Windows)' /\ PeaksFollow'
    BY <1>1, <2>1, DrawnPeaks
  <2>4. peaks' = Resolved(peaks, Windows, SamplesRead)
    BY <1>1 DEF Draw
  <2>5. \A p \in DOMAIN peaks' : peaks'[p].days = Windows[entries[p]] \cap archived_days
    <3>1. DOMAIN peaks' = DOMAIN entries
      BY <2>4 DEF Resolved
    <3> QED
      BY <2>4, <3>1, ResolvedEntry
  <2> QED
    BY <2>2, <2>3, <2>5 DEF PeaksFollow, Known
<1>2. Inv /\ [Next]_vars => [Draw => \A p \in DOMAIN peaks' \ moved :
                                \A d \in Windows[entries[p]] \cap Known :
                                    peaks'[p].read[d] = archive[d]]_vars
  BY <1>1
<1> QED
  BY <1>2, Invariance, PTL DEF Spec, DrawnPeaksFollowRevisions

\* Nothing of a day that is not crossed is drawn once its delete is reported, for a
\* track that kept its position (forget_pruned_days of both caches).
THEOREM DeletedDaysAreNotDrawn == Spec => DeletedDaysLeaveTheDrawing
<1>1. ASSUME Inv, [Next]_vars, Draw
      PROVE  \A cache \in {points', peaks'} : \A p \in DOMAIN cache \ moved :
                \A d \in Known : cache[p].read[d] # 0 => archive[d] # 0
  <2>1. Remember
    BY <1>1, DrawIsRemembered
  <2>2. /\ landed' = {} /\ crossed' = crossed
        /\ moved' = moved \cap DOMAIN entries
        /\ UNCHANGED <<entries, archive, archived_days, reports, deleted, stores>>
    BY <1>1, <2>1, DrawRemembers
  <2>3. CacheStands(points, Spans)' /\ CacheStands(peaks, Windows)'
    BY <1>1, <2>1, DrawnPoints, DrawnPeaks
  <2>4. /\ points' = Resolved(points, Spans, archive)
        /\ peaks' = Resolved(peaks, Windows, SamplesRead)
    BY <1>1 DEF Draw
  <2>5. /\ \A p \in DOMAIN points' : points'[p].days = Spans[entries[p]] \cap archived_days
        /\ \A p \in DOMAIN peaks' : peaks'[p].days = Windows[entries[p]] \cap archived_days
    <3>1. DOMAIN points' = DOMAIN entries /\ DOMAIN peaks' = DOMAIN entries
      BY <2>4 DEF Resolved
    <3> QED
      BY <2>4, <3>1, ResolvedEntry
  <2>6. \A p \in DOMAIN points' \ moved : \A d \in Known :
           points'[p].read[d] # 0 => archive[d] # 0
    BY <2>2, <2>3, <2>5 DEF CacheStands, Known
  <2>7. \A p \in DOMAIN peaks' \ moved : \A d \in Known :
           peaks'[p].read[d] # 0 => archive[d] # 0
    BY <2>2, <2>3, <2>5 DEF CacheStands, Known
  <2> QED
    BY <2>6, <2>7
<1>2. Inv /\ [Next]_vars
         => [Draw => \A cache \in {points', peaks'} : \A p \in DOMAIN cache \ moved :
                \A d \in Known : cache[p].read[d] # 0 => archive[d] # 0]_vars
  BY <1>1
<1> QED
  BY <1>2, Invariance, PTL DEF Spec, DeletedDaysLeaveTheDrawing
=============================================================================
