-------------------------- MODULE DayFetchesProofs --------------------------
(***************************************************************************)
(* An environment scheduler for every number of days, every recording and  *)
(* any number of requests: it types, it asks the host for one day at a     *)
(* time, its index goes stale only for days fetched during a delete of     *)
(* them, and only a changed host or a backfill strands a recording's day.  *)
(***************************************************************************)
EXTENDS DayFetches, FiniteSetTheorems, SequenceTheorems, TLAPS

-----------------------------------------------------------------------------
\* The operators of the queue.

\* A listing of a finite set is a sequence of its members, empty with the set.
LEMMA ListingIsSequence ==
    ASSUME NEW S, IsFiniteSet(S), NEW s \in Listings(S)
    PROVE  s \in Seq(S) /\ (S = {} => s = <<>>)
<1>1. Cardinality(S) \in Nat
  BY FS_CardinalityType
<1>2. s \in [1 .. Cardinality(S) -> S]
  BY DEF Listings
<1>3. S = {} => Cardinality(S) = 0
  BY FS_EmptySet
<1>4. QED
  BY <1>1, <1>2, <1>3

LEMMA DaysAreFinite == ASSUME NEW S \in SUBSET Days PROVE IsFiniteSet(S)
<1>1. IsFiniteSet(1 .. LastDay)
  BY LastDayAssumption, FS_Interval
<1>2. QED
  BY <1>1, FS_Subset DEF Days

LEMMA DayListing ==
    ASSUME NEW S \in SUBSET Days, NEW s \in Listings(S)
    PROVE  s \in Seq(Days) /\ (S = {} => s = <<>>)
<1>1. s \in Seq(S) /\ (S = {} => s = <<>>)
  BY DaysAreFinite, ListingIsSequence
<1>2. QED
  BY <1>1

LEMMA AscendingIsListing ==
    ASSUME NEW S, NEW s \in Ascending(S) PROVE s \in Listings(S)
BY DEF Ascending

\* What retain leaves is a queue, and leaves none of an empty one.
LEMMA RetainedIsQueue ==
    ASSUME NEW s \in Seq(Days), NEW gone, NEW rest \in Retained(s, gone)
    PROVE  rest \in Seq(Days) /\ (s = <<>> => rest = <<>>)
<1> DEFINE kept == {i \in DOMAIN s : s[i] \notin gone}
<1>1. PICK order \in Ascending(kept) : rest = [k \in DOMAIN order |-> s[order[k]]]
  BY DEF Retained
<1>2. IsFiniteSet(1 .. Len(s))
  BY FS_Interval
<1>3. IsFiniteSet(kept)
  BY <1>2, FS_Subset
<1>4. order \in Seq(kept) /\ (kept = {} => order = <<>>)
  BY <1>3, AscendingIsListing, ListingIsSequence
<1>5. \A k \in DOMAIN order : s[order[k]] \in Days
  BY <1>4
<1>6. Len(order) \in Nat /\ DOMAIN order = 1 .. Len(order)
  BY <1>4
<1>7. rest \in Seq(Days)
  BY <1>1, <1>5, <1>6
<1>8. s = <<>> => kept = {}
  OBVIOUS
<1>9. s = <<>> => rest = <<>>
  BY <1>1, <1>4, <1>8
<1>10. QED
  BY <1>7, <1>9

-----------------------------------------------------------------------------
\* Every operation of the queue leaves a queue, and all but the two that start
\* and finish a day leave the day in flight alone.
LEMMA RequestDaysIsQueue ==
    ASSUME NEW q \in Queues, NEW asked \in SUBSET Days, NEW around \in SUBSET Days,
           NEW answer \in [Days -> Answers], NEW listing \in Seq(Days)
    PROVE  /\ RequestDays(q, asked, around, answer, listing) \in Queues
           /\ RequestDays(q, asked, around, answer, listing).in_flight = q.in_flight
<1> DEFINE all == Asked(q, asked, around)
           unread == {d \in all : answer[d] = "Unreadable"} \ q.requested
           counts == [d \in Days |-> IF d \in asked THEN CountedAs(answer[d])
                                     ELSE q.recording_days[d]]
           background == [d \in Days |-> CASE d \in asked -> "Uncounted"
                                           [] d \in all \ asked -> CountedAs(answer[d])
                                           [] OTHER -> q.background_days[d]]
<1>1. all \subseteq Days /\ unread \subseteq Days
  BY DEF Asked
<1>2. NewlyQueued(q, all, answer) \subseteq Days
  BY <1>1 DEF NewlyQueued
<1>3. \A d \in Days : CountedAs(answer[d]) \in Coverage
  BY DEF CountedAs, Coverage
<1>4. counts \in [Days -> Coverage]
  BY <1>3 DEF Queues
<1>5. background \in [Days -> Coverage]
  <2>1. "Uncounted" \in Coverage
    BY DEF Coverage
  <2>2. q.background_days \in [Days -> Coverage]
    BY DEF Queues
  <2>3. QED
    BY <1>3, <2>1, <2>2
<1>6. q.queue \o listing \in Seq(Days)
  BY DEF Queues
<1>7. RequestDays(q, asked, around, answer, listing) =
        [q EXCEPT !.queue = q.queue \o listing,
                  !.requested = q.requested \cup NewlyQueued(q, all, answer) \cup unread,
                  !.failures = q.failures \cup unread,
                  !.recording_days = counts,
                  !.background_days = background]
  BY DEF RequestDays
<1> HIDE DEF all, unread, counts, background
<1>8. QED
  BY <1>1, <1>2, <1>4, <1>5, <1>6, <1>7 DEF Queues

LEMMA CancelIsQueue ==
    ASSUME NEW q \in Queues, NEW rest \in Retained(q.queue, q.backfill)
    PROVE  /\ cancel_backfill(q, rest) \in Queues
           /\ cancel_backfill(q, rest).in_flight = q.in_flight
           /\ q.queue = <<>> => cancel_backfill(q, rest).queue = <<>>
<1>1. q.queue \in Seq(Days)
  BY DEF Queues
<1>2. rest \in Seq(Days) /\ (q.queue = <<>> => rest = <<>>)
  BY <1>1, RetainedIsQueue
<1>3. QED
  BY <1>2 DEF cancel_backfill, Queues

LEMMA BackfillIsQueue ==
    ASSUME NEW q \in Queues, NEW asked \in SUBSET Days,
           NEW answer \in [Days -> Answers], NEW listing \in Seq(Days)
    PROVE  /\ start_backfill(q, asked, answer, listing) \in Queues
           /\ start_backfill(q, asked, answer, listing).in_flight = q.in_flight
<1>1. q.queue \o listing \in Seq(Days)
  BY DEF Queues
<1>2. NewlyQueued(q, asked, answer) \subseteq Days
  BY DEF NewlyQueued
<1>3. QED
  BY <1>1, <1>2 DEF start_backfill, Queues

LEMMA ReportIsQueue ==
    ASSUME NEW q \in Queues, NEW day \in Days
    PROVE  /\ mark_archived(q, day) \in Queues
           /\ mark_archived(q, day).in_flight = q.in_flight
           /\ report_failure(q, day) \in Queues
           /\ report_failure(q, day).in_flight = q.in_flight
           /\ finish_day(q, day) \in Queues
           /\ finish_day(q, day).in_flight = NoDay
<1>1. "Archived" \in Coverage
  BY DEF Coverage
<1>2. QED
  BY <1>1 DEF mark_archived, report_failure, finish_day, Queues

LEMMA ForgetHostIsQueue ==
    ASSUME NEW q \in Queues
    PROVE  /\ forget_host(q) \in Queues
           /\ forget_host(q).in_flight = q.in_flight
           /\ forget_host(q).queue = <<>>
<1>1. <<>> \in Seq(Days)
  OBVIOUS
<1>2. QED
  BY <1>1 DEF forget_host, Queues

LEMMA ForgetPrunedIsQueue ==
    ASSUME NEW q \in Queues, NEW pruned
    PROVE  /\ forget_pruned_days(q, pruned) \in Queues
           /\ forget_pruned_days(q, pruned).in_flight = q.in_flight
<1>1. "Awaited" \in Coverage
  BY DEF Coverage
<1>2. QED
  BY <1>1 DEF forget_pruned_days, Queues

-----------------------------------------------------------------------------
\* The day in flight is with a thread or in the channel, and nowhere else.
InOnePlace(day, threads, reports) ==
    \/ day = NoDay /\ threads = {} /\ reports = <<>>
    \/ day # NoDay /\ threads = {day} /\ reports = <<>>
    \/ /\ day # NoDay /\ threads = {} /\ Len(reports) = 1
       /\ reports[1].day = day

\* Handing out the next day keeps it so, and leaves no day waiting.
LEMMA StartNext ==
    ASSUME NEW q \in Queues, start_next(q), fetching \subseteq Days,
           NEW reports, InOnePlace(q.in_flight, fetching, reports)
    PROVE  /\ days' \in Queues
           /\ fetching' \subseteq Days
           /\ InOnePlace(days'.in_flight, fetching', reports)
           /\ HasNextDay(days') => rejecting
           /\ days'.requested = q.requested
           /\ days'.recording_days = q.recording_days
           /\ days'.backfill = q.backfill
<1>1. CASE ~rejecting /\ HasNextDay(q)
  <2>1. /\ Head(q.queue) \in Days /\ Tail(q.queue) \in Seq(Days)
        /\ q.in_flight = NoDay
    BY <1>1 DEF Queues, HasNextDay
  <2>2. days' = take_next_day(q) /\ fetching' = fetching \cup {Head(q.queue)}
    BY <1>1 DEF start_next
  <2>3. days'.in_flight = Head(q.queue) /\ Head(q.queue) # NoDay
    BY <2>1, <2>2, NoDayAssumption DEF take_next_day, Days, Queues
  <2>4. /\ days' \in Queues /\ days'.requested = q.requested
        /\ days'.recording_days = q.recording_days /\ days'.backfill = q.backfill
    BY <2>1, <2>2 DEF take_next_day, Queues
  <2>5. fetching = {} /\ reports = <<>>
    BY <2>1 DEF InOnePlace
  <2>6. QED
    BY <2>1, <2>2, <2>3, <2>4, <2>5 DEF InOnePlace, HasNextDay
<1>2. CASE ~(~rejecting /\ HasNextDay(q))
  BY <1>2 DEF start_next
<1>3. QED
  BY <1>1, <1>2

-----------------------------------------------------------------------------
\* The state as the window sees it: what is in flight is in one place, and a
\* day waits only for shutdown.
Dispatch ==
    /\ days \in Queues
    /\ fetching \subseteq Days
    /\ messages \in Seq([day : Days, outcome : Outcomes])
    /\ InOnePlace(days.in_flight, fetching, messages)
    /\ HasNextDay(days) => rejecting

LEMMA DispatchIsOneFetch == Dispatch => OneFetchAtATime
<1> SUFFICES ASSUME Dispatch PROVE OneFetchAtATime
  OBVIOUS
<1>1. Cardinality({}) = 0 /\ Cardinality({days.in_flight}) = 1
  BY FS_EmptySet, FS_Singleton
<1>2. HasNextDay(days) => rejecting
  BY DEF Dispatch
<1>3. CASE days.in_flight = NoDay /\ fetching = {} /\ messages = <<>>
  BY <1>1, <1>2, <1>3 DEF OneFetchAtATime
<1>4. CASE days.in_flight # NoDay /\ fetching = {days.in_flight} /\ messages = <<>>
  <2>1. Cardinality(fetching) = 1
    BY <1>1, <1>4
  <2>2. QED
    BY <1>2, <1>4, <2>1 DEF OneFetchAtATime
<1>5. CASE /\ days.in_flight # NoDay /\ fetching = {} /\ Len(messages) = 1
           /\ messages[1].day = days.in_flight
  <2>1. messages \in Seq([day : Days, outcome : Outcomes])
    BY DEF Dispatch
  <2>2. \A i \in DOMAIN messages : i = 1
    BY <1>5, <2>1
  <2>3. Cardinality(fetching) = 0
    BY <1>1, <1>5
  <2>4. QED
    BY <1>2, <1>5, <2>2, <2>3 DEF OneFetchAtATime
<1>6. QED
  BY <1>3, <1>4, <1>5 DEF Dispatch, InOnePlace

LEMMA ReadingsAreAnswers == Readings \subseteq [Days -> Answers]
BY DEF Readings, Answers

LEMMA AroundAreDays == \A r : Around(r) \subseteq Days
BY DEF Around

\* Requests for the days of recordings, on the window's queue or on one the
\* delete has just gone through, and the start of the first of them.
LEMMA RequestKeepsDispatch ==
    ASSUME Dispatch, NEW q \in Queues, q.in_flight = days.in_flight,
           NEW spanned \in SUBSET Days, NEW around \in SUBSET Days,
           NEW answer \in Readings, NEW listing \in Seq(Days),
           start_next(RequestDays(q, spanned, around, answer, listing)),
           UNCHANGED <<messages, rejecting>>
    PROVE  Dispatch'
<1> DEFINE asked == RequestDays(q, spanned, around, answer, listing)
<1>1. asked \in Queues /\ asked.in_flight = days.in_flight
  BY ReadingsAreAnswers, RequestDaysIsQueue
<1>2. InOnePlace(asked.in_flight, fetching, messages) /\ fetching \subseteq Days
  BY <1>1 DEF Dispatch
<1> HIDE DEF asked
<1>3. start_next(asked)
  BY DEF asked
<1>4. /\ days' \in Queues /\ fetching' \subseteq Days
      /\ InOnePlace(days'.in_flight, fetching', messages)
      /\ HasNextDay(days') => rejecting
  BY <1>1, <1>2, <1>3, StartNext
<1>5. QED
  BY <1>4 DEF Dispatch

\* What each step does with the days of a recording, for the steps that ask.
LEMMA LoadRequests ==
    ASSUME Dispatch, NEW r \in Recordings, Load(r)
    PROVE  \E answer \in Readings, listing \in Seq(Days) :
              start_next(RequestDays(days, r, Around(r), answer, listing))
<1>1. PICK answer \in Readings : request_days_for(r, answer)
  BY DEF Load
<1> DEFINE asked == Asked(days, r, Around(r))
           new == NewlyQueued(days, asked, answer)
<1>2. new \subseteq Days
  BY RecordingsAssumption, AroundAreDays DEF NewlyQueued, Asked
<1>3. PICK first \in Ascending(new \cap r), rest \in Ascending(new \ r) :
        start_next(RequestDays(days, r, Around(r), answer, first \o rest))
  BY <1>1 DEF request_days_for
<1> HIDE DEF new
<1>4. first \in Seq(Days) /\ rest \in Seq(Days)
  BY <1>2, AscendingIsListing, DayListing
<1>5. first \o rest \in Seq(Days)
  BY <1>4
<1>6. QED
  BY <1>3, <1>5

LEMMA LoadedRequests ==
    ASSUME NEW q \in Queues, NEW answer \in Readings, loaded \subseteq Recordings,
           request_days_of_loaded(q, answer)
    PROVE  \E around \in SUBSET Days, listing \in Seq(Days) :
              start_next(RequestDays(q, UNION loaded, around, answer, listing))
<1> DEFINE spanned == UNION loaded
           around == UNION {Around(r) : r \in loaded} \ spanned
           new == NewlyQueued(q, Asked(q, spanned, around), answer)
<1>1. spanned \subseteq Days
  BY RecordingsAssumption
<1>2. around \subseteq Days
  BY AroundAreDays
<1>3. new \subseteq Days
  <2> HIDE DEF spanned, around
  <2>1. QED
    BY <1>1, <1>2 DEF NewlyQueued, Asked
<1>4. PICK listing \in Listings(new) :
        start_next(RequestDays(q, spanned, around, answer, listing))
  BY DEF request_days_of_loaded
<1> HIDE DEF around, new
<1>5. listing \in Seq(Days)
  BY <1>3, DayListing
<1>6. QED
  BY <1>2, <1>4, <1>5

LEMMA BackfillKeepsDispatch ==
    ASSUME Dispatch, NEW first \in Days, NEW last \in Days, Backfill(first, last)
    PROVE  Dispatch'
<1>1. PICK answer \in Readings, rest \in Retained(days.queue, days.backfill) :
        LET q == cancel_backfill(days, rest)
            range == first .. last
        IN \E listing \in Ascending(NewlyQueued(q, range, answer)) :
             start_next(start_backfill(q, range, answer, listing))
  BY DEF Backfill
<1> DEFINE q == cancel_backfill(days, rest)
           range == first .. last
<1>2. PICK listing \in Ascending(NewlyQueued(q, range, answer)) :
        start_next(start_backfill(q, range, answer, listing))
  BY <1>1
<1>3. q \in Queues /\ q.in_flight = days.in_flight
  BY CancelIsQueue DEF Dispatch
<1>4. range \subseteq Days
  BY LastDayAssumption DEF Days
<1> HIDE DEF q, range
<1>5. NewlyQueued(q, range, answer) \subseteq Days
  BY <1>4 DEF NewlyQueued
<1>6. listing \in Seq(Days)
  BY <1>5, AscendingIsListing, DayListing
<1> DEFINE started == start_backfill(q, range, answer, listing)
<1>7. started \in Queues /\ started.in_flight = days.in_flight
  BY <1>3, <1>4, <1>6, ReadingsAreAnswers, BackfillIsQueue
<1>8. start_next(started)
  BY <1>2
<1> HIDE DEF started
<1>9. InOnePlace(started.in_flight, fetching, messages) /\ fetching \subseteq Days
  BY <1>7 DEF Dispatch
<1>10. /\ days' \in Queues /\ fetching' \subseteq Days
       /\ InOnePlace(days'.in_flight, fetching', messages)
       /\ HasNextDay(days') => rejecting
  BY <1>7, <1>8, <1>9, StartNext
<1>11. messages' = messages /\ rejecting' = rejecting
  BY DEF Backfill
<1>12. QED
  BY <1>10, <1>11 DEF Dispatch

LEMMA CancelKeepsDispatch ==
    ASSUME Dispatch, CancelBackfill PROVE Dispatch'
<1>1. PICK rest \in Retained(days.queue, days.backfill) :
        days' = cancel_backfill(days, rest)
  BY DEF CancelBackfill
<1>2. /\ days' \in Queues /\ days'.in_flight = days.in_flight
      /\ days.queue = <<>> => days'.queue = <<>>
  BY <1>1, CancelIsQueue DEF Dispatch
<1>3. UNCHANGED <<fetching, messages, rejecting>>
  BY DEF CancelBackfill
<1>4. QED
  BY <1>2, <1>3 DEF Dispatch, HasNextDay

LEMMA ChangeHostKeepsDispatch ==
    ASSUME Dispatch, ChangeHost PROVE Dispatch'
<1>1. /\ days' \in Queues /\ days'.in_flight = days.in_flight
      /\ days'.queue = <<>>
  BY ForgetHostIsQueue DEF Dispatch, ChangeHost
<1>2. UNCHANGED <<fetching, messages, rejecting>>
  BY DEF ChangeHost
<1>3. QED
  BY <1>1, <1>2 DEF Dispatch, HasNextDay

\* The fetched day is the one in flight, and its report takes its place.
LEMMA IngestReports ==
    ASSUME Dispatch, NEW d \in Days, Ingest(d)
    PROVE  /\ d = days.in_flight /\ messages = <<>> /\ fetching' = {}
           /\ \E outcome \in Outcomes : messages' = <<[day |-> d, outcome |-> outcome]>>
<1>1. d \in fetching
  BY DEF Ingest
<1>2. d = days.in_flight /\ messages = <<>> /\ fetching = {d}
  BY <1>1 DEF Dispatch, InOnePlace
<1>3. fetching' = {}
  BY <1>2 DEF Ingest
<1>4. \E outcome \in Outcomes : messages' = Append(messages, [day |-> d, outcome |-> outcome])
  BY DEF Ingest, Answer, Outcomes
<1>5. QED
  BY <1>2, <1>3, <1>4

LEMMA IngestKeepsDispatch ==
    ASSUME Dispatch, NEW d \in Days, Ingest(d) PROVE Dispatch'
<1>1. PICK outcome \in Outcomes : messages' = <<[day |-> d, outcome |-> outcome]>>
  BY IngestReports
<1>2. d = days.in_flight /\ fetching' = {} /\ days' = days /\ rejecting' = rejecting
  BY IngestReports DEF Ingest
<1>3. d # NoDay
  BY NoDayAssumption DEF Days
<1>4. messages' \in Seq([day : Days, outcome : Outcomes])
  BY <1>1
<1>5. Len(messages') = 1 /\ messages'[1].day = d
  BY <1>1
<1>6. InOnePlace(days'.in_flight, fetching', messages')
  BY <1>2, <1>3, <1>5 DEF InOnePlace
<1>7. QED
  BY <1>2, <1>4, <1>6 DEF Dispatch

LEMMA OneMember ==
    ASSUME NEW T, NEW s \in Seq(T), Len(s) = 1
    PROVE  Head(s) = s[1] /\ s[1] \in T /\ Tail(s) = <<>>
<1>1. s # <<>> /\ s[1] \in T
  OBVIOUS
<1>2. Tail(s) \in Seq(T) /\ Len(Tail(s)) = 0
  BY <1>1
<1>3. Tail(s) = <<>>
  BY <1>2, EmptySeq
<1>4. Head(s) = s[1]
  BY <1>1
<1>5. QED
  BY <1>1, <1>3, <1>4

\* A poll settles the one report there is, and starts the next day.
LEMMA PollSettles ==
    ASSUME Dispatch, Poll
    PROVE  /\ Len(messages) = 1 /\ messages' = <<>> /\ fetching = {}
           /\ Head(messages) = messages[1]
           /\ messages[1] \in [day : Days, outcome : Outcomes]
           /\ messages[1].day = days.in_flight
           /\ start_next(Settle(finish_day(days, messages[1].day), messages[1]))
<1>1. messages # <<>> /\ messages \in Seq([day : Days, outcome : Outcomes])
  BY DEF Poll, Dispatch
<1>2. Len(messages) = 1 /\ fetching = {} /\ messages[1].day = days.in_flight
  BY <1>1 DEF Dispatch, InOnePlace
<1>3. /\ Head(messages) = messages[1] /\ Tail(messages) = <<>>
      /\ messages[1] \in [day : Days, outcome : Outcomes]
  BY <1>1, <1>2, OneMember
<1>4. QED
  BY <1>2, <1>3 DEF Poll

LEMMA PollKeepsDispatch ==
    ASSUME Dispatch, Poll PROVE Dispatch'
<1> DEFINE message == messages[1]
           finished == finish_day(days, message.day)
           settled == Settle(finished, message)
<1>1. message \in [day : Days, outcome : Outcomes]
  BY PollSettles
<1>2. finished \in Queues /\ finished.in_flight = NoDay
  BY <1>1, ReportIsQueue DEF Dispatch
<1> HIDE DEF finished, message
<1>3. settled \in Queues /\ settled.in_flight = NoDay
  BY <1>1, <1>2, ReportIsQueue DEF Settle
<1>4. start_next(settled)
  BY PollSettles DEF finished, message
<1> HIDE DEF settled
<1>5. messages' = <<>> /\ fetching = {} /\ rejecting' = rejecting
  BY PollSettles DEF Poll
<1>6. InOnePlace(settled.in_flight, fetching, <<>>) /\ fetching \subseteq Days
  BY <1>3, <1>5 DEF InOnePlace
<1>7. /\ days' \in Queues /\ fetching' \subseteq Days
      /\ InOnePlace(days'.in_flight, fetching', <<>>)
      /\ HasNextDay(days') => rejecting
  BY <1>3, <1>4, <1>6, StartNext
<1>8. messages' \in Seq([day : Days, outcome : Outcomes])
  BY <1>5
<1>9. QED
  BY <1>5, <1>7, <1>8 DEF Dispatch

LEMMA PollPruneKeepsDispatch ==
    ASSUME Dispatch, loaded \subseteq Recordings, PollPrune PROVE Dispatch'
<1>1. PICK answer \in Readings :
        \/ request_days_of_loaded(ForgetPruned(days, prune.days), answer)
        \/ request_days_of_loaded(days, answer)
  BY DEF PollPrune
<1>2. PICK q \in Queues : /\ q.in_flight = days.in_flight
                          /\ request_days_of_loaded(q, answer)
  BY <1>1, ForgetPrunedIsQueue DEF Dispatch, ForgetPruned
<1>3. PICK around \in SUBSET Days, listing \in Seq(Days) :
        start_next(RequestDays(q, UNION loaded, around, answer, listing))
  BY <1>2, LoadedRequests
<1>4. UNION loaded \subseteq Days
  BY RecordingsAssumption
<1>5. UNCHANGED <<messages, rejecting>>
  BY DEF PollPrune
<1>6. QED
  BY <1>2, <1>3, <1>4, <1>5, RequestKeepsDispatch

-----------------------------------------------------------------------------
\* What the rest of the state is.
Typed ==
    /\ source \in Sources
    /\ loaded \subseteq Recordings
    /\ archive \in [Days -> Holdings]
    /\ archived_days \subseteq Days
    /\ prune \in Prunes
    /\ rejecting \in BOOLEAN
    /\ requests \in 0 .. Requests
    /\ crossed \subseteq Days

\* What makes the index true of the days no fetch and delete share: the delete
\* leaves them deleted, and their report is of what the file still holds.
Tracked ==
    /\ prune.stage = "None" => prune.outcome = "None"
    /\ \A d \in Days \ crossed :
         /\ BeingDeleted(d) => archive[d] = "Absent"
         /\ Reported(d) => archive[d] # "Absent"
         /\ StoredDayIsIndexed(d)
         /\ IndexedDayIsStored(d)

IInv == Dispatch /\ Typed /\ Tracked

-----------------------------------------------------------------------------
\* What a request changes of one day: it counts a day archived only where the
\* file holds it, and every recording's day it leaves awaited is requested.
LEMMA RequestDaysEffect ==
    ASSUME NEW q \in Queues, NEW spanned \in SUBSET Days, NEW around \in SUBSET Days,
           NEW answer \in Readings, NEW listing \in Seq(Days), NEW d \in Days
    PROVE  LET r == RequestDays(q, spanned, around, answer, listing)
           IN /\ r.recording_days[d] = "Archived" =>
                    archive[d] # "Absent" \/ q.recording_days[d] = "Archived"
              /\ r.recording_days[d] = "Awaited" =>
                    \/ d \in r.requested
                    \/ d \notin spanned /\ q.recording_days[d] = "Awaited"
              /\ q.requested \subseteq r.requested
<1> DEFINE r == RequestDays(q, spanned, around, answer, listing)
           asked == Asked(q, spanned, around)
           unread == {e \in asked : answer[e] = "Unreadable"} \ q.requested
<1>1. r.recording_days[d] = IF d \in spanned THEN CountedAs(answer[d])
                                             ELSE q.recording_days[d]
  BY DEF RequestDays, Queues
<1>2. r.requested = q.requested \cup NewlyQueued(q, asked, answer) \cup unread
  BY DEF RequestDays, Queues
<1>3. /\ answer[d] \in Answers
      /\ answer[d] = "Held" => archive[d] = "Final"
  BY DEF Readings, Answers
<1> HIDE DEF r
<1>4. d \in spanned => d \in asked
  BY DEF Asked
<1>5. d \in spanned /\ answer[d] # "Held" => d \in r.requested
  BY <1>2, <1>3, <1>4 DEF NewlyQueued, Answers
<1>6. answer[d] = "Held" => CountedAs(answer[d]) = "Archived"
  BY DEF CountedAs
<1>7. CountedAs(answer[d]) = "Archived" => answer[d] = "Held"
  BY DEF CountedAs
<1>8. QED
  BY <1>1, <1>2, <1>3, <1>5, <1>6, <1>7 DEF r

\* The same of the queue the steps that ask leave behind.
LEMMA RequestedEffect ==
    ASSUME Dispatch, NEW q \in Queues, q.in_flight = days.in_flight,
           NEW spanned \in SUBSET Days, NEW around \in SUBSET Days,
           NEW answer \in Readings, NEW listing \in Seq(Days),
           start_next(RequestDays(q, spanned, around, answer, listing)),
           NEW d \in Days
    PROVE  /\ days'.recording_days[d] = "Archived" =>
                archive[d] # "Absent" \/ q.recording_days[d] = "Archived"
           /\ days'.recording_days[d] = "Awaited" =>
                \/ d \in days'.requested
                \/ d \notin spanned /\ q.recording_days[d] = "Awaited"
           /\ q.requested \subseteq days'.requested
<1> DEFINE asked == RequestDays(q, spanned, around, answer, listing)
<1>1. asked \in Queues /\ asked.in_flight = days.in_flight
  BY ReadingsAreAnswers, RequestDaysIsQueue
<1>2. InOnePlace(asked.in_flight, fetching, messages) /\ fetching \subseteq Days
  BY <1>1 DEF Dispatch
<1>3. start_next(asked)
  OBVIOUS
<1>4. /\ asked.recording_days[d] = "Archived" =>
           archive[d] # "Absent" \/ q.recording_days[d] = "Archived"
      /\ asked.recording_days[d] = "Awaited" =>
           \/ d \in asked.requested
           \/ d \notin spanned /\ q.recording_days[d] = "Awaited"
      /\ q.requested \subseteq asked.requested
  BY RequestDaysEffect
<1> HIDE DEF asked
<1>5. /\ days'.requested = asked.requested
      /\ days'.recording_days = asked.recording_days
  BY <1>1, <1>2, <1>3, StartNext
<1>6. QED
  BY <1>4, <1>5

\* What a backfill changes of one day: what is counted of it stays, and only a
\* day of the backfill it replaces is no longer requested.
LEMMA BackfillEffect ==
    ASSUME Dispatch, NEW first \in Days, NEW last \in Days, Backfill(first, last)
    PROVE  /\ days'.recording_days = days.recording_days
           /\ days.requested \ days.backfill \subseteq days'.requested
<1>1. PICK answer \in Readings, rest \in Retained(days.queue, days.backfill) :
        LET q == cancel_backfill(days, rest)
            range == first .. last
        IN \E listing \in Ascending(NewlyQueued(q, range, answer)) :
             start_next(start_backfill(q, range, answer, listing))
  BY DEF Backfill
<1> DEFINE q == cancel_backfill(days, rest)
           range == first .. last
<1>2. PICK listing \in Ascending(NewlyQueued(q, range, answer)) :
        start_next(start_backfill(q, range, answer, listing))
  BY <1>1
<1>3. q \in Queues /\ q.in_flight = days.in_flight
  BY CancelIsQueue DEF Dispatch
<1>4. range \subseteq Days
  BY LastDayAssumption DEF Days
<1>5. /\ q.recording_days = days.recording_days
      /\ days.requested \ days.backfill \subseteq q.requested
  BY DEF cancel_backfill, Dispatch, Queues
<1> HIDE DEF q, range
<1>6. NewlyQueued(q, range, answer) \subseteq Days
  BY <1>4 DEF NewlyQueued
<1>7. listing \in Seq(Days)
  BY <1>6, AscendingIsListing, DayListing
<1> DEFINE started == start_backfill(q, range, answer, listing)
<1>8. started \in Queues /\ started.in_flight = days.in_flight
  BY <1>3, <1>4, <1>7, ReadingsAreAnswers, BackfillIsQueue
<1>9. /\ started.recording_days = q.recording_days
      /\ q.requested \subseteq started.requested
  BY <1>3 DEF start_backfill, Queues
<1>10. start_next(started)
  BY <1>2
<1> HIDE DEF started
<1>11. InOnePlace(started.in_flight, fetching, messages) /\ fetching \subseteq Days
  BY <1>8 DEF Dispatch
<1>12. /\ days'.requested = started.requested
       /\ days'.recording_days = started.recording_days
  BY <1>8, <1>10, <1>11, StartNext
<1>13. QED
  BY <1>5, <1>9, <1>12

\* What a poll changes of one day: the reported one may become archived.
LEMMA PollEffect ==
    ASSUME Dispatch, Poll, NEW d \in Days
    PROVE  /\ days'.requested = days.requested
           /\ days'.recording_days[d] = "Awaited" => days.recording_days[d] = "Awaited"
           /\ days'.recording_days[d] = "Archived" =>
                \/ days.recording_days[d] = "Archived"
                \/ messages[1] = [day |-> d, outcome |-> "Stored"]
<1> DEFINE message == messages[1]
           finished == finish_day(days, message.day)
           settled == Settle(finished, message)
<1>1. message \in [day : Days, outcome : Outcomes]
  BY PollSettles
<1>2. finished \in Queues /\ finished.in_flight = NoDay
  BY <1>1, ReportIsQueue DEF Dispatch
<1>3. /\ finished.requested = days.requested
      /\ finished.recording_days = days.recording_days
  BY DEF finish_day, Dispatch, Queues
<1>4. start_next(settled)
  BY PollSettles
<1> HIDE DEF finished, message
<1>5. settled \in Queues /\ settled.in_flight = NoDay
  BY <1>1, <1>2, ReportIsQueue DEF Settle
<1>6. settled.requested = finished.requested
  BY <1>2 DEF Settle, mark_archived, report_failure, Queues
<1>7. /\ settled.recording_days[d] = "Awaited" => finished.recording_days[d] = "Awaited"
      /\ settled.recording_days[d] = "Archived" =>
           \/ finished.recording_days[d] = "Archived"
           \/ message.outcome = "Stored" /\ message.day = d
  BY <1>1, <1>2 DEF Settle, mark_archived, report_failure, Queues
<1> HIDE DEF settled
<1>8. fetching = {}
  BY PollSettles
<1>9. InOnePlace(settled.in_flight, fetching, <<>>) /\ fetching \subseteq Days
  BY <1>5, <1>8 DEF InOnePlace
<1>10. /\ days'.requested = settled.requested
       /\ days'.recording_days = settled.recording_days
  BY <1>4, <1>5, <1>9, StartNext
<1>11. message.outcome = "Stored" /\ message.day = d =>
         message = [day |-> d, outcome |-> "Stored"]
  BY <1>1
<1>12. QED
  BY <1>3, <1>6, <1>7, <1>10, <1>11 DEF message

-----------------------------------------------------------------------------
\* The steps that neither write the file nor apply a report keep the index
\* true, as long as they count no day archived that the file does not hold.
LEMMA QuietKeepsTracked ==
    ASSUME Tracked, Cross, UNCHANGED <<archive, archived_days, messages>>,
           prune'.stage = "None" => prune'.outcome = "None",
           \A d \in Days : BeingDeleted(d)' <=> BeingDeleted(d),
           \A d \in Days : days'.recording_days[d] = "Archived" =>
                archive[d] # "Absent" \/ days.recording_days[d] = "Archived"
    PROVE  Tracked'
<1>1. crossed \subseteq crossed'
  BY DEF Cross
<1>2. \A d \in Days : Reported(d)' <=> Reported(d)
  BY DEF Reported
<1>3. ASSUME NEW d \in Days \ crossed'
      PROVE  /\ BeingDeleted(d)' => archive'[d] = "Absent"
             /\ Reported(d)' => archive'[d] # "Absent"
             /\ StoredDayIsIndexed(d)'
             /\ IndexedDayIsStored(d)'
  <2>1. d \in Days \ crossed
    BY <1>1
  <2>2. /\ BeingDeleted(d) => archive[d] = "Absent"
        /\ Reported(d) => archive[d] # "Absent"
        /\ StoredDayIsIndexed(d)
        /\ IndexedDayIsStored(d)
    BY <2>1 DEF Tracked
  <2>3. StoredDayIsIndexed(d)'
    BY <1>2, <2>1, <2>2 DEF StoredDayIsIndexed
  <2>4. IndexedDayIsStored(d)'
    BY <2>1, <2>2 DEF IndexedDayIsStored
  <2>5. QED
    BY <1>2, <2>1, <2>2, <2>3, <2>4
<1>4. QED
  BY <1>3 DEF Tracked

\* A delete starts only where none is, and says of no day that it is gone.
LEMMA StartedDelete ==
    ASSUME Tracked, NEW pruned, start_environment_prune(pruned)
    PROVE  /\ prune'.stage = "None" => prune'.outcome = "None"
           /\ \A d \in Days : BeingDeleted(d)' <=> BeingDeleted(d)
BY DEF start_environment_prune, Tracked, BeingDeleted

LEMMA LoadKeepsTracked ==
    ASSUME Dispatch, Tracked, Cross, NEW r \in Recordings, Load(r)
    PROVE  Tracked'
<1>1. PICK answer \in Readings, listing \in Seq(Days) :
        start_next(RequestDays(days, r, Around(r), answer, listing))
  BY LoadRequests
<1>2. days \in Queues /\ r \subseteq Days /\ Around(r) \subseteq Days
  BY RecordingsAssumption, AroundAreDays DEF Dispatch
<1>3. \A d \in Days : days'.recording_days[d] = "Archived" =>
          archive[d] # "Absent" \/ days.recording_days[d] = "Archived"
  BY <1>1, <1>2, RequestedEffect
<1>4. /\ prune'.stage = "None" => prune'.outcome = "None"
      /\ \A d \in Days : BeingDeleted(d)' <=> BeingDeleted(d)
  <2>1. CASE UNCHANGED prune
    BY <2>1 DEF Tracked, BeingDeleted
  <2>2. CASE \E pruned : start_environment_prune(pruned)
    BY <2>2, StartedDelete
  <2>3. QED
    BY <2>1, <2>2 DEF Load
<1>5. UNCHANGED <<archive, archived_days, messages>>
  BY DEF Load
<1>6. QED
  BY <1>3, <1>4, <1>5, QuietKeepsTracked

\* The other requests of the user, and shutdown.
LEMMA UserKeepsTracked ==
    ASSUME Dispatch, Tracked, Cross,
           \/ \E r \in Recordings : Unload(r)
           \/ \E first, last \in Days : first <= last /\ Backfill(first, last)
           \/ CancelBackfill
           \/ ChangeHost
           \/ \E pruned \in PrunedDays : Delete(pruned)
           \/ BeginShutdown
    PROVE  Tracked'
<1>1. UNCHANGED <<archive, archived_days, messages>>
  BY DEF Unload, Backfill, CancelBackfill, ChangeHost, Delete, BeginShutdown
<1>2. days'.recording_days = days.recording_days
  <2>1. CASE \E first, last \in Days : first <= last /\ Backfill(first, last)
    BY <2>1, BackfillEffect
  <2>2. CASE CancelBackfill
    BY <2>2 DEF CancelBackfill, cancel_backfill, Dispatch, Queues
  <2>3. CASE ChangeHost
    BY <2>3 DEF ChangeHost, forget_host, Dispatch, Queues
  <2>4. CASE \E r \in Recordings : Unload(r)
    BY <2>4 DEF Unload
  <2>5. CASE \E pruned \in PrunedDays : Delete(pruned)
    BY <2>5 DEF Delete
  <2>6. CASE BeginShutdown
    BY <2>6 DEF BeginShutdown
  <2>7. QED
    BY <2>1, <2>2, <2>3, <2>4, <2>5, <2>6
<1>3. /\ prune'.stage = "None" => prune'.outcome = "None"
      /\ \A d \in Days : BeingDeleted(d)' <=> BeingDeleted(d)
  <2>1. CASE \E pruned \in PrunedDays : Delete(pruned)
    BY <2>1, StartedDelete DEF Delete
  <2>2. CASE UNCHANGED prune
    BY <2>2 DEF Tracked, BeingDeleted
  <2>3. QED
    BY <2>1, <2>2 DEF Unload, Backfill, CancelBackfill, ChangeHost, BeginShutdown
<1>4. QED
  BY <1>1, <1>2, <1>3, QuietKeepsTracked

\* A day stored while a delete covers it is in flight, so it is crossed.
LEMMA IngestKeepsTracked ==
    ASSUME Dispatch, Typed, Tracked, Cross, NEW f \in Days, Ingest(f)
    PROVE  Tracked'
<1>1. f = days.in_flight /\ messages = <<>>
  BY IngestReports
<1>2. UNCHANGED <<days, archived_days, prune>>
  BY DEF Ingest
<1>3. PICK outcome \in Outcomes :
        /\ messages' = <<[day |-> f, outcome |-> outcome]>>
        /\ \/ outcome = "Stored" /\ Stores(f)
           \/ outcome # "Stored" /\ archive' = archive
  <2>1. \/ Stores(f) /\ messages' = Append(messages, [day |-> f, outcome |-> "Stored"])
        \/ \E o \in {"Failed", "Missing", "Rejected"} :
              archive' = archive /\ messages' = Append(messages, [day |-> f, outcome |-> o])
    BY DEF Ingest, Answer
  <2>2. QED
    BY <1>1, <2>1 DEF Outcomes
<1>4. \A d \in Days : d # f => archive'[d] = archive[d]
  BY <1>3 DEF Stores, Typed
<1>5. outcome = "Stored" => archive'[f] # "Absent"
  BY <1>3 DEF Stores, Published, Typed
<1>6. \A d : Reported(d)' <=> d = f /\ outcome = "Stored"
  BY <1>3 DEF Reported
<1>7. \A d : ~Reported(d)
  BY <1>1 DEF Reported
<1>8. ASSUME NEW d \in Days \ crossed'
      PROVE  /\ BeingDeleted(d)' => archive'[d] = "Absent"
             /\ Reported(d)' => archive'[d] # "Absent"
             /\ StoredDayIsIndexed(d)'
             /\ IndexedDayIsStored(d)'
  <2>1. d \in Days \ crossed
    BY DEF Cross
  <2>2. /\ BeingDeleted(d) => archive[d] = "Absent"
        /\ StoredDayIsIndexed(d)
        /\ IndexedDayIsStored(d)
    BY <2>1 DEF Tracked
  <2>3. BeingDeleted(d)' <=> BeingDeleted(d)
    BY <1>2 DEF BeingDeleted
  <2>4. CASE d # f
    <3>1. archive'[d] = archive[d] /\ ~Reported(d)' /\ ~Reported(d)
      BY <1>4, <1>6, <1>7, <2>4
    <3>2. StoredDayIsIndexed(d)'
      BY <1>2, <2>2, <3>1 DEF StoredDayIsIndexed
    <3>3. IndexedDayIsStored(d)'
      BY <1>2, <2>2, <2>3, <3>1 DEF IndexedDayIsStored
    <3>4. QED
      BY <2>2, <2>3, <3>1, <3>2, <3>3
  <2>5. CASE d = f
    <3>1. ~BeingDeleted(d)
      <4>1. prune.stage # "None" => d \notin prune.days
        BY <1>1, <1>2, <2>5 DEF Cross
      <4>2. QED
        BY <4>1 DEF BeingDeleted, Tracked
    <3>2. CASE outcome = "Stored"
      <4>1. archive'[d] # "Absent" /\ Reported(d)'
        BY <1>5, <1>6, <2>5, <3>2
      <4>2. StoredDayIsIndexed(d)' /\ IndexedDayIsStored(d)'
        BY <4>1 DEF StoredDayIsIndexed, IndexedDayIsStored
      <4>3. QED
        BY <2>3, <3>1, <4>1, <4>2
    <3>3. CASE outcome # "Stored"
      <4>1. archive' = archive /\ ~Reported(d)' /\ ~Reported(d)
        BY <1>3, <1>6, <1>7, <3>3
      <4>2. StoredDayIsIndexed(d)'
        BY <1>2, <2>2, <4>1 DEF StoredDayIsIndexed
      <4>3. IndexedDayIsStored(d)'
        BY <1>2, <2>2, <2>3, <4>1 DEF IndexedDayIsStored
      <4>4. QED
        BY <2>3, <3>1, <4>1, <4>2, <4>3
    <3>4. QED
      BY <3>2, <3>3
  <2>6. QED
    BY <2>4, <2>5
<1>9. QED
  BY <1>2, <1>8 DEF Tracked

\* A deleted day whose report waits in the channel is in flight, so it is
\* crossed.
LEMMA DeleteKeepsTracked ==
    ASSUME Dispatch, Typed, Tracked, Cross, DeleteDays
    PROVE  Tracked'
<1>1. UNCHANGED <<days, archived_days, messages>> /\ prune.stage = "Running"
  BY DEF DeleteDays
<1>2. CASE prune' = [prune EXCEPT !.outcome = "Kept"] /\ archive' = archive
  <2>1. prune.outcome = "None"
    BY DEF DeleteDays
  <2>2. prune'.stage = "Running" /\ prune'.outcome = "Kept"
    BY <1>1, <1>2 DEF Typed, Prunes
  <2>3. \A d \in Days : ~BeingDeleted(d) /\ ~BeingDeleted(d)'
    BY <2>1, <2>2 DEF BeingDeleted
  <2>4. QED
    BY <1>1, <1>2, <2>2, <2>3, QuietKeepsTracked
<1>3. CASE /\ archive' = [d \in Days |-> IF d \in prune.days THEN "Absent" ELSE archive[d]]
           /\ prune' = [prune EXCEPT !.outcome = "Removed"]
  <2>1. /\ prune'.stage = "Running" /\ prune'.outcome = "Removed"
        /\ prune'.days = prune.days
    BY <1>1, <1>3 DEF Typed, Prunes
  <2>2. prune.outcome = "None"
    BY DEF DeleteDays
  <2>3. \A d : Reported(d)' <=> Reported(d)
    BY <1>1 DEF Reported
  <2>4. ASSUME NEW d \in Days \ crossed'
        PROVE  /\ BeingDeleted(d)' => archive'[d] = "Absent"
               /\ Reported(d)' => archive'[d] # "Absent"
               /\ StoredDayIsIndexed(d)'
               /\ IndexedDayIsStored(d)'
    <3>1. d \in Days \ crossed /\ (d \in prune.days => d # days.in_flight)
      BY <1>1, <2>1 DEF Cross
    <3>2. /\ Reported(d) => archive[d] # "Absent"
          /\ StoredDayIsIndexed(d)
          /\ IndexedDayIsStored(d)
      BY <3>1 DEF Tracked
    <3>3. ~BeingDeleted(d) /\ (BeingDeleted(d)' <=> d \in prune.days)
      BY <2>1, <2>2 DEF BeingDeleted
    <3>4. Reported(d) => d = days.in_flight
      BY DEF Reported, Dispatch, InOnePlace
    <3>5. CASE d \in prune.days
      <4>1. archive'[d] = "Absent" /\ ~Reported(d)'
        BY <1>3, <2>3, <3>1, <3>4, <3>5
      <4>2. StoredDayIsIndexed(d)' /\ IndexedDayIsStored(d)'
        BY <3>3, <3>5, <4>1 DEF StoredDayIsIndexed, IndexedDayIsStored
      <4>3. QED
        BY <4>1, <4>2
    <3>6. CASE d \notin prune.days
      <4>1. archive'[d] = archive[d]
        BY <1>3, <3>6
      <4>2. StoredDayIsIndexed(d)'
        BY <1>1, <2>3, <3>2, <4>1 DEF StoredDayIsIndexed
      <4>3. IndexedDayIsStored(d)'
        BY <1>1, <3>2, <3>3, <4>1 DEF IndexedDayIsStored
      <4>4. QED
        BY <2>3, <3>2, <3>3, <3>6, <4>1, <4>2, <4>3
    <3>7. QED
      BY <3>5, <3>6
  <2>5. QED
    BY <2>1, <2>4 DEF Tracked
<1>4. QED
  BY <1>2, <1>3 DEF DeleteDays

LEMMA ReportDeleteKeepsTracked ==
    ASSUME Dispatch, Typed, Tracked, Cross, ReportDelete
    PROVE  Tracked'
<1>1. UNCHANGED <<days, archive, archived_days, messages>>
  BY DEF ReportDelete
<1>2. /\ prune'.stage = "Reported" /\ prune'.outcome = prune.outcome
      /\ prune'.days = prune.days
  BY DEF ReportDelete, Typed, Prunes
<1>3. \A d \in Days : BeingDeleted(d)' <=> BeingDeleted(d)
  BY <1>2 DEF BeingDeleted
<1>4. QED
  BY <1>1, <1>2, <1>3, QuietKeepsTracked

LEMMA PollKeepsTracked ==
    ASSUME Dispatch, Typed, Tracked, Cross, Poll
    PROVE  Tracked'
<1> DEFINE message == messages[1]
<1>1. /\ message \in [day : Days, outcome : Outcomes]
      /\ Len(messages) = 1 /\ messages' = <<>> /\ Head(messages) = message
  BY PollSettles
<1>2. /\ archived_days' = IF message.outcome = "Stored"
                          THEN archived_days \cup {message.day} ELSE archived_days
      /\ UNCHANGED <<archive, prune>>
  BY <1>1 DEF Poll
<1>3. \A d : Reported(d) <=> message = [day |-> d, outcome |-> "Stored"]
  BY <1>1 DEF Reported
<1>4. \A d : ~Reported(d)'
  BY <1>1 DEF Reported
<1>5. \A d : d \in archived_days' <=> d \in archived_days \/ Reported(d)
  <2>1. \A d : Reported(d) <=> message.outcome = "Stored" /\ message.day = d
    BY <1>1, <1>3
  <2> HIDE DEF message
  <2>2. QED
    BY <1>2, <2>1
<1>6. ASSUME NEW d \in Days \ crossed'
      PROVE  /\ BeingDeleted(d)' => archive'[d] = "Absent"
             /\ StoredDayIsIndexed(d)'
             /\ IndexedDayIsStored(d)'
  <2>1. d \in Days \ crossed
    BY DEF Cross
  <2>2. /\ BeingDeleted(d) => archive[d] = "Absent"
        /\ Reported(d) => archive[d] # "Absent"
        /\ StoredDayIsIndexed(d)
        /\ IndexedDayIsStored(d)
    BY <2>1 DEF Tracked
  <2>3. BeingDeleted(d)' <=> BeingDeleted(d)
    BY <1>2 DEF BeingDeleted
  <2>4. StoredDayIsIndexed(d)'
    BY <1>2, <1>5, <2>2 DEF StoredDayIsIndexed
  <2>5. days'.recording_days[d] = "Archived" =>
            days.recording_days[d] = "Archived" \/ Reported(d)
    BY <1>3, <2>1, PollEffect
  <2>6. IndexedDayIsStored(d)'
    BY <1>2, <1>5, <2>2, <2>3, <2>5 DEF IndexedDayIsStored
  <2>7. QED
    BY <1>2, <2>2, <2>3, <2>4, <2>6
<1>7. QED
  BY <1>2, <1>4, <1>6 DEF Tracked

\* What the delete removed leaves the index and the counts before the days are
\* requested again.
LEMMA PollPruneKeepsTracked ==
    ASSUME Dispatch, Typed, Tracked, Cross, PollPrune
    PROVE  Tracked'
<1>1. UNCHANGED <<archive, messages>> /\ prune' = NoPrune
  BY DEF PollPrune
<1>2. \A d : Reported(d)' <=> Reported(d)
  BY <1>1 DEF Reported
<1>3. \A d : ~BeingDeleted(d)'
  BY <1>1 DEF BeingDeleted, NoPrune
<1>4. PICK q \in Queues, answer \in Readings :
        /\ q.in_flight = days.in_flight
        /\ request_days_of_loaded(q, answer)
        /\ archived_days' = {d \in archived_days : ~BeingDeleted(d)}
        /\ \A d \in Days : q.recording_days[d] = "Archived" =>
              days.recording_days[d] = "Archived" /\ ~BeingDeleted(d)
  <2>1. PICK answer \in Readings :
          IF prune.outcome = "Removed"
          THEN /\ archived_days' = KnownAfter(prune.days)
               /\ request_days_of_loaded(ForgetPruned(days, prune.days), answer)
          ELSE /\ UNCHANGED archived_days
               /\ request_days_of_loaded(days, answer)
    BY DEF PollPrune
  <2>2. CASE prune.outcome = "Removed"
    <3> DEFINE q == forget_pruned_days(days, prune.days)
    <3>1. q \in Queues /\ q.in_flight = days.in_flight
      BY ForgetPrunedIsQueue DEF Dispatch
    <3>2. archived_days' = {d \in archived_days : ~BeingDeleted(d)}
      BY <2>1, <2>2 DEF KnownAfter, BeingDeleted
    <3>3. \A d \in Days : q.recording_days[d] = "Archived" =>
              days.recording_days[d] = "Archived" /\ ~BeingDeleted(d)
      BY DEF forget_pruned_days, BeingDeleted, Dispatch, Queues
    <3>4. request_days_of_loaded(q, answer)
      BY <2>1, <2>2 DEF ForgetPruned
    <3> HIDE DEF q
    <3>5. QED
      BY <3>1, <3>2, <3>3, <3>4
  <2>3. CASE prune.outcome # "Removed"
    <3>1. \A d : ~BeingDeleted(d)
      BY <2>3 DEF BeingDeleted
    <3>2. archived_days' = {d \in archived_days : ~BeingDeleted(d)}
      BY <2>1, <2>3, <3>1
    <3>3. days \in Queues /\ request_days_of_loaded(days, answer)
      BY <2>1, <2>3 DEF Dispatch
    <3>4. QED
      BY <3>1, <3>2, <3>3
  <2>4. QED
    BY <2>2, <2>3
<1>5. PICK around \in SUBSET Days, listing \in Seq(Days) :
        start_next(RequestDays(q, UNION loaded, around, answer, listing))
  BY <1>4, LoadedRequests DEF Typed
<1>6. UNION loaded \subseteq Days
  BY RecordingsAssumption DEF Typed
<1>7. \A d \in Days : days'.recording_days[d] = "Archived" =>
          archive[d] # "Absent" \/ q.recording_days[d] = "Archived"
  BY <1>4, <1>5, <1>6, RequestedEffect
<1>8. ASSUME NEW d \in Days \ crossed'
      PROVE  /\ Reported(d)' => archive'[d] # "Absent"
             /\ StoredDayIsIndexed(d)'
             /\ IndexedDayIsStored(d)'
  <2>1. d \in Days \ crossed
    BY DEF Cross
  <2>2. /\ BeingDeleted(d) => archive[d] = "Absent"
        /\ Reported(d) => archive[d] # "Absent"
        /\ StoredDayIsIndexed(d)
        /\ IndexedDayIsStored(d)
    BY <2>1 DEF Tracked
  <2>3. StoredDayIsIndexed(d)'
    BY <1>1, <1>2, <1>4, <2>2 DEF StoredDayIsIndexed
  <2>4. IndexedDayIsStored(d)'
    BY <1>1, <1>3, <1>4, <1>7, <2>1, <2>2 DEF IndexedDayIsStored
  <2>5. QED
    BY <1>1, <1>2, <2>2, <2>3, <2>4
<1>9. QED
  BY <1>1, <1>3, <1>8 DEF Tracked, NoPrune

-----------------------------------------------------------------------------
LEMMA PrunedDaysAreDays == PrunedDays \subseteq SUBSET Days
BY LastDayAssumption DEF PrunedDays, Days

LEMMA StartedDeleteIsPrune ==
    ASSUME prune \in Prunes, NEW pruned \in SUBSET Days, start_environment_prune(pruned)
    PROVE  prune' \in Prunes
BY DEF start_environment_prune, Prunes

LEMMA AutoPruneIsPrune ==
    ASSUME prune \in Prunes, NEW q, NEW cutoff \in AutoPruneCutoffs(q),
           start_environment_prune(1 .. (cutoff - 1))
    PROVE  prune' \in Prunes
<1>1. 1 .. (cutoff - 1) \in SUBSET Days
  BY BoundsAssumption, LastDayAssumption DEF AutoPruneCutoffs, Days
<1>2. QED
  BY <1>1, StartedDeleteIsPrune

LEMMA RequestsGoDown ==
    ASSUME requests \in 0 .. Requests, UserRequest
    PROVE  requests' \in 0 .. Requests
BY BoundsAssumption DEF UserRequest

LEMMA CrossedAreDays ==
    ASSUME crossed \subseteq Days, prune' \in Prunes, Cross
    PROVE  crossed' \subseteq Days
BY DEF Cross, Prunes

\* What the user does, and shutdown, types.
LEMMA UserKeepsTyped ==
    ASSUME Dispatch, Typed, Cross, UserStep
    PROVE  Typed'
<1>1. prune' \in Prunes
  <2>1. CASE \E r \in Recordings : Load(r)
    BY <2>1, AutoPruneIsPrune DEF Typed, Load
  <2>2. CASE \E pruned \in PrunedDays : Delete(pruned)
    BY <2>2, PrunedDaysAreDays, StartedDeleteIsPrune DEF Typed, Delete
  <2>3. CASE UNCHANGED prune
    BY <2>3 DEF Typed
  <2>4. QED
    BY <2>1, <2>2, <2>3
    DEF UserStep, Unload, Backfill, CancelBackfill, ChangeHost, BeginShutdown
<1>2. crossed' \subseteq Days
  BY <1>1, CrossedAreDays DEF Typed
<1>3. requests' \in 0 .. Requests
  <2>1. CASE UserRequest
    BY <2>1, RequestsGoDown DEF Typed
  <2>2. CASE UNCHANGED requests
    BY <2>2 DEF Typed
  <2>3. QED
    BY <2>1, <2>2
    DEF UserStep, Load, Unload, Backfill, CancelBackfill, ChangeHost, Delete, BeginShutdown
<1>4. loaded' \subseteq Recordings
  BY DEF Typed, UserStep, Load, Unload, Backfill, CancelBackfill, ChangeHost,
         Delete, BeginShutdown
<1>5. rejecting' \in BOOLEAN
  BY DEF Typed, UserStep, Load, Unload, Backfill, CancelBackfill, ChangeHost,
         Delete, BeginShutdown
<1>6. UNCHANGED <<source, archive, archived_days>>
  BY DEF UserStep, Load, Unload, Backfill, CancelBackfill, ChangeHost, Delete,
         BeginShutdown
<1>7. QED
  BY <1>1, <1>2, <1>3, <1>4, <1>5, <1>6 DEF Typed

LEMMA ThreadsKeepTyped ==
    ASSUME Dispatch, Typed, Cross,
           (\E d \in Days : Ingest(d)) \/ DeleteStep \/ Poll \/ PollPrune
    PROVE  Typed'
<1>1. prune' \in Prunes
  <2>1. CASE DeleteDays
    BY <2>1 DEF DeleteDays, Typed, Prunes
  <2>2. CASE ReportDelete
    BY <2>2 DEF ReportDelete, Typed, Prunes
  <2>3. CASE PollPrune
    BY <2>3 DEF PollPrune, NoPrune, Prunes
  <2>4. CASE UNCHANGED prune
    BY <2>4 DEF Typed
  <2>5. QED
    BY <2>1, <2>2, <2>3, <2>4 DEF DeleteStep, Ingest, Poll
<1>2. crossed' \subseteq Days
  BY <1>1, CrossedAreDays DEF Typed
<1>3. archive' \in [Days -> Holdings]
  <2>1. CASE DeleteDays
    <3>1. "Absent" \in Holdings
      BY DEF Holdings
    <3>2. QED
      BY <2>1, <3>1 DEF DeleteDays, Typed
  <2>2. CASE \E d \in Days : Ingest(d)
    <3>1. Published \subseteq Holdings
      BY DEF Published, Holdings
    <3>2. QED
      BY <2>2, <3>1 DEF Ingest, Answer, Stores, Typed
  <2>3. CASE UNCHANGED archive
    BY <2>3 DEF Typed
  <2>4. QED
    BY <2>1, <2>2, <2>3 DEF DeleteStep, ReportDelete, Poll, PollPrune
<1>4. archived_days' \subseteq Days
  <2>1. CASE Poll
    <3>1. Head(messages) \in [day : Days, outcome : Outcomes]
      BY <2>1, PollSettles
    <3>2. Head(messages).day \in Days
      BY <3>1
    <3>3. QED
      BY <2>1, <3>2 DEF Poll, Typed
  <2>2. CASE PollPrune
    BY <2>2 DEF PollPrune, KnownAfter, Typed
  <2>3. CASE UNCHANGED archived_days
    BY <2>3 DEF Typed
  <2>4. QED
    BY <2>1, <2>2, <2>3 DEF DeleteStep, DeleteDays, ReportDelete, Ingest
<1>5. UNCHANGED <<source, loaded, rejecting, requests>>
  BY DEF Ingest, DeleteStep, DeleteDays, ReportDelete, Poll, PollPrune
<1>6. QED
  BY <1>1, <1>2, <1>3, <1>4, <1>5 DEF Typed

-----------------------------------------------------------------------------
LEMMA InitHasIInv == Init => IInv
<1> SUFFICES ASSUME Init PROVE IInv
  OBVIOUS
<1>1. days \in Queues /\ days.in_flight = NoDay /\ days.queue = <<>>
  <2>1. "Uncounted" \in Coverage
    BY DEF Coverage
  <2>2. QED
    BY <2>1 DEF Init, EmptyQueue, Queues
<1>2. Dispatch
  <2>1. messages \in Seq([day : Days, outcome : Outcomes])
    BY DEF Init
  <2>2. QED
    BY <1>1, <2>1 DEF Init, Dispatch, InOnePlace, HasNextDay
<1>3. Typed
  <2>1. {"Absent"} \cup Published \subseteq Holdings
    BY DEF Published, Holdings
  <2>2. prune \in Prunes
    BY DEF Init, NoPrune, Prunes
  <2>3. archive \in [Days -> Holdings]
    BY <2>1 DEF Init
  <2>4. requests \in 0 .. Requests
    BY BoundsAssumption DEF Init
  <2>5. QED
    BY <2>2, <2>3, <2>4 DEF Init, Typed
<1>4. Tracked
  <2>1. \A d : ~Reported(d) /\ ~BeingDeleted(d)
    BY DEF Init, Reported, BeingDeleted, NoPrune
  <2>2. \A d \in Days : days.recording_days[d] # "Archived"
    BY DEF Init, EmptyQueue
  <2>3. \A d \in Days : StoredDayIsIndexed(d) /\ IndexedDayIsStored(d)
    BY <2>2 DEF Init, StoredDayIsIndexed, IndexedDayIsStored
  <2>4. QED
    BY <2>1, <2>3 DEF Init, Tracked, NoPrune
<1>5. QED
  BY <1>2, <1>3, <1>4 DEF IInv

\* The steps of the user, one by one.
LEMMA UserKeepsDispatch ==
    ASSUME Dispatch, UserStep PROVE Dispatch'
<1>1. ASSUME NEW r \in Recordings, Load(r) PROVE Dispatch'
  <2>1. PICK answer \in Readings, listing \in Seq(Days) :
          start_next(RequestDays(days, r, Around(r), answer, listing))
    BY <1>1, LoadRequests
  <2>2. days \in Queues /\ r \subseteq Days /\ Around(r) \subseteq Days
    BY RecordingsAssumption, AroundAreDays DEF Dispatch
  <2>3. UNCHANGED <<messages, rejecting>>
    BY <1>1 DEF Load
  <2>4. QED
    BY <2>1, <2>2, <2>3, RequestKeepsDispatch
<1>2. ASSUME NEW r \in Recordings, Unload(r) PROVE Dispatch'
  BY <1>2 DEF Unload, Dispatch
<1>3. ASSUME NEW first \in Days, NEW last \in Days, Backfill(first, last)
      PROVE  Dispatch'
  BY <1>3, BackfillKeepsDispatch
<1>4. ASSUME NEW pruned \in PrunedDays, Delete(pruned) PROVE Dispatch'
  BY <1>4 DEF Delete, Dispatch
<1>5. CASE BeginShutdown
  BY <1>5 DEF BeginShutdown, Dispatch
<1>6. QED
  BY <1>1, <1>2, <1>3, <1>4, <1>5, CancelKeepsDispatch, ChangeHostKeepsDispatch
  DEF UserStep

LEMMA DeleteKeepsDispatch ==
    ASSUME Dispatch, DeleteStep PROVE Dispatch'
BY DEF DeleteStep, DeleteDays, ReportDelete, Dispatch

LEMMA NextKeepsIInv == IInv /\ [Next]_vars => IInv'
<1> SUFFICES ASSUME IInv, [Next]_vars PROVE IInv'
  OBVIOUS
<1>1. Dispatch /\ Typed /\ Tracked
  BY DEF IInv
<1>2. CASE UserStep /\ Cross
  <2>1. Dispatch' /\ Typed'
    BY <1>1, <1>2, UserKeepsDispatch, UserKeepsTyped
  <2>2. Tracked'
    BY <1>1, <1>2, LoadKeepsTracked, UserKeepsTracked DEF UserStep
  <2>3. QED
    BY <2>1, <2>2 DEF IInv
<1>3. CASE (\E d \in Days : Ingest(d)) /\ Cross
  BY <1>1, <1>3, IngestKeepsDispatch, ThreadsKeepTyped, IngestKeepsTracked DEF IInv
<1>4. CASE DeleteStep /\ Cross
  <2>1. Dispatch' /\ Typed'
    BY <1>1, <1>4, DeleteKeepsDispatch, ThreadsKeepTyped
  <2>2. Tracked'
    BY <1>1, <1>4, DeleteKeepsTracked, ReportDeleteKeepsTracked DEF DeleteStep
  <2>3. QED
    BY <2>1, <2>2 DEF IInv
<1>5. CASE Poll /\ Cross
  BY <1>1, <1>5, PollKeepsDispatch, ThreadsKeepTyped, PollKeepsTracked DEF IInv
<1>6. CASE PollPrune /\ Cross
  <2>1. loaded \subseteq Recordings
    BY <1>1 DEF Typed
  <2>2. QED
    BY <1>1, <1>6, <2>1, PollPruneKeepsDispatch, ThreadsKeepTyped,
       PollPruneKeepsTracked DEF IInv
<1>7. CASE UNCHANGED vars
  <2>1. Dispatch' /\ Typed'
    BY <1>1, <1>7 DEF vars, Dispatch, Typed
  <2>2. \A d : /\ Reported(d)' <=> Reported(d)
               /\ BeingDeleted(d)' <=> BeingDeleted(d)
               /\ StoredDayIsIndexed(d)' <=> StoredDayIsIndexed(d)
               /\ IndexedDayIsStored(d)' <=> IndexedDayIsStored(d)
    BY <1>7 DEF vars, Reported, BeingDeleted, StoredDayIsIndexed, IndexedDayIsStored
  <2>3. Tracked'
    BY <1>1, <1>7, <2>2 DEF vars, Tracked
  <2>4. QED
    BY <2>1, <2>3 DEF IInv
<1>8. QED
  BY <1>2, <1>3, <1>4, <1>5, <1>6, <1>7 DEF Next

LEMMA SpecHasIInv == Spec => []IInv
BY InitHasIInv, NextKeepsIInv, PTL DEF Spec

-----------------------------------------------------------------------------
\* Type correctness, for every number of days and every recording.
THEOREM TypeCorrect == Spec => []TypeOK
<1>1. IInv => TypeOK
  BY DEF IInv, Dispatch, Typed, TypeOK
<1>2. QED
  BY <1>1, SpecHasIInv, PTL

\* take_next_day hands out a day only while none is in flight, and the day stays
\* in flight through every cancellation, change of host and delete, so the host
\* has one request at a time.
THEOREM OneRequestAtATime == Spec => []OneFetchAtATime
<1>1. IInv => OneFetchAtATime
  BY DispatchIsOneFetch DEF IInv
<1>2. QED
  BY <1>1, SpecHasIInv, PTL

\* The index, the counts and the file agree about every day that no delete
\* covered while it was fetched (forget_pruned_days after every delete, the
\* insert of poll after every fetch).
THEOREM IndexIsTrueOfUncrossedDays == Spec => []OnlyCrossedDaysGoStale
<1>1. IInv => OnlyCrossedDaysGoStale
  BY DEF IInv, Tracked, OnlyCrossedDaysGoStale
<1>2. QED
  BY <1>1, SpecHasIInv, PTL

\* No load, report, delete or shutdown leaves a recording's day awaited that is
\* not requested; only a change of host, and the backfill that held it, do.
THEOREM OnlyHostsAndBackfillsStrandDays == Spec => OnlyHostsAndBackfillsStrand
<1> DEFINE A == \A d \in Days : ~Stranded(d) /\ Stranded(d)'
                    => d \in days.backfill \/ days' = forget_host(days)
<1>1. ASSUME IInv, Next PROVE A
  <2> SUFFICES ASSUME NEW d \in Days, ~Stranded(d), Stranded(d)',
                      d \notin days.backfill, days' # forget_host(days)
               PROVE  FALSE
    OBVIOUS
  <2>1. Dispatch /\ Typed /\ loaded \subseteq Recordings
    BY <1>1 DEF IInv, Typed
  <2>2. /\ d \in UNION loaded' /\ days'.recording_days[d] = "Awaited"
        /\ d \notin days'.requested
    BY DEF Stranded
  <2>3. ~(/\ d \in UNION loaded /\ days.recording_days[d] = "Awaited"
          /\ d \notin days.requested)
    BY DEF Stranded
  <2>4. ASSUME NEW r \in Recordings, Load(r) PROVE FALSE
    <3>1. PICK answer \in Readings, listing \in Seq(Days) :
            start_next(RequestDays(days, r, Around(r), answer, listing))
      BY <2>1, <2>4, LoadRequests
    <3>2. days \in Queues /\ r \subseteq Days /\ Around(r) \subseteq Days
      BY <2>1, RecordingsAssumption, AroundAreDays DEF Dispatch
    <3>3. /\ d \notin r /\ days.recording_days[d] = "Awaited"
          /\ days.requested \subseteq days'.requested
      BY <2>1, <2>2, <3>1, <3>2, RequestedEffect
    <3>4. d \in UNION loaded
      BY <2>2, <2>4, <3>3 DEF Load
    <3>5. QED
      BY <2>2, <2>3, <3>3, <3>4
  <2>5. ASSUME NEW first \in Days, NEW last \in Days, Backfill(first, last)
        PROVE  FALSE
    <3>1. /\ days'.recording_days = days.recording_days
          /\ days.requested \ days.backfill \subseteq days'.requested
      BY <2>1, <2>5, BackfillEffect
    <3>2. loaded' = loaded
      BY <2>5 DEF Backfill
    <3>3. QED
      BY <2>2, <2>3, <3>1, <3>2
  <2>6. CASE CancelBackfill
    <3>1. /\ days'.recording_days = days.recording_days
          /\ days.requested \ days.backfill \subseteq days'.requested
          /\ loaded' = loaded
      BY <2>1, <2>6 DEF CancelBackfill, cancel_backfill, Dispatch, Queues
    <3>2. QED
      BY <2>2, <2>3, <3>1
  <2>7. CASE ChangeHost
    BY <2>7 DEF ChangeHost
  <2>8. CASE Poll
    <3>1. loaded' = loaded
      BY <2>8 DEF Poll
    <3>2. QED
      BY <2>1, <2>2, <2>3, <2>8, <3>1, PollEffect
  <2>9. CASE PollPrune
    <3>1. PICK answer \in Readings, q \in Queues :
            q.in_flight = days.in_flight /\ request_days_of_loaded(q, answer)
      BY <2>1, <2>9, ForgetPrunedIsQueue DEF PollPrune, ForgetPruned, Dispatch
    <3>2. PICK around \in SUBSET Days, listing \in Seq(Days) :
            start_next(RequestDays(q, UNION loaded, around, answer, listing))
      BY <2>1, <3>1, LoadedRequests
    <3>3. UNION loaded \subseteq Days
      BY <2>1, RecordingsAssumption
    <3>4. d \in days'.requested \/ d \notin UNION loaded
      BY <2>1, <2>2, <3>1, <3>2, <3>3, RequestedEffect
    <3>5. loaded' = loaded
      BY <2>9 DEF PollPrune
    <3>6. QED
      BY <2>2, <3>4, <3>5
  <2>10. CASE \E r \in Recordings : Unload(r)
    <3>1. days' = days /\ loaded' \subseteq loaded
      BY <2>10 DEF Unload
    <3>2. QED
      BY <2>2, <2>3, <3>1
  <2>11. CASE UNCHANGED <<days, loaded>>
    BY <2>2, <2>3, <2>11
  <2>12. QED
    BY <1>1, <2>4, <2>5, <2>6, <2>7, <2>8, <2>9, <2>10, <2>11
    DEF Next, UserStep, Delete, BeginShutdown, DeleteStep, DeleteDays, ReportDelete, Ingest
<1>2. IInv /\ [Next]_vars => [A]_vars
  BY <1>1
<1> HIDE DEF A
<1>3. Spec => [][A]_vars
  BY <1>2, SpecHasIInv, PTL DEF Spec
<1>4. QED
  BY <1>3 DEF A, OnlyHostsAndBackfillsStrand
=============================================================================
