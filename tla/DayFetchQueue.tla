---------------------------- MODULE DayFetchQueue ----------------------------
(***************************************************************************)
(* The day queue every environment scheduler runs on, as operators on one  *)
(* value: DayFetchQueue of src/src/app/day_fetch_queue.rs with the         *)
(* DayArchiveCoverage and the PendingBackfill it holds.                    *)
(*                                                                         *)
(* Failures are the set of days listed, without their wording.  A backfill *)
(* is the set of its pending days: start_backfill keeps none that queued   *)
(* nothing, and finish_day drops one that has no day left, so the empty    *)
(* set is the absent one.                                                  *)
(***************************************************************************)
EXTENDS Integers, Sequences, FiniteSets

CONSTANTS
    LastDay,    \* the days are 1 .. LastDay, in calendar order
    NoDay       \* nothing is in flight

ASSUME LastDayAssumption == LastDay \in Nat \ {0}
ASSUME NoDayAssumption == NoDay \notin 1 .. LastDay

Days == 1 .. LastDay

\* DayArchiveState, or that the day is not in the map.
Coverage == {"Uncounted", "Archived", "Awaited"}

\* What needs_fetch reads in the archive: Ok(false), Ok(true) or an error.
Answers == {"Held", "Wanted", "Unreadable"}

Queues == [queue : Seq(Days), requested : SUBSET Days,
           in_flight : Days \cup {NoDay}, failures : SUBSET Days,
           recording_days : [Days -> Coverage],
           background_days : [Days -> Coverage],
           backfill : SUBSET Days]

EmptyQueue == [queue |-> <<>>, requested |-> {}, in_flight |-> NoDay,
               failures |-> {},
               recording_days |-> [d \in Days |-> "Uncounted"],
               background_days |-> [d \in Days |-> "Uncounted"],
               backfill |-> {}]

Queued(q) == {q.queue[i] : i \in DOMAIN q.queue}
Counted(coverage) == {d \in Days : coverage[d] # "Uncounted"}

\* The one sequence of a set of days in calendar order (a set with one
\* member), and the sequences of it in any order.
Listings(S) == {s \in [1 .. Cardinality(S) -> S] : {s[i] : i \in DOMAIN s} = S}
Ascending(S) == {s \in Listings(S) :
                    \A i, j \in DOMAIN s : i < j => s[i] < s[j]}

-----------------------------------------------------------------------------
\* request_recording_day of every day of days, then request_background_day of
\* every day around them.  listing holds the days queue_day appends, in the
\* order the calls reach them.
Asked(q, days, around) == days \cup {d \in around \ days :
                                        q.recording_days[d] = "Uncounted"}

NewlyQueued(q, asked, answer) ==
    {d \in asked : answer[d] = "Wanted" /\ d \notin q.requested}

CountedAs(answer) == IF answer = "Held" THEN "Archived" ELSE "Awaited"

RequestDays(q, days, around, answer, listing) ==
    LET asked == Asked(q, days, around)
        unread == {d \in asked : answer[d] = "Unreadable"} \ q.requested
    IN [q EXCEPT
          !.queue = @ \o listing,
          !.requested = @ \cup NewlyQueued(q, asked, answer) \cup unread,
          !.failures = @ \cup unread,
          !.recording_days =
              [d \in Days |-> IF d \in days THEN CountedAs(answer[d]) ELSE @[d]],
          !.background_days =
              [d \in Days |-> CASE d \in days -> "Uncounted"
                                [] d \in asked \ days -> CountedAs(answer[d])
                                [] OTHER -> @[d]]]

-----------------------------------------------------------------------------
\* retain: the one sequence left of s without the days of gone.
Retained(s, gone) ==
    LET kept == {i \in DOMAIN s : s[i] \notin gone}
    IN {[k \in DOMAIN order |-> s[order[k]]] : order \in Ascending(kept)}

\* cancel_backfill: the day in flight stays requested.  rest is the queue
\* without the days of the backfill.
cancel_backfill(q, rest) ==
    [q EXCEPT !.queue = rest,
              !.requested = @ \ (q.backfill \ {q.in_flight}),
              !.backfill = {}]

\* start_backfill, on a queue whose running backfill is already cancelled.
\* Every day of the range becomes requested, the archived ones included.
start_backfill(q, days, answer, listing) ==
    LET fresh == days \ q.requested
    IN [q EXCEPT !.queue = @ \o listing,
                 !.requested = @ \cup days,
                 !.failures = @ \cup {d \in fresh : answer[d] = "Unreadable"},
                 !.backfill = NewlyQueued(q, days, answer)]

mark_archived(q, day) ==
    LET Mark(coverage) == IF coverage[day] = "Uncounted" THEN coverage
                          ELSE [coverage EXCEPT ![day] = "Archived"]
    IN [q EXCEPT !.recording_days = Mark(@), !.background_days = Mark(@)]

report_failure(q, day) == [q EXCEPT !.failures = @ \cup {day}]

HasNextDay(q) == q.in_flight = NoDay /\ q.queue # <<>>
take_next_day(q) == [q EXCEPT !.in_flight = Head(q.queue), !.queue = Tail(@)]

\* Slip: the reported day is left in the backfill.
finish_day_NotRetired(q, day) == [q EXCEPT !.in_flight = NoDay]

finish_day(q, day) == [q EXCEPT !.in_flight = NoDay, !.backfill = @ \ {day}]

\* Slip: the day in flight is dropped with the rest.
forget_host_InFlightToo(q) == [q EXCEPT !.queue = <<>>, !.requested = {},
                                        !.failures = {}, !.backfill = {},
                                        !.in_flight = NoDay]

\* forget_host: what is in flight, and what is counted, stay.
forget_host(q) == [q EXCEPT !.queue = <<>>, !.requested = {},
                            !.failures = {}, !.backfill = {}]

\* forget_pruned_days: the queue itself is left as it is.
forget_pruned_days(q, pruned) ==
    LET Unmark(coverage) ==
            [d \in Days |-> IF d \in pruned /\ coverage[d] # "Uncounted"
                            THEN "Awaited" ELSE coverage[d]]
    IN [q EXCEPT !.requested = @ \ (pruned \ {q.in_flight}),
                 !.failures = @ \ pruned,
                 !.recording_days = Unmark(@),
                 !.background_days = Unmark(@)]

=============================================================================
