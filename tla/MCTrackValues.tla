---------------------------- MODULE MCTrackValues ----------------------------
EXTENDS TrackValues

CONSTANTS morning, evening, night

\* Two tracks of one day, and one that runs over midnight.  The deviation of
\* a track reads the day before it too.
SameDay == {morning, evening}
OverMidnight == {morning, night}
MidnightSpans == (morning :> {2}) @@ (night :> {1, 2})
SameDaySpans == (morning :> {1}) @@ (evening :> {1})
Both == [t \in OverMidnight |-> {1, 2}]
=============================================================================
