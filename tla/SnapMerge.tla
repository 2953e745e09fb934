------------------------------ MODULE SnapMerge ------------------------------
(***************************************************************************)
(* What one snap run sends and what it makes of the answers: the request   *)
(* plan (crates/gt-snap/src/request_plan.rs), the merge of the chunk       *)
(* outcomes (merge.rs) and the split of a chunk's geometry                 *)
(* (snapped_track.rs).                                                     *)
(*                                                                         *)
(* plan, send_plan and merge each walk the chunks in the same order, so    *)
(* one action stands for a chunk: it is cut, answered and merged.  Point p *)
(* of the result is fix p of the track.  A segment is the sequence of      *)
(* fixes its vertices are attributed to: the points of its group that lie  *)
(* on an edge.  Positions, edges and the metadata of a response are left   *)
(* out.                                                                    *)
(***************************************************************************)
EXTENDS Integers, Sequences, FiniteSets, SequencesExt

CONSTANTS
    Recordings,   \* the tracks to send: sequences of fixes
    ChunkPoints,  \* CHUNK_POINTS
    Overlap,      \* CHUNK_OVERLAP_POINTS
    Interval,     \* MIN_POINT_INTERVAL
    Matches,      \* what the server says of a point
    NoData        \* what is recorded of a fix nothing was answered of

ASSUME ChunkAssumption ==
    /\ ChunkPoints \in Nat /\ Overlap \in Nat /\ Interval \in Nat
    /\ Overlap % 2 = 0 /\ Overlap < ChunkPoints

Fix == [ghost : BOOLEAN, time : Int]
ASSUME RecordingsAssumption == Recordings \subseteq Seq(Fix)

\* One of the response's snapped points: whether it was matched, to an edge,
\* and the discontinuity flags around it.
Match == [matched : BOOLEAN, edge : BOOLEAN, begin : BOOLEAN, end : BOOLEAN]
ASSUME MatchesAssumption == Matches \subseteq Match /\ NoData \notin Match

Unsnapped == [matched |-> FALSE, edge |-> FALSE, begin |-> FALSE, end |-> FALSE]

VARIABLES
    track,      \* the fixes of the track
    plan,       \* the RequestPlan: the stretches of fixes to send
    stretch,    \* the stretch being sent, by its place in the plan
    start,      \* where its next chunk starts
    points,     \* SnapResult::points
    segments,   \* SnapResult::segments
    partial,    \* SnapResult::partial
    previous,   \* the PreviousChunk
    answered    \* history: what was answered of each fix by the chunk owning it

mergeVars == <<track, plan, stretch, start, points, segments, partial, previous, answered>>

-----------------------------------------------------------------------------
\* The plan.

\* The numbers of a set in ascending order.
Ascending(S) ==
    CHOOSE s \in [1 .. Cardinality(S) -> S] :
        /\ ToSet(s) = S
        /\ \A i, j \in DOMAIN s : i < j => s[i] < s[j]

\* downsample_run: the last fix kept up to fix i in its run between two ghosts.
Kept(fixes) ==
    LET last[i \in 0 .. Len(fixes)] ==
            CASE i = 0 \/ (i > 0 /\ fixes[i].ghost) -> 0
              [] OTHER ->
                   IF last[i - 1] = 0
                      \/ fixes[i].time - fixes[last[i - 1]].time >= Interval
                   THEN i ELSE last[i - 1]
    IN {i \in DOMAIN fixes : last[i] = i}

GhostsBefore(fixes, i) == Cardinality({j \in 1 .. i : fixes[j].ghost})

\* downsample: the kept fixes, by the run they are in.
Stretches(fixes) ==
    LET runs == {GhostsBefore(fixes, i) : i \in Kept(fixes)}
        OfRun(run) == {i \in Kept(fixes) : GhostsBefore(fixes, i) = run}
        order == Ascending(runs)
    IN [k \in DOMAIN order |-> Ascending(OfRun(order[k]))]

\* The owned range of a stretch's chunk, as its start and its end in the n sent
\* points: the chunk starts after the first from ones, and an overlap is split
\* at its middle.
own_from(from) == IF from = 0 THEN 0 ELSE from + Overlap \div 2
own_to(from, n) ==
    IF from + ChunkPoints < n THEN from + ChunkPoints - Overlap \div 2 ELSE n

\* Slip: the first half of the overlap is left to both chunks.
chunk_stretch_OwnedTwice(sent, from) ==
    [owned |-> SubSeq(sent, from + 1, own_to(from, Len(sent))),
     opens |-> from = 0, is_last |-> from + ChunkPoints >= Len(sent)]

\* The chunk of a stretch: the points it owns, and whether it opens the stretch
\* or ends it.
chunk_stretch(sent, from) ==
    [owned |-> SubSeq(sent, own_from(from) + 1, own_to(from, Len(sent))),
     opens |-> from = 0, is_last |-> from + ChunkPoints >= Len(sent)]

-----------------------------------------------------------------------------
\* The geometry of one answered chunk: owned is its points, answer what was
\* said of each.

\* point_groups: where a group starts among the owned points.  An unsnapped
\* point ends the group before it.
GroupStarts(answer) ==
    {i \in DOMAIN answer :
        /\ answer[i].matched
        /\ \/ i = 1
           \/ ~answer[i - 1].matched
           \/ answer[i].begin \/ answer[i - 1].end}

\* The points of the group that starts at i that lie on an edge.  An interpolated
\* point is matched and on none.
OnEdges(answer, i) ==
    {j \in DOMAIN answer :
        /\ i <= j /\ answer[j].matched /\ answer[j].edge
        /\ \A k \in i + 1 .. j : k \notin GroupStarts(answer)}

\* A group without an edge contributes no segment.
snapped_track_segments_in(owned, answer) ==
    LET starts == Ascending({i \in GroupStarts(answer) : OnEdges(answer, i) # {}})
    IN [k \in DOMAIN starts |->
          LET members == Ascending(OnEdges(answer, starts[k]))
          IN [j \in DOMAIN members |-> owned[members[j]]]]

\* Slip: a chunk that opens a stretch is joined to the road before the ghosts.
Joined_AcrossStretches(chunk, answer, roads) ==
    IF /\ previous.geometry_continues
       /\ answer[1].matched /\ segments # <<>> /\ roads # <<>>
    THEN Front(segments) \o <<Last(segments) \o Head(roads)>> \o Tail(roads)
    ELSE segments \o roads

\* The cut between two chunks falls mid-road: the trailing segment so far and
\* the leading one of this chunk become one.
Joined(chunk, answer, roads) ==
    IF /\ previous.geometry_continues /\ ~chunk.opens
       /\ answer[1].matched /\ segments # <<>> /\ roads # <<>>
    THEN Front(segments) \o <<Last(segments) \o Head(roads)>> \o Tail(roads)
    ELSE segments \o roads

-----------------------------------------------------------------------------
Sending == stretch <= Len(plan)
Sent == plan[stretch]
NextChunk == chunk_stretch(Sent, start)

\* Slip: only what came of the chunk before is looked at, not what was dropped.
Pushed_StretchForgotten(chunk, answer) ==
    [i \in DOMAIN chunk.owned |->
        [point |-> chunk.owned[i], matched |-> answer[i].matched,
         follows_gap |-> i = 1 /\ ~previous.produced_points]]

\* The points an answered chunk adds.
Pushed(chunk, answer) ==
    [i \in DOMAIN chunk.owned |->
        [point |-> chunk.owned[i], matched |-> answer[i].matched,
         follows_gap |-> i = 1 /\ (~previous.produced_points \/ chunk.opens)]]

Recorded(chunk, of) ==
    [p \in DOMAIN answered |->
        IF \E i \in DOMAIN chunk.owned : chunk.owned[i] = p
        THEN of[CHOOSE i \in DOMAIN chunk.owned : chunk.owned[i] = p]
        ELSE answered[p]]

\* The loop of chunk_stretch goes on behind the overlap, and plan with the next
\* stretch.
Advance(chunk) ==
    /\ stretch' = IF chunk.is_last THEN stretch + 1 ELSE stretch
    /\ start' = IF chunk.is_last THEN 0 ELSE start + ChunkPoints - Overlap
    /\ UNCHANGED <<track, plan>>

MergeInit ==
    /\ track \in Recordings
    /\ plan = Stretches(track)
    /\ stretch = 1 /\ start = 0
    /\ points = <<>> /\ segments = <<>> /\ partial = FALSE
    /\ previous = [geometry_continues |-> FALSE, produced_points |-> FALSE]
    /\ answered = [p \in DOMAIN track |-> NoData]

\* ChunkOutcome::Success: the server answers every point of the chunk, and the
\* owned ones are taken over.  A response without a shape, or with one that does
\* not fit its edges, draws nothing.
Matched(answer, drawn) ==
    LET chunk == NextChunk
        roads == IF drawn THEN snapped_track_segments_in(chunk.owned, answer) ELSE <<>>
        told == IF drawn THEN answer ELSE [i \in DOMAIN answer |-> Unsnapped]
    IN /\ points' = points \o Pushed(chunk, answer)
       /\ segments' = Joined(chunk, answer, roads)
       /\ previous' = [geometry_continues |-> roads # <<>> /\ Last(answer).matched,
                       produced_points |-> chunk.owned # <<>>]
       /\ answered' = Recorded(chunk, told)
       /\ UNCHANGED partial
       /\ Advance(chunk)

\* ChunkOutcome::OffNetwork: the owned points are there, unsnapped.
OffNetwork ==
    LET chunk == NextChunk
        answer == [i \in DOMAIN chunk.owned |-> Unsnapped]
    IN /\ points' = points \o Pushed(chunk, answer)
       /\ previous' = [geometry_continues |-> FALSE,
                       produced_points |-> chunk.owned # <<>>]
       /\ answered' = Recorded(chunk, answer)
       /\ UNCHANGED <<segments, partial>>
       /\ Advance(chunk)

\* ChunkOutcome::Failed, or an answer with another number of points.
Failed ==
    /\ partial' = TRUE
    /\ previous' = [geometry_continues |-> FALSE, produced_points |-> FALSE]
    /\ UNCHANGED <<points, segments, answered>>
    /\ Advance(NextChunk)

MergeNext == /\ Sending
        /\ \/ \E answer \in [DOMAIN NextChunk.owned -> Matches], drawn \in BOOLEAN :
                 Matched(answer, drawn)
           \/ OffNetwork
           \/ Failed

MergeSpec == MergeInit /\ [][MergeNext]_mergeVars

-----------------------------------------------------------------------------
\* The fixes to send, and what the chunks merged so far cover of them.
Planned == UNION {ToSet(plan[k]) : k \in DOMAIN plan}
Covered == {p \in Planned : Sending => p < NextChunk.owned[1]}

\* The result has exactly the answered fixes, once and in their order, and marks
\* where no snap data precedes one: at the start, behind a ghost and behind a
\* fix without data (SnapPoint::follows_gap).
PointsAreTheAnsweredFixes ==
    /\ {points[i].point : i \in DOMAIN points} = {p \in Covered : answered[p] # NoData}
    /\ \A i, j \in DOMAIN points : i < j => points[i].point < points[j].point
    /\ \A i \in DOMAIN points :
         LET from == IF i = 1 THEN 0 ELSE points[i - 1].point
         IN points[i].follows_gap
              <=> \/ i = 1
                  \/ \E p \in from + 1 .. points[i].point - 1 :
                        track[p].ghost \/ p \in Planned

MatchedAt(p) == answered[p] # NoData /\ answered[p].matched
OnRoad(p) == MatchedAt(p) /\ answered[p].edge

\* b is the first fix of a chunk that continues the one a is the last fix of.
Cut(a, b) ==
    \E k \in DOMAIN plan : \E i \in 1 .. Len(plan[k]) :
        LET from == i * (ChunkPoints - Overlap)
        IN /\ from + Overlap < Len(plan[k])
           /\ plan[k][own_from(from)] = a /\ plan[k][own_from(from) + 1] = b

\* Nothing planned lies between two fixes of the plan.
Adjacent(a, b) == a < b /\ \A r \in a + 1 .. b - 1 : r \notin Planned

\* The fixes up to q that open a chunk cut off the one before it behind p.
CutsIn(p, q) == {b \in p + 1 .. q : \E a \in Planned : Cut(a, b)}

\* A segment may run on between two fixes on edges of one chunk unless a fix that
\* is not matched lies between them or the response reports a discontinuity.  Where
\* a chunk is cut off between them it may if the fixes at the cut are matched.
RunsOn(p, q) ==
    LET cuts == CutsIn(p, q)
    IN /\ \A r \in p + 1 .. q : ~track[r].ghost
       /\ \/ /\ cuts = {}
             /\ \A r \in p .. q : r \in Planned => MatchedAt(r)
             /\ \A a, b \in p .. q : a \in Planned /\ b \in Planned /\ Adjacent(a, b) =>
                   ~answered[a].end /\ ~answered[b].begin
          \/ \E a, b \in Planned : /\ cuts = {b} /\ Cut(a, b)
                                   /\ MatchedAt(a) /\ MatchedAt(b)

\* Nothing interrupts the road between two fixes, cut or no cut: no ghost, no fix
\* without a match, no discontinuity, and not the whole of a chunk between them.
IsOneRoad(p, q) ==
    /\ \A r \in p + 1 .. q : ~track[r].ghost
    /\ \A r \in p .. q : r \in Planned => MatchedAt(r)
    /\ \A a, b \in p .. q : a \in Planned /\ b \in Planned /\ Adjacent(a, b) =>
          ~answered[a].end /\ ~answered[b].begin
    /\ \A a, b \in CutsIn(p, q) : a = b

\* The segments hold the fixes on edges in their order, run on from fix to fix
\* only where they may, and a road that nothing interrupts is in one of them, the
\* cuts between chunks notwithstanding.  Behind a cut whose fixes are matched a new
\* segment may start or not if a discontinuity or a run without a match is near it:
\* SnapResult::segments is said to be split there, and merge_chunk joins.
SegmentsAreTheUnbrokenRoads ==
    /\ UNION {ToSet(segments[k]) : k \in DOMAIN segments} = {p \in Covered : OnRoad(p)}
    /\ \A k \in DOMAIN segments : \A i \in 1 .. Len(segments[k]) - 1 :
          /\ segments[k][i] < segments[k][i + 1]
          /\ RunsOn(segments[k][i], segments[k][i + 1])
    /\ \A k \in 1 .. Len(segments) - 1 :
          LET p == Last(segments[k])
              q == Head(segments[k + 1])
          IN p < q /\ ~IsOneRoad(p, q)

=============================================================================
