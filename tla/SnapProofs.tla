------------------------------ MODULE SnapProofs ------------------------------
(***************************************************************************)
(* What a snap run sends and makes of the answers, for every track, every  *)
(* length of a chunk and of its even overlap, and every answer: each chunk *)
(* is longer than the overlap, what the chunks own partitions the sent     *)
(* points, the points of the result are the answered fixes, and its        *)
(* segments the unbroken roads.  One invariant says which fixes the chunks *)
(* merged so far are done with and what the last one left behind, the      *)
(* other that the segments are broken where no road runs on, and that the  *)
(* flag the next chunk is joined by tells whether one does.                *)
(*                                                                         *)
(* And the scheduler of the runs, for every number of positions and set of *)
(* tracks: until positions shift under an unfinished run the rows tell     *)
(* what runs, and an automatic run starts for a track that is shown or     *)
(* was.  The invariant says what the workers' channel may hold, which the  *)
(* rows alone do not: what is told is of the run in flight, its end comes  *)
(* last and once, and a thread without an end is there as long as no end   *)
(* is told.  Every operation of the scheduler is shown to follow (Follows) *)
(* from where it starts: it keeps the rows and starts one run at the most. *)
(* The actions put operations one after the other.                         *)
(***************************************************************************)
EXTENDS SnapMerge, SnapScheduler, DataInduction

Step == ChunkPoints - Overlap

\* Where the loop of chunk_stretch may start a chunk of n sent points.
Started(from, n) == from = 0 \/ from + Overlap < n

\* Both halves of an overlap are of one size.
LEMMA Halves == Overlap = Overlap \div 2 + Overlap \div 2
<1>1. Overlap \in Nat /\ Overlap % 2 = 0
  BY ChunkAssumption
<1>2. QED
  BY <1>1, Z3

\* "Ownership ranges partition the sent sequence exactly" (request_plan.rs): no
\* chunk's range is empty or inverted, the first starts at the first point, each
\* later one where the one before it ends, and the last ends at the last point.
THEOREM OwnershipPartitionsTheStretch ==
    ASSUME NEW n \in Nat \ {0}, NEW from \in Nat, Started(from, n)
    PROVE  /\ own_from(0) = 0
           /\ own_from(from) < own_to(from, n) /\ own_to(from, n) <= n
           /\ from + ChunkPoints >= n => own_to(from, n) = n
           /\ from + ChunkPoints < n =>
                /\ Started(from + Step, n)
                /\ own_from(from + Step) = own_to(from, n)
<1> DEFINE half == Overlap \div 2
<1>1. /\ ChunkPoints \in Nat /\ Overlap \in Nat /\ Overlap < ChunkPoints
      /\ half \in Nat /\ Overlap = half + half
  <2>1. Overlap \div 2 \in Nat
    BY ChunkAssumption, Z3
  <2>2. QED
    BY <2>1, Halves, ChunkAssumption
<1> HIDE DEF half
<1>2. own_from(from) = (IF from = 0 THEN 0 ELSE from + half)
  BY DEF own_from, half
<1>3. own_to(from, n) = (IF from + ChunkPoints < n THEN from + ChunkPoints - half ELSE n)
  BY DEF own_to, half
<1>4. own_from(0) = 0
  BY DEF own_from
<1>5. own_from(from) < own_to(from, n) /\ own_to(from, n) <= n
  BY <1>1, <1>2, <1>3 DEF Started
<1>6. from + ChunkPoints >= n => own_to(from, n) = n
  BY <1>1, <1>3
<1>7. ASSUME from + ChunkPoints < n
      PROVE  Started(from + Step, n) /\ own_from(from + Step) = own_to(from, n)
  <2>1. own_from(from + Step) = from + Step + half
    BY <1>1 DEF own_from, half, Step
  <2>2. QED
    BY <1>1, <1>3, <1>7, <2>1 DEF Started, Step
<1>8. QED
  BY <1>4, <1>5, <1>6, <1>7

-----------------------------------------------------------------------------
ChunksReachPastTheOverlap == start \in Nat /\ Started(start, Len(Sent))

\* "A non-first chunk is always longer than the overlap (the loop only continues
\* while at least `step` points remain)" (request_plan.rs): whatever was answered
\* so far, the next chunk starts where chunk_stretch may start one.
THEOREM NoChunkIsInsideTheOverlap == MergeSpec => []ChunksReachPastTheOverlap
<1>1. MergeInit => ChunksReachPastTheOverlap
  BY DEF MergeInit, ChunksReachPastTheOverlap, Started
<1>2. ChunksReachPastTheOverlap /\ [MergeNext]_mergeVars => ChunksReachPastTheOverlap'
  <2> SUFFICES ASSUME ChunksReachPastTheOverlap, [MergeNext]_mergeVars
               PROVE  ChunksReachPastTheOverlap'
    OBVIOUS
  <2>1. ASSUME Advance(NextChunk)
        PROVE  ChunksReachPastTheOverlap'
    <3>1. CASE NextChunk.is_last
      BY <2>1, <3>1 DEF Advance, ChunksReachPastTheOverlap, Started
    <3>2. CASE ~NextChunk.is_last
      <4>1. stretch' = stretch /\ plan' = plan /\ start' = start + ChunkPoints - Overlap
        BY <2>1, <3>2 DEF Advance
      <4>2. Sent' = Sent
        BY <4>1 DEF Sent
      <4>3. ~(start + ChunkPoints >= Len(Sent))
        BY <3>2 DEF NextChunk, chunk_stretch
      <4>4. Len(Sent) \in Int => start + ChunkPoints < Len(Sent)
        BY <4>3, ChunkAssumption DEF ChunksReachPastTheOverlap
      <4>5. QED
        BY <4>1, <4>2, <4>4, ChunkAssumption DEF ChunksReachPastTheOverlap, Started
    <3>3. QED
      BY <3>1, <3>2
  <2>2. CASE MergeNext
    <3>1. ASSUME NEW answer \in [DOMAIN NextChunk.owned -> Matches], NEW drawn \in BOOLEAN,
                 Matched(answer, drawn)
          PROVE  Advance(NextChunk)
      BY <3>1 DEF Matched
    <3>2. ASSUME OffNetwork PROVE Advance(NextChunk)
      BY <3>2 DEF OffNetwork
    <3>3. ASSUME Failed PROVE Advance(NextChunk)
      BY <3>3 DEF Failed
    <3>4. QED
      BY <2>1, <2>2, <3>1, <3>2, <3>3 DEF MergeNext
  <2>3. CASE UNCHANGED mergeVars
    BY <2>3 DEF mergeVars, ChunksReachPastTheOverlap, Started, Sent
  <2>4. QED
    BY <2>2, <2>3
<1>3. QED
  BY <1>1, <1>2, PTL DEF MergeSpec

-----------------------------------------------------------------------------
\* What a merge has done with the fixes of a track.

\* The members of S in ascending order.
Sorted(s, S) ==
    /\ s \in [1 .. Cardinality(S) -> S]
    /\ ToSet(s) = S
    /\ \A i, j \in DOMAIN s : i < j => s[i] < s[j]

\* A set of naturals below a bound can be sorted.
LEMMA SortedExists ==
    ASSUME NEW b \in Nat, NEW S \in SUBSET (0 .. b)
    PROVE  \E s : Sorted(s, S)
<1> DEFINE A == {m \in Nat : \A T \in SUBSET (0 .. m - 1) : \E s : Sorted(s, T)}
<1>1. 0 \in A
  <2> SUFFICES ASSUME NEW T \in SUBSET (0 .. 0 - 1) PROVE Sorted(<<>>, T)
    OBVIOUS
  <2>1. T = {} /\ Cardinality(T) = 0
    <3>1. 0 .. 0 - 1 = {}
      OBVIOUS
    <3>2. T = {}
      BY <3>1
    <3> QED
      BY <3>2, FS_EmptySet
  <2>2. <<>> \in [1 .. 0 -> T] /\ DOMAIN <<>> = {}
    BY <2>1
  <2> QED
    BY <2>1, <2>2 DEF Sorted, ToSet
<1>2. ASSUME NEW m \in Nat, m \in A, NEW T \in SUBSET (0 .. m + 1 - 1)
      PROVE  \E s : Sorted(s, T)
  <2> DEFINE U == T \ {m}
             c == Cardinality(U)
  <2>1. U \in SUBSET (0 .. m - 1)
    OBVIOUS
  <2>2. PICK t : Sorted(t, U)
    BY <1>2, <2>1
  <2>3. CASE m \notin T
    <3>1. U = T
      BY <2>3
    <3> QED
      BY <2>2, <3>1
  <2>4. CASE m \in T
    <3>1. IsFiniteSet(T) /\ IsFiniteSet(U)
      <4>1. IsFiniteSet(0 .. m + 1 - 1)
        BY FS_Interval
      <4> QED
        BY <4>1, FS_Subset
    <3>2. Cardinality(T) = c + 1 /\ c \in Nat
      <4>1. U \cup {m} = T /\ m \notin U
        BY <2>4
      <4> QED
        BY <3>1, <4>1, FS_AddElement, FS_CardinalityType
    <3>3. /\ t \in [1 .. c -> U] /\ ToSet(t) = U
          /\ \A i, j \in 1 .. c : i < j => t[i] < t[j]
      BY <2>2 DEF Sorted
    <3>4. \A i \in 1 .. c : t[i] \in 0 .. m - 1
      BY <2>1, <3>3
    <3> HIDE DEF c
    <3> DEFINE s == [i \in 1 .. c + 1 |-> IF i = c + 1 THEN m ELSE t[i]]
    <3>5. /\ \A i \in 1 .. c : s[i] = t[i]
          /\ s[c + 1] = m /\ DOMAIN s = 1 .. c + 1
          /\ \A i \in 1 .. c + 1 : i \in 1 .. c \/ i = c + 1
      BY <3>2
    <3>6. s \in [1 .. c + 1 -> T]
      <4>1. \A i \in 1 .. c + 1 : s[i] \in T
        BY <2>4, <3>3, <3>5
      <4> QED
        BY <4>1
    <3> HIDE DEF s, U
    <3>7. ToSet(s) = T
      <4>1. \A x \in T : x \in U \/ x = m
        BY DEF U
      <4>2. \A x \in U : \E i \in 1 .. c : t[i] = x
        BY <3>3 DEF ToSet
      <4>3. ASSUME NEW x \in T PROVE \E i \in 1 .. c + 1 : s[i] = x
        <5>1. CASE x \in U
          <6>1. PICK i \in 1 .. c : t[i] = x
            BY <4>2, <5>1
          <6>2. i \in 1 .. c + 1
            BY <3>2
          <6> QED
            BY <3>5, <6>1, <6>2
        <5>2. CASE x = m
          <6>1. c + 1 \in 1 .. c + 1
            BY <3>2
          <6> QED
            BY <3>5, <5>2, <6>1
        <5> QED
          BY <4>1, <5>1, <5>2
      <4>4. ToSet(s) \subseteq T
        BY <3>5, <3>6 DEF ToSet
      <4>5. T \subseteq ToSet(s)
        BY <3>5, <4>3 DEF ToSet
      <4> QED
        BY <4>4, <4>5
    <3>8. ASSUME NEW i \in 1 .. c + 1, NEW j \in 1 .. c + 1, i < j PROVE s[i] < s[j]
      <4>1. i \in 1 .. c
        BY <3>2, <3>8
      <4>2. CASE j = c + 1
        BY <3>4, <3>5, <4>1, <4>2
      <4>3. CASE j \in 1 .. c
        BY <3>3, <3>5, <3>8, <4>1, <4>3
      <4> QED
        BY <3>5, <4>2, <4>3
    <3> QED
      BY <3>2, <3>5, <3>6, <3>7, <3>8 DEF Sorted
  <2> QED
    BY <2>3, <2>4
<1> HIDE DEF A
<1>3. \A m \in Nat : m \in A => m + 1 \in A
  BY <1>2 DEF A
<1>4. Nat \subseteq A
  BY <1>1, <1>3, Induction
<1>5. b + 1 \in A /\ 0 .. b = 0 .. b + 1 - 1
  BY <1>4
<1> QED
  BY <1>5 DEF A

\* Ascending sorts.
LEMMA AscendingIs ==
    ASSUME NEW b \in Nat, NEW S \in SUBSET (0 .. b)
    PROVE  /\ Ascending(S) \in Seq(S) /\ Len(Ascending(S)) \in Nat
           /\ DOMAIN Ascending(S) = 1 .. Len(Ascending(S))
           /\ ToSet(Ascending(S)) = S
           /\ \A i \in DOMAIN Ascending(S) : Ascending(S)[i] \in S
           /\ \A i, j \in DOMAIN Ascending(S) : i < j => Ascending(S)[i] < Ascending(S)[j]
<1> DEFINE s == Ascending(S)
           n == Cardinality(S)
<1>1. Sorted(s, S)
  <2>1. \E t : Sorted(t, S)
    BY SortedExists
  <2>2. PICK t \in [1 .. n -> S] :
           ToSet(t) = S /\ \A i, j \in DOMAIN t : i < j => t[i] < t[j]
    BY <2>1 DEF Sorted
  <2> QED
    BY <2>2 DEF Sorted, Ascending
<1>2. n \in Nat
  <2>1. IsFiniteSet(0 .. b)
    BY FS_Interval
  <2>2. IsFiniteSet(S)
    BY <2>1, FS_Subset
  <2> QED
    BY <2>2, FS_CardinalityType
<1> HIDE DEF s, n
<1>3. s \in [1 .. n -> S] /\ ToSet(s) = S /\ \A i, j \in DOMAIN s : i < j => s[i] < s[j]
  BY <1>1 DEF Sorted, n
<1>4. s \in Seq(S) /\ Len(s) = n
  BY <1>2, <1>3
<1> QED
  BY <1>2, <1>3, <1>4 DEF s

\* A kept fix is a fix, and no ghost.
LEMMA KeptAreFixes ==
    ASSUME NEW fixes \in Seq(Fix)
    PROVE  Kept(fixes) \subseteq DOMAIN fixes /\ \A i \in Kept(fixes) : ~fixes[i].ghost
<1> DEFINE n == Len(fixes)
           Choice(x, i) == IF x = 0 \/ fixes[i].time - fixes[x].time >= Interval
                           THEN i ELSE x
           After(f, i) == CASE i = 0 \/ (i > 0 /\ fixes[i].ghost) -> 0
                            [] OTHER -> Choice(f[i - 1], i)
           Ends(f) == f = [i \in 0 .. n |-> After(f, i)]
           last == CHOOSE f : Ends(f)
           Following(x, i) == IF fixes[i].ghost THEN 0 ELSE Choice(x, i)
           step == [i \in 1 .. n |-> [x \in 0 .. n |-> Following(x, i)]]
<1>1. n \in Nat /\ DOMAIN fixes = 1 .. n
  OBVIOUS
<1>2. Kept(fixes) = {i \in DOMAIN fixes : last[i] = i}
  BY DEF Kept
<1>3. \A i \in 1 .. n, x \in 0 .. n : Choice(x, i) \in 0 .. n
  BY <1>1
<1> HIDE DEF Choice, last, n
<1>4. /\ step \in [1 .. n -> [0 .. n -> 0 .. n]] /\ 0 \in 0 .. n
      /\ \A i \in 1 .. n, x \in 0 .. n : step[i][x] = Following(x, i)
  <2>1. 0 \in 0 .. n
    BY <1>1
  <2>2. \A i \in 1 .. n, x \in 0 .. n : Following(x, i) \in 0 .. n
    BY <1>3, <2>1
  <2> HIDE DEF Following
  <2> QED
    BY <2>1, <2>2
<1> HIDE DEF step
<1>5. PICK g : Running(g, n, 0 .. n, 0, step)
  BY <1>1, <1>4, Recursion
<1>6. Ends(g)
  <2>1. /\ g \in [0 .. n -> 0 .. n] /\ g[0] = 0
        /\ \A i \in 1 .. n : g[i] = step[i][g[i - 1]]
    BY <1>5 DEF Running
  <2>2. ASSUME NEW i \in 0 .. n PROVE g[i] = After(g, i)
    <3>1. CASE i = 0
      BY <2>1, <3>1
    <3>2. CASE i # 0
      <4>1. i \in 1 .. n /\ i > 0 /\ g[i - 1] \in 0 .. n
        BY <1>1, <2>1, <3>2
      <4>2. g[i] = IF fixes[i].ghost THEN 0 ELSE Choice(g[i - 1], i)
        BY <1>4, <2>1, <4>1
      <4> QED
        BY <3>2, <4>1, <4>2
    <3> QED
      BY <3>1, <3>2
  <2> HIDE DEF After
  <2> QED
    BY <2>1, <2>2
<1>7. Ends(last)
  BY <1>6 DEF last
<1>8. ASSUME NEW i \in 1 .. n, fixes[i].ghost PROVE last[i] # i
  <2>1. i \in 0 .. n /\ i > 0 /\ i # 0
    BY <1>1
  <2>2. last[i] = After(last, i)
    <3> HIDE DEF After
    <3> QED
      BY <1>7, <2>1
  <2>3. After(last, i) = 0
    BY <1>8, <2>1
  <2> QED
    BY <2>1, <2>2, <2>3
<1> QED
  BY <1>1, <1>2, <1>8

\* The ghosts up to a fix, and up to a later one: the same number where there is
\* none between.
LEMMA GhostsCount ==
    ASSUME NEW fixes \in Seq(Fix), NEW i \in 1 .. Len(fixes), NEW j \in 1 .. Len(fixes), i <= j
    PROVE  /\ GhostsBefore(fixes, i) \in 0 .. Len(fixes)
           /\ GhostsBefore(fixes, i) <= GhostsBefore(fixes, j)
           /\ GhostsBefore(fixes, i) = GhostsBefore(fixes, j)
                <=> \A p \in i + 1 .. j : ~fixes[p].ghost
<1> DEFINE G(m) == {p \in 1 .. m : fixes[p].ghost}
           n == Len(fixes)
<1>1. n \in Nat
  OBVIOUS
<1>2. IsFiniteSet(1 .. n) /\ Cardinality(1 .. n) = n
  <2> HIDE DEF n
  <2>1. /\ IsFiniteSet(1 .. n)
        /\ Cardinality(1 .. n) = IF 1 > n THEN 0 ELSE n - 1 + 1
    BY <1>1, FS_Interval
  <2> QED
    BY <1>1, <2>1
<1>3. G(j) \in SUBSET (1 .. n) /\ G(i) \in SUBSET G(j) /\ G(i) \in SUBSET (1 .. n)
  BY <1>1
<1>4. G(i) = G(j) <=> \A p \in i + 1 .. j : ~fixes[p].ghost
  <2>1. \A p \in 1 .. j : p \in 1 .. i \/ p \in i + 1 .. j
    OBVIOUS
  <2>2. \A p \in i + 1 .. j : p \in 1 .. j /\ p \notin 1 .. i
    OBVIOUS
  <2> QED
    BY <1>3, <2>1, <2>2
<1> HIDE DEF G, n
<1>5. /\ IsFiniteSet(G(j)) /\ Cardinality(G(i)) <= Cardinality(G(j))
      /\ Cardinality(G(j)) = Cardinality(G(i)) => G(j) = G(i)
  BY <1>2, <1>3, FS_Subset
<1>6. Cardinality(G(i)) \in Nat /\ Cardinality(G(i)) <= n
  BY <1>2, <1>3, FS_Subset, FS_CardinalityType
<1>7. GhostsBefore(fixes, i) = Cardinality(G(i)) /\ GhostsBefore(fixes, j) = Cardinality(G(j))
  BY DEF GhostsBefore, G
<1> QED
  BY <1>1, <1>4, <1>5, <1>6, <1>7 DEF n

\* A plan p of a track: its stretches are of fixes, in order, and there is a ghost
\* between the fixes of two stretches and none between those of one.
PlanOf(p, fixes) ==
    /\ Len(p) \in Nat /\ DOMAIN p = 1 .. Len(p)
    /\ \A k \in 1 .. Len(p) : /\ p[k] \in Seq(DOMAIN fixes) /\ Len(p[k]) \in Nat \ {0}
                              /\ DOMAIN p[k] = 1 .. Len(p[k])
    /\ \A k \in 1 .. Len(p) : \A i, j \in 1 .. Len(p[k]) : i < j =>
          /\ p[k][i] < p[k][j]
          /\ \A q \in p[k][i] + 1 .. p[k][j] : ~fixes[q].ghost
    /\ \A k, l \in 1 .. Len(p) : k < l =>
          \A i \in 1 .. Len(p[k]), j \in 1 .. Len(p[l]) :
             /\ p[k][i] < p[l][j]
             /\ \E q \in p[k][i] + 1 .. p[l][j] - 1 : fixes[q].ghost

\* The plan of a track is one (downsample).
LEMMA StretchesAre ==
    ASSUME NEW fixes \in Seq(Fix)
    PROVE  PlanOf(Stretches(fixes), fixes)
<1> DEFINE n == Len(fixes)
           kept == Kept(fixes)
           G(i) == GhostsBefore(fixes, i)
           runs == {G(i) : i \in kept}
           OfRun(run) == {i \in kept : G(i) = run}
           order == Ascending(runs)
           p == [k \in DOMAIN order |-> Ascending(OfRun(order[k]))]
<1>1. n \in Nat /\ DOMAIN fixes = 1 .. n
  OBVIOUS
<1>2. kept \subseteq 1 .. n /\ \A i \in kept : ~fixes[i].ghost
  BY <1>1, KeptAreFixes
<1>3. \A i, j \in 1 .. n : i <= j =>
         /\ G(i) \in 0 .. n /\ G(i) <= G(j)
         /\ G(i) = G(j) <=> \A q \in i + 1 .. j : ~fixes[q].ghost
  BY GhostsCount
<1>4. Stretches(fixes) = p
  BY DEF Stretches
<1> HIDE DEF n, kept, G
<1>5. runs \in SUBSET (0 .. n)
  BY <1>2, <1>3
<1> HIDE DEF runs
<1>6. /\ Len(order) \in Nat /\ DOMAIN order = 1 .. Len(order)
      /\ \A k \in DOMAIN order : order[k] \in runs
      /\ \A k, l \in DOMAIN order : k < l => order[k] < order[l]
  BY <1>1, <1>5, AscendingIs
<1> HIDE DEF order
<1>7. ASSUME NEW k \in DOMAIN order
      PROVE  LET s == p[k]
             IN  /\ s \in Seq(1 .. n) /\ Len(s) \in Nat \ {0} /\ DOMAIN s = 1 .. Len(s)
                 /\ \A i \in 1 .. Len(s) : s[i] \in kept /\ G(s[i]) = order[k]
                 /\ \A i, j \in 1 .. Len(s) : i < j => s[i] < s[j]
  <2> DEFINE S == OfRun(order[k])
             s == Ascending(S)
  <2>1. S \in SUBSET (0 .. n) /\ S \in SUBSET (1 .. n) /\ S # {}
    <3>1. PICK i \in kept : order[k] = G(i)
      BY <1>6 DEF runs
    <3>2. i \in S
      BY <3>1
    <3>3. 1 .. n \subseteq 0 .. n
      BY <1>1
    <3> QED
      BY <1>2, <3>2, <3>3
  <2>2. \A x \in S : x \in kept /\ G(x) = order[k]
    OBVIOUS
  <2>3. p[k] = s
    OBVIOUS
  <2> HIDE DEF S, p
  <2>4. /\ s \in Seq(S) /\ Len(s) \in Nat /\ DOMAIN s = 1 .. Len(s) /\ ToSet(s) = S
        /\ \A i \in DOMAIN s : s[i] \in S
        /\ \A i, j \in DOMAIN s : i < j => s[i] < s[j]
    BY <1>1, <2>1, AscendingIs
  <2> HIDE DEF s
  <2>5. Len(s) # 0
    BY <2>1, <2>4 DEF ToSet
  <2>6. s \in Seq(1 .. n)
    <3>1. \A i \in 1 .. Len(s) : s[i] \in 1 .. n
      BY <2>1, <2>4
    <3> DEFINE m == Len(s)
    <3>2. m \in Nat /\ s = [i \in 1 .. m |-> s[i]]
      BY <2>4
    <3> HIDE DEF m
    <3>3. s \in [1 .. m -> 1 .. n]
      <4>1. \A i \in 1 .. m : s[i] \in 1 .. n
        BY <3>1 DEF m
      <4> QED
        BY <3>2, <4>1
    <3> QED
      BY <3>2, <3>3
  <2> QED
    BY <2>2, <2>3, <2>4, <2>5, <2>6
<1>8. Len(p) = Len(order) /\ DOMAIN p = DOMAIN order
  BY <1>6
<1> HIDE DEF p, OfRun
<1>9. ASSUME NEW k \in 1 .. Len(p), NEW i \in 1 .. Len(p[k]), NEW j \in 1 .. Len(p[k]), i < j
      PROVE  /\ p[k][i] < p[k][j]
             /\ \A q \in p[k][i] + 1 .. p[k][j] : ~fixes[q].ghost
  <2> DEFINE x == p[k][i]
             y == p[k][j]
  <2>1. k \in DOMAIN order
    BY <1>6, <1>8
  <2>2. x \in 1 .. n /\ y \in 1 .. n /\ x < y /\ G(x) = G(y)
    BY <1>2, <1>7, <1>9, <2>1
  <2> HIDE DEF x, y
  <2>3. x <= y
    BY <2>2
  <2>4. \A q \in x + 1 .. y : ~fixes[q].ghost
    BY <1>3, <2>2, <2>3
  <2> QED
    BY <2>2, <2>4 DEF x, y
<1>10. ASSUME NEW k \in 1 .. Len(p), NEW l \in 1 .. Len(p), k < l,
              NEW i \in 1 .. Len(p[k]), NEW j \in 1 .. Len(p[l])
       PROVE  /\ p[k][i] < p[l][j]
              /\ \E q \in p[k][i] + 1 .. p[l][j] - 1 : fixes[q].ghost
  <2> DEFINE x == p[k][i]
             y == p[l][j]
  <2>1. k \in DOMAIN order /\ l \in DOMAIN order
    BY <1>6, <1>8
  <2>2. x \in 1 .. n /\ y \in 1 .. n /\ G(x) = order[k] /\ G(y) = order[l] /\ ~fixes[y].ghost
    BY <1>2, <1>7, <2>1
  <2>3. G(x) < G(y)
    BY <1>6, <1>10, <2>1, <2>2
  <2> HIDE DEF x, y
  <2>4. G(x) \in 0 .. n /\ G(y) \in 0 .. n
    BY <1>3, <2>2
  <2>5. x < y
    <3>1. ~(y <= x)
      BY <1>3, <2>2, <2>3, <2>4
    <3> QED
      BY <2>2, <3>1
  <2>6. PICK q \in x + 1 .. y : fixes[q].ghost
    <3>1. x <= y /\ G(x) # G(y)
      BY <2>2, <2>3, <2>4, <2>5
    <3> QED
      BY <1>3, <2>2, <3>1
  <2>7. q \in x + 1 .. y - 1
    BY <2>2, <2>6
  <2> QED
    BY <2>5, <2>6, <2>7 DEF x, y
<1>11. \A k \in 1 .. Len(p) : /\ p[k] \in Seq(DOMAIN fixes) /\ Len(p[k]) \in Nat \ {0}
                              /\ DOMAIN p[k] = 1 .. Len(p[k])
  BY <1>1, <1>6, <1>7, <1>8
<1>12. Len(p) \in Nat /\ DOMAIN p = 1 .. Len(p)
  BY <1>6, <1>8
<1>13. PlanOf(p, fixes)
  BY <1>9, <1>10, <1>11, <1>12 DEF PlanOf
<1> QED
  BY <1>4, <1>13

\* Where two fixes of a plan are.
LEMMA PlacesAre ==
    ASSUME NEW p, NEW fixes \in Seq(Fix), PlanOf(p, fixes),
           NEW k \in 1 .. Len(p), NEW i \in 1 .. Len(p[k]),
           NEW l \in 1 .. Len(p), NEW j \in 1 .. Len(p[l])
    PROVE  /\ p[k][i] \in DOMAIN fixes /\ p[k][i] \in Nat
           /\ p[k][i] < p[l][j] <=> k < l \/ (k = l /\ i < j)
           /\ p[k][i] = p[l][j] <=> k = l /\ i = j
<1>1. /\ p[k] \in Seq(DOMAIN fixes) /\ p[l] \in Seq(DOMAIN fixes) /\ Len(p) \in Nat
      /\ Len(p[k]) \in Nat /\ Len(p[l]) \in Nat
  BY DEF PlanOf
<1>2. p[k][i] \in DOMAIN fixes /\ p[l][j] \in DOMAIN fixes
  <2>1. p[k] \in Seq(DOMAIN fixes) /\ p[l] \in Seq(DOMAIN fixes)
    BY <1>1
  <2>2. \A s \in Seq(DOMAIN fixes) : \A q \in 1 .. Len(s) : s[q] \in DOMAIN fixes
    OBVIOUS
  <2> QED
    BY <2>1, <2>2
<1>3. \A x \in DOMAIN fixes : x \in Nat
  OBVIOUS
<1> DEFINE x == p[k][i]
           y == p[l][j]
<1>4. x \in Nat /\ y \in Nat
  BY <1>2, <1>3
<1>5. k < l => x < y
  BY DEF PlanOf
<1>6. l < k => y < x
  BY DEF PlanOf
<1>7. k = l => (i < j => x < y) /\ (j < i => y < x) /\ (i = j => x = y)
  BY DEF PlanOf
<1> HIDE DEF x, y
<1>8. k \in Nat /\ l \in Nat
  BY <1>1
<1>9. k = l => i \in Nat /\ j \in Nat
  BY <1>1
<1>10. /\ x < y <=> k < l \/ (k = l /\ i < j)
       /\ x = y <=> k = l /\ i = j
  <2>1. CASE k < l
    BY <1>4, <1>5, <1>8, <2>1
  <2>2. CASE l < k
    BY <1>4, <1>6, <1>8, <2>2
  <2>3. CASE k = l
    BY <1>4, <1>7, <1>9, <2>3
  <2> QED
    BY <1>8, <2>1, <2>2, <2>3
<1> QED
  BY <1>2, <1>4, <1>10 DEF x, y

\* A point of the result, as far as its place goes.
Point == [point : Nat, matched : BOOLEAN, follows_gap : BOOLEAN]

\* The fixes the chunks merged so far own.
Done == {x \in DOMAIN track :
           \E k \in 1 .. Len(plan) : \E j \in 1 .. Len(plan[k]) :
              x = plan[k][j] /\ (k < stretch \/ (k = stretch /\ j <= own_from(start)))}

MergeTypes ==
    /\ track \in Seq(Fix) /\ PlanOf(plan, track)
    /\ stretch \in 1 .. Len(plan) + 1 /\ start \in Nat
    /\ IF Sending THEN Started(start, Len(Sent)) ELSE start = 0
    /\ answered \in [DOMAIN track -> Match \cup {NoData}]
    /\ points \in Seq(Point)
    /\ previous.produced_points \in BOOLEAN

\* The same of the plan of a merge.
Places ==
    \A k, l \in 1 .. Len(plan) : \A i \in 1 .. Len(plan[k]), j \in 1 .. Len(plan[l]) :
       /\ plan[k][i] \in DOMAIN track /\ plan[k][i] \in Nat
       /\ plan[k][i] < plan[l][j] <=> k < l \/ (k = l /\ i < j)
       /\ plan[k][i] = plan[l][j] <=> k = l /\ i = j
LEMMA PlacesHere == MergeTypes => Places
<1> SUFFICES ASSUME MergeTypes, NEW k \in 1 .. Len(plan), NEW l \in 1 .. Len(plan),
                    NEW i \in 1 .. Len(plan[k]), NEW j \in 1 .. Len(plan[l])
             PROVE  /\ plan[k][i] \in DOMAIN track /\ plan[k][i] \in Nat
                    /\ plan[k][i] < plan[l][j] <=> k < l \/ (k = l /\ i < j)
                    /\ plan[k][i] = plan[l][j] <=> k = l /\ i = j
  BY DEF Places
<1>1. PlanOf(plan, track) /\ track \in Seq(Fix)
  BY DEF MergeTypes
<1> QED
  BY <1>1, PlacesAre

\* Whether something lies between two fixes that a snap run breaks off at.
Parted(x, y) == \E r \in x + 1 .. y - 1 : track[r].ghost \/ r \in Planned

\* The invariant of a merge: the points are the answered fixes of those done, and
\* what the chunk before came to is known of its last fix, too.
MergeInv ==
    /\ MergeTypes
    /\ \A x \in DOMAIN track : x \notin Done => answered[x] = NoData
    /\ {points[i].point : i \in DOMAIN points} = {x \in Done : answered[x] # NoData}
    /\ \A i, j \in DOMAIN points : i < j => points[i].point < points[j].point
    /\ \A i \in DOMAIN points :
          points[i].follows_gap
             <=> i = 1 \/ Parted(IF i = 1 THEN 0 ELSE points[i - 1].point, points[i].point)
    /\ Sending /\ start # 0 =>
          (previous.produced_points <=> answered[Sent[own_from(start)]] # NoData)

\* The chunk to come owns the fixes of its stretch behind those done.
LEMMA OwnedAre ==
    ASSUME MergeTypes, Sending
    PROVE  LET o == NextChunk.owned
               f == own_from(start)
               t == own_to(start, Len(Sent))
           IN  /\ stretch \in 1 .. Len(plan) /\ f \in Nat /\ t \in Nat
               /\ f < t /\ t <= Len(Sent)
               /\ o \in Seq(DOMAIN track) /\ DOMAIN o = 1 .. t - f /\ Len(o) = t - f
               /\ \A i \in 1 .. t - f : f + i \in 1 .. Len(Sent) /\ o[i] = Sent[f + i]
               /\ NextChunk.opens <=> start = 0
               /\ NextChunk.is_last <=> start + ChunkPoints >= Len(Sent)
               /\ start # 0 => f # 0
               /\ start = 0 => f = 0
<1> DEFINE s == Sent
           n == Len(s)
           f == own_from(start)
           t == own_to(start, n)
           o == NextChunk.owned
<1>1. stretch \in 1 .. Len(plan) /\ s = plan[stretch] /\ Started(start, n) /\ start \in Nat
  BY DEF MergeTypes, Sending, Sent, PlanOf
<1>2. s \in Seq(DOMAIN track) /\ n \in Nat \ {0} /\ \A j \in 1 .. n : s[j] \in DOMAIN track
  <2>1. s \in Seq(DOMAIN track) /\ n \in Nat \ {0}
    BY <1>1 DEF MergeTypes, PlanOf
  <2> QED
    BY <2>1
<1>3. /\ o = SubSeq(s, f + 1, t)
      /\ NextChunk.opens = (start = 0)
      /\ NextChunk.is_last = (start + ChunkPoints >= n)
  BY DEF NextChunk, chunk_stretch
<1> DEFINE half == Overlap \div 2
<1>h. half \in Nat
  BY ChunkAssumption, Z3
<1> HIDE DEF s, n
<1>4. f < t /\ t <= n
  BY <1>1, <1>2, OwnershipPartitionsTheStretch
<1>5. f \in Nat /\ (start # 0 => f # 0) /\ (start = 0 => f = 0)
  <2>1. f = IF start = 0 THEN 0 ELSE start + half
    BY DEF own_from
  <2> HIDE DEF half, f
  <2> QED
    BY <1>1, <1>h, <2>1
<1>6. t \in Nat
  <2>1. t = IF start + ChunkPoints < n THEN start + ChunkPoints - half ELSE n
    BY DEF own_to
  <2>2. t \in Int
    <3> HIDE DEF half, t
    <3> QED
      BY <1>1, <1>2, <1>h, <2>1, ChunkAssumption
  <2> HIDE DEF t, f
  <2> QED
    BY <1>4, <1>5, <2>2
<1> HIDE DEF f, t, o, half
<1>7. /\ SubSeq(s, f + 1, t) \in Seq(DOMAIN track)
      /\ Len(SubSeq(s, f + 1, t)) = IF f + 1 <= t THEN t - (f + 1) + 1 ELSE 0
      /\ \A j \in 1 .. t - (f + 1) + 1 : SubSeq(s, f + 1, t)[j] = s[(f + 1) + j - 1]
  <2> DEFINE X == DOMAIN track
  <2>0. \A j \in f + 1 .. t : j \in 1 .. n
    BY <1>2, <1>4, <1>5, <1>6
  <2>1. \A j \in f + 1 .. t : s[j] \in X
    BY <1>2, <2>0
  <2>2. f + 1 \in Int /\ t \in Int
    BY <1>5, <1>6
  <2> HIDE DEF X
  <2>3. /\ SubSeq(s, f + 1, t) \in Seq(X)
        /\ Len(SubSeq(s, f + 1, t)) = IF f + 1 <= t THEN t - (f + 1) + 1 ELSE 0
        /\ \A j \in 1 .. t - (f + 1) + 1 : SubSeq(s, f + 1, t)[j] = s[(f + 1) + j - 1]
    BY <2>1, <2>2, SubSeqProperties
  <2> QED
    BY <2>3 DEF X
<1>8. t - (f + 1) + 1 = t - f /\ f + 1 <= t
  BY <1>4, <1>5, <1>6
<1>9. o \in Seq(DOMAIN track) /\ Len(o) = t - f
  BY <1>3, <1>7, <1>8
<1>10. DOMAIN o = 1 .. t - f
  BY <1>9
<1>11. ASSUME NEW i \in 1 .. t - f PROVE f + i \in 1 .. n /\ o[i] = s[f + i]
  <2>1. f + i \in 1 .. n /\ (f + 1) + i - 1 = f + i
    BY <1>2, <1>4, <1>5, <1>6
  <2>2. o[i] = s[(f + 1) + i - 1]
    BY <1>3, <1>7, <1>8
  <2> QED
    BY <2>1, <2>2
<1> QED
  BY <1>1, <1>3, <1>4, <1>5, <1>6, <1>9, <1>10, <1>11 DEF s, n, f, t, o

\* What is planned, and what the chunks merged so far cover, fix by fix.
LEMMA CoveredAreDone ==
    ASSUME MergeTypes
    PROVE  /\ Planned = {x \in DOMAIN track : \E k \in 1 .. Len(plan) :
                           \E j \in 1 .. Len(plan[k]) : x = plan[k][j]}
           /\ Covered = Done
<1>1. /\ PlanOf(plan, track) /\ track \in Seq(Fix) /\ Len(plan) \in Nat
      /\ DOMAIN plan = 1 .. Len(plan) /\ \A k \in 1 .. Len(plan) : DOMAIN plan[k] = 1 .. Len(plan[k])
  BY DEF MergeTypes, PlanOf
<1>2. \A k \in 1 .. Len(plan) : \A j \in 1 .. Len(plan[k]) : plan[k][j] \in DOMAIN track
  BY PlacesHere DEF Places
<1>3. Planned = {x \in DOMAIN track : \E k \in 1 .. Len(plan) :
                    \E j \in 1 .. Len(plan[k]) : x = plan[k][j]}
  <2>1. ASSUME NEW x PROVE x \in Planned <=> \E k \in 1 .. Len(plan) :
                                               \E j \in 1 .. Len(plan[k]) : x = plan[k][j]
    BY <1>1 DEF Planned, ToSet
  <2> QED
    BY <1>2, <2>1
<1>4. stretch \in Nat /\ stretch <= Len(plan) + 1
  BY <1>1 DEF MergeTypes
<1>5. ASSUME NEW k \in 1 .. Len(plan), NEW j \in 1 .. Len(plan[k])
      PROVE  (Sending => plan[k][j] < NextChunk.owned[1])
               <=> k < stretch \/ (k = stretch /\ j <= own_from(start))
  <2>1. CASE ~Sending
    BY <1>1, <1>4, <2>1 DEF Sending
  <2>2. CASE Sending
    <3> DEFINE f == own_from(start)
    <3>1. /\ stretch \in 1 .. Len(plan) /\ f \in Nat /\ f + 1 \in 1 .. Len(plan[stretch])
          /\ NextChunk.owned[1] = plan[stretch][f + 1]
      <4> DEFINE o == NextChunk.owned
                 t == own_to(start, Len(Sent))
      <4>1. /\ stretch \in 1 .. Len(plan) /\ f \in Nat /\ t \in Nat /\ f < t
            /\ \A i \in 1 .. t - f : f + i \in 1 .. Len(Sent) /\ o[i] = Sent[f + i]
        BY <2>2, OwnedAre
      <4> HIDE DEF o, t, f
      <4>2. 1 \in 1 .. t - f
        BY <4>1
      <4>3. f + 1 \in 1 .. Len(Sent) /\ o[1] = Sent[f + 1]
        BY <4>1, <4>2
      <4> QED
        BY <4>1, <4>3 DEF Sent, o
    <3> HIDE DEF f
    <3>2. plan[k][j] < plan[stretch][f + 1] <=> k < stretch \/ (k = stretch /\ j < f + 1)
      <4>1. Places
        BY PlacesHere
      <4>2. stretch \in 1 .. Len(plan) /\ f + 1 \in 1 .. Len(plan[stretch])
        BY <3>1
      <4> QED
        BY <4>1, <4>2 DEF Places
    <3>3. k = stretch => (j < f + 1 <=> j <= f)
      <4>1. Len(plan[k]) \in Nat
        BY <1>1 DEF PlanOf
      <4> QED
        BY <3>1, <4>1
    <3> QED
      BY <2>2, <3>1, <3>2, <3>3 DEF f
  <2> QED
    BY <2>1, <2>2
<1>6. Covered = Done
  <2>1. ASSUME NEW x PROVE x \in Covered <=> x \in Done
    <3> DEFINE Before(y) == Sending => y < NextChunk.owned[1]
               Behind(k, j) == k < stretch \/ (k = stretch /\ j <= own_from(start))
    <3>1. x \in Covered <=> x \in Planned /\ Before(x)
      BY DEF Covered
    <3>2. x \in Done <=> /\ x \in DOMAIN track
                        /\ \E k \in 1 .. Len(plan) : \E j \in 1 .. Len(plan[k]) :
                              x = plan[k][j] /\ Behind(k, j)
      BY DEF Done
    <3>3. \A k \in 1 .. Len(plan) : \A j \in 1 .. Len(plan[k]) :
             Before(plan[k][j]) <=> Behind(k, j)
      BY <1>5
    <3> HIDE DEF Before, Behind
    <3>4. ASSUME x \in Covered PROVE x \in Done
      <4>1. PICK k \in 1 .. Len(plan) : \E j \in 1 .. Len(plan[k]) : x = plan[k][j]
        BY <1>3, <3>1, <3>4
      <4>2. PICK j \in 1 .. Len(plan[k]) : x = plan[k][j]
        BY <4>1
      <4>3. Behind(k, j)
        BY <3>1, <3>3, <3>4, <4>2
      <4> QED
        BY <1>3, <3>1, <3>2, <3>4, <4>2, <4>3
    <3>5. ASSUME x \in Done PROVE x \in Covered
      <4>1. PICK k \in 1 .. Len(plan) : \E j \in 1 .. Len(plan[k]) :
                    x = plan[k][j] /\ Behind(k, j)
        BY <3>2, <3>5
      <4>2. PICK j \in 1 .. Len(plan[k]) : x = plan[k][j] /\ Behind(k, j)
        BY <4>1
      <4>3. Before(plan[k][j]) /\ Before(x)
        BY <3>3, <4>2
      <4>4. x \in Planned
        BY <1>3, <3>2, <3>5, <4>2
      <4> QED
        BY <3>1, <4>3, <4>4
    <3> QED
      BY <3>4, <3>5
  <2>2. Covered \subseteq Planned /\ Done \subseteq DOMAIN track
    BY DEF Covered, Done
  <2> QED
    BY <2>1, <2>2
<1> QED
  BY <1>3, <1>6

\* Going on to the next chunk adds what the chunk owns to the fixes done.
LEMMA AdvanceDoes ==
    ASSUME MergeTypes, Sending, Advance(NextChunk)
    PROVE  /\ track' = track /\ plan' = plan
           /\ stretch' \in 1 .. Len(plan') + 1 /\ start' \in Nat
           /\ IF Sending' THEN Started(start', Len(Sent')) ELSE start' = 0
           /\ Done' = Done \cup {x \in DOMAIN track :
                                   \E i \in DOMAIN NextChunk.owned : NextChunk.owned[i] = x}
           /\ Sending' /\ start' # 0 =>
                 Sent'[own_from(start')] = NextChunk.owned[Len(NextChunk.owned)]
<1> DEFINE s == Sent
           n == Len(s)
           f == own_from(start)
           t == own_to(start, n)
           o == NextChunk.owned
<1>1. /\ stretch \in 1 .. Len(plan) /\ f \in Nat /\ t \in Nat
      /\ f < t /\ t <= n /\ o \in Seq(DOMAIN track)
      /\ DOMAIN o = 1 .. t - f /\ Len(o) = t - f
      /\ \A i \in 1 .. t - f : f + i \in 1 .. n /\ o[i] = s[f + i]
      /\ NextChunk.is_last <=> start + ChunkPoints >= n
      /\ start = 0 => f = 0
  BY OwnedAre
<1>2. /\ track' = track /\ plan' = plan
      /\ stretch' = IF NextChunk.is_last THEN stretch + 1 ELSE stretch
      /\ start' = IF NextChunk.is_last THEN 0 ELSE start + ChunkPoints - Overlap
  BY DEF Advance
<1>3. /\ PlanOf(plan, track) /\ Len(plan) \in Nat /\ s = plan[stretch] /\ n \in Nat \ {0}
      /\ DOMAIN plan = 1 .. Len(plan) /\ track \in Seq(Fix)
  BY <1>1 DEF MergeTypes, PlanOf, Sent
<1>4. start \in Nat /\ Started(start, n)
  BY DEF MergeTypes
<1>5. /\ start + ChunkPoints >= n => t = n
      /\ start + ChunkPoints < n =>
            /\ Started(start + Step, n)
            /\ own_from(start + Step) = t
      /\ own_from(0) = 0
  BY <1>3, <1>4, OwnershipPartitionsTheStretch
<1>6. start + ChunkPoints - Overlap = start + Step /\ start + Step \in Nat
  BY <1>4, ChunkAssumption DEF Step
<1>7. start + ChunkPoints \in Nat
  BY <1>4, ChunkAssumption
<1> DEFINE Is(x, k, j) == x = plan[k][j]
<1>8. /\ Done = {x \in DOMAIN track :
             \E k \in 1 .. Len(plan) : \E j \in 1 .. Len(plan[k]) :
                Is(x, k, j) /\ (k < stretch \/ (k = stretch /\ j <= f))}
      /\ Done' = {x \in DOMAIN track :
             \E k \in 1 .. Len(plan) : \E j \in 1 .. Len(plan[k]) :
                Is(x, k, j) /\ (k < stretch' \/ (k = stretch' /\ j <= own_from(start')))}
  BY <1>2 DEF Done
<1> HIDE DEF f, t
<1>9. ASSUME NEW k \in 1 .. Len(plan), NEW j \in 1 .. Len(plan[k])
      PROVE  k < stretch' \/ (k = stretch' /\ j <= own_from(start'))
               <=> \/ k < stretch \/ (k = stretch /\ j <= f)
                   \/ k = stretch /\ j > f /\ j <= t
  <2>0. k = stretch => j \in Nat /\ j <= n
    BY <1>3
  <2> HIDE DEF s, n, o
  <2>1. CASE NextChunk.is_last
    <3>1. t = n /\ stretch' = stretch + 1 /\ own_from(start') = 0
      BY <1>1, <1>2, <1>5, <2>1
    <3>2. k = stretch' => ~(j <= 0)
      BY <1>3 DEF PlanOf
    <3>3. k < stretch' <=> k < stretch \/ k = stretch
      BY <1>1, <1>3, <3>1
    <3>4. k = stretch <=> k = stretch /\ (j <= f \/ (j > f /\ j <= t))
      <4>1. k = stretch => j \in Nat /\ j <= t
        BY <2>0, <3>1
      <4> QED
        BY <1>1, <4>1
    <3>5. ~(k = stretch' /\ j <= own_from(start'))
      BY <3>1, <3>2
    <3> QED
      BY <3>3, <3>4, <3>5, Zenon
  <2>2. CASE ~NextChunk.is_last
    <3>1. stretch' = stretch /\ own_from(start') = t
      <4>1. stretch' = stretch /\ start' = start + Step
        BY <1>2, <1>6, <2>2
      <4>2. start + ChunkPoints < n
        BY <1>1, <1>3, <1>7, <2>2
      <4>3. own_from(start + Step) = t
        BY <1>5, <4>2
      <4> QED
        BY <4>1, <4>3
    <3> QED
      BY <1>1, <2>0, <3>1
  <2> QED
    BY <2>1, <2>2
<1>10. ASSUME NEW x \in DOMAIN track
       PROVE  (\E i \in DOMAIN o : o[i] = x)
                <=> \E k \in 1 .. Len(plan) : \E j \in 1 .. Len(plan[k]) :
                       Is(x, k, j) /\ k = stretch /\ j > f /\ j <= t
  <2>1. ASSUME NEW i \in 1 .. t - f PROVE f + i \in 1 .. n /\ f + i > f /\ f + i <= t
    BY <1>1
  <2>2. ASSUME NEW j \in 1 .. n, j > f, j <= t PROVE j - f \in 1 .. t - f /\ f + (j - f) = j
    BY <1>1, <1>3, <2>2
  <2>3. (\E i \in DOMAIN o : o[i] = x) => \E j \in 1 .. n : s[j] = x /\ j > f /\ j <= t
    BY <1>1, <2>1
  <2>4. (\E j \in 1 .. n : s[j] = x /\ j > f /\ j <= t) => \E i \in DOMAIN o : o[i] = x
    <3> SUFFICES ASSUME NEW j \in 1 .. n, s[j] = x, j > f, j <= t
                 PROVE  \E i \in DOMAIN o : o[i] = x
      OBVIOUS
    <3>1. j - f \in 1 .. t - f /\ f + (j - f) = j
      BY <2>2
    <3> QED
      BY <1>1, <3>1
  <2> QED
    BY <1>1, <1>3, <2>3, <2>4
<1>11. Done' = Done \cup {x \in DOMAIN track : \E i \in DOMAIN o : o[i] = x}
  <2> HIDE DEF s, n, o
  <2>1. ASSUME NEW x \in DOMAIN track
        PROVE  x \in Done' <=> x \in Done \/ \E i \in DOMAIN o : o[i] = x
    <3> DEFINE Before(k, j) == k < stretch \/ (k = stretch /\ j <= f)
               After(k, j) == k < stretch' \/ (k = stretch' /\ j <= own_from(start'))
               Owned(k, j) == k = stretch /\ j > f /\ j <= t
               Somewhere(P(_, _)) == \E k \in 1 .. Len(plan) : \E j \in 1 .. Len(plan[k]) :
                                        Is(x, k, j) /\ P(k, j)
    <3>1. /\ x \in Done <=> Somewhere(Before)
          /\ x \in Done' <=> Somewhere(After)
      BY <1>8
    <3>2. (\E i \in DOMAIN o : o[i] = x) <=> Somewhere(Owned)
      BY <1>10
    <3>3. \A k \in 1 .. Len(plan) : \A j \in 1 .. Len(plan[k]) :
             After(k, j) <=> Before(k, j) \/ Owned(k, j)
      BY <1>9
    <3> HIDE DEF Is, Before, After, Owned
    <3>4. Somewhere(After) <=> Somewhere(Before) \/ Somewhere(Owned)
      BY <3>3, Zenon
    <3> HIDE DEF Somewhere
    <3> QED
      BY <3>1, <3>2, <3>4
  <2> QED
    BY <1>8, <2>1
<1>12. Sending' /\ start' # 0 => Sent'[own_from(start')] = o[Len(o)]
  <2> SUFFICES ASSUME start' # 0 PROVE Sent'[own_from(start')] = o[Len(o)]
    OBVIOUS
  <2>1. ~NextChunk.is_last
    BY <1>2
  <2>2. stretch' = stretch /\ own_from(start') = t
    BY <1>1, <1>2, <1>3, <1>5, <1>6, <1>7, <2>1
  <2>3. Sent' = s
    BY <1>2, <2>2 DEF Sent
  <2>4. t - f \in 1 .. t - f /\ f + (t - f) = t
    BY <1>1
  <2> QED
    BY <1>1, <2>2, <2>3, <2>4
<1>13. IF Sending' THEN Started(start', Len(Sent')) ELSE start' = 0
  <2>1. CASE NextChunk.is_last
    BY <1>2, <2>1 DEF Started
  <2>2. CASE ~NextChunk.is_last
    <3>1. start + ChunkPoints < n /\ stretch' = stretch /\ start' = start + Step
      BY <1>1, <1>2, <1>3, <1>6, <1>7, <2>2
    <3>2. Sent' = s
      BY <1>2, <3>1 DEF Sent
    <3>3. Sending'
      BY <1>1, <1>2, <3>1 DEF Sending
    <3> QED
      BY <1>5, <3>1, <3>2, <3>3
  <2> QED
    BY <2>1, <2>2
<1>14. stretch' \in 1 .. Len(plan') + 1 /\ start' \in Nat
  BY <1>1, <1>2, <1>3, <1>6
<1> QED
  BY <1>2, <1>11, <1>12, <1>13, <1>14


\* Nothing lies between two fixes sent one after the other.
LEMMA Neighbours ==
    ASSUME MergeTypes, NEW k \in 1 .. Len(plan), NEW i \in 1 .. Len(plan[k]), i + 1 \in 1 .. Len(plan[k])
    PROVE  ~Parted(plan[k][i], plan[k][i + 1])
<1>1. PlanOf(plan, track) /\ track \in Seq(Fix)
  BY DEF MergeTypes
<1>p. Places
  BY PlacesHere
<1>k. k \in 1 .. Len(plan) /\ i \in 1 .. Len(plan[k]) /\ i + 1 \in 1 .. Len(plan[k])
  OBVIOUS
<1> DEFINE x == plan[k][i]
           y == plan[k][i + 1]
<1>2. x \in Nat /\ y \in Nat
  BY <1>k, <1>p DEF Places
<1>3. i \in Nat /\ i < i + 1 /\ Len(plan[k]) \in Nat
  BY <1>1 DEF PlanOf
<1>4. \A q \in x + 1 .. y : ~track[q].ghost
  BY <1>1, <1>3 DEF PlanOf
<1>5. ASSUME NEW q \in x + 1 .. y - 1, q \in Planned PROVE FALSE
  <2>l. PICK l \in 1 .. Len(plan) : \E j \in 1 .. Len(plan[l]) : q = plan[l][j]
    BY <1>5, CoveredAreDone
  <2>1. PICK j \in 1 .. Len(plan[l]) : q = plan[l][j]
    BY <2>l
  <2>2. x < q <=> k < l \/ (k = l /\ i < j)
    <3>1. x < plan[l][j] <=> k < l \/ (k = l /\ i < j)
      BY <1>k, <1>p DEF Places
    <3> QED
      BY <2>1, <3>1
  <2>3. q < y <=> l < k \/ (k = l /\ j < i + 1)
    <3>1. plan[l][j] < y <=> l < k \/ (l = k /\ j < i + 1)
      BY <1>k, <1>p DEF Places
    <3> QED
      BY <2>1, <3>1
  <2>4. x < q /\ q < y
    <3> HIDE DEF x, y
    <3> QED
      BY <1>2, <1>5
  <2>5. k \in Nat /\ l \in Nat /\ (k = l => j \in Nat)
    BY <1>1, <1>3 DEF PlanOf
  <2> QED
    BY <1>3, <2>2, <2>3, <2>4, <2>5
<1> HIDE DEF x, y
<1>6. \A q \in x + 1 .. y - 1 : q \in x + 1 .. y
  BY <1>2
<1> QED
  BY <1>4, <1>5, <1>6 DEF Parted, x, y

\* How the fixes done lie before those the next chunk owns.
LEMMA OwnedComeNext ==
    ASSUME MergeTypes, Sending
    PROVE  LET o == NextChunk.owned
               last == Sent[own_from(start)]
           IN  /\ o # <<>> /\ 1 \in DOMAIN o
               /\ \A i \in DOMAIN o : o[i] \in DOMAIN track /\ o[i] \in Nat /\ o[i] \notin Done
               /\ \A i, j \in DOMAIN o : i < j => o[i] < o[j]
               /\ \A x \in Done : x \in Nat /\ x < o[1]
               /\ \A i \in DOMAIN o : i # 1 => ~Parted(o[i - 1], o[i])
               /\ start = 0 => \A x \in Done : Parted(x, o[1])
               /\ start # 0 =>
                     /\ last \in Done /\ ~Parted(last, o[1])
                     /\ \A x \in Done : x <= last /\ (x # last => Parted(x, o[1]))
<1> DEFINE o == NextChunk.owned
           s == plan[stretch]
           f == own_from(start)
           t == own_to(start, Len(Sent))
<1>1. /\ stretch \in 1 .. Len(plan) /\ f \in Nat /\ t \in Nat /\ f < t
      /\ DOMAIN o = 1 .. t - f /\ Len(o) = t - f
      /\ \A i \in 1 .. t - f : f + i \in 1 .. Len(s) /\ o[i] = s[f + i]
      /\ start # 0 => f # 0
      /\ start = 0 => f = 0
  BY OwnedAre DEF Sent
<1>2. PlanOf(plan, track) /\ track \in Seq(Fix) /\ stretch \in Nat
  BY <1>1 DEF MergeTypes
<1>3. /\ Sent = s /\ Len(s) \in Nat
      /\ \A x \in Done : \E k \in 1 .. Len(plan) : \E j \in 1 .. Len(plan[k]) :
            x = plan[k][j] /\ (k < stretch \/ (k = stretch /\ j <= f))
      /\ \A k \in 1 .. Len(plan) : \A j \in 1 .. Len(plan[k]) :
            /\ plan[k][j] \in DOMAIN track
            /\ k < stretch \/ (k = stretch /\ j <= f) => plan[k][j] \in Done
  <2>1. Sent = s
    BY DEF Sent
  <2>2. Len(s) \in Nat
    BY <1>1, <1>2 DEF PlanOf
  <2>3. \A k \in 1 .. Len(plan) : \A j \in 1 .. Len(plan[k]) : plan[k][j] \in DOMAIN track
    BY PlacesHere DEF Places
  <2> QED
    BY <2>1, <2>2, <2>3 DEF Done
<1> HIDE DEF o, f, t, s
<1>k. stretch \in 1 .. Len(plan)
  BY <1>1
<1>p. Places
  BY PlacesHere
<1>4. 1 \in 1 .. t - f /\ o # <<>>
  BY <1>1
<1>5. \A i, j \in 1 .. Len(s) : /\ s[i] \in DOMAIN track /\ s[i] \in Nat
                                /\ s[i] < s[j] <=> i < j
  <2>1. \A i, j \in 1 .. Len(plan[stretch]) :
           /\ plan[stretch][i] \in DOMAIN track /\ plan[stretch][i] \in Nat
           /\ plan[stretch][i] < plan[stretch][j] <=> stretch < stretch \/ (stretch = stretch /\ i < j)
    BY <1>k, <1>p DEF Places
  <2>2. ~(stretch < stretch)
    BY <1>2
  <2> QED
    BY <2>1, <2>2 DEF s
<1>6. ASSUME NEW x \in Done, NEW i \in 1 .. Len(s), f < i
      PROVE  x \in Nat /\ x < s[i]
  <2>1. PICK k \in 1 .. Len(plan) : \E j \in 1 .. Len(plan[k]) :
            x = plan[k][j] /\ (k < stretch \/ (k = stretch /\ j <= f))
    BY <1>3
  <2>2. PICK j \in 1 .. Len(plan[k]) :
            x = plan[k][j] /\ (k < stretch \/ (k = stretch /\ j <= f))
    BY <2>1
  <2>3. /\ plan[k][j] \in Nat
        /\ plan[k][j] < plan[stretch][i] <=> k < stretch \/ (k = stretch /\ j < i)
    <3>1. i \in 1 .. Len(plan[stretch])
      BY DEF s
    <3> QED
      BY <1>k, <1>p, <3>1 DEF Places
  <2>4. k = stretch => j \in Nat
    BY <1>2 DEF PlanOf
  <2> QED
    BY <1>1, <1>3, <1>6, <2>2, <2>3, <2>4 DEF s
<1>7. \A i \in 1 .. t - f : o[i] \in DOMAIN track /\ o[i] \in Nat /\ o[i] \notin Done
  <2> TAKE i \in 1 .. t - f
  <2>1. f + i \in 1 .. Len(s) /\ o[i] = s[f + i] /\ f < f + i
    BY <1>1
  <2>2. o[i] \in DOMAIN track /\ o[i] \in Nat
    BY <1>5, <2>1
  <2>3. ~(o[i] < o[i])
    BY <2>2
  <2> QED
    BY <1>6, <2>1, <2>2, <2>3
<1>8. \A i, j \in 1 .. t - f : i < j => o[i] < o[j]
  <2> TAKE i, j \in 1 .. t - f
  <2>1. /\ f + i \in 1 .. Len(s) /\ o[i] = s[f + i]
        /\ f + j \in 1 .. Len(s) /\ o[j] = s[f + j]
        /\ i < j => f + i < f + j
    BY <1>1
  <2> QED
    BY <1>5, <2>1
<1>9. \A x \in Done : x \in Nat /\ x < o[1]
  <2>1. f + 1 \in 1 .. Len(s) /\ o[1] = s[f + 1] /\ f < f + 1
    BY <1>1, <1>4
  <2> QED
    BY <1>6, <2>1
<1>10. \A i \in 1 .. Len(s) : i + 1 \in 1 .. Len(s) => ~Parted(s[i], s[i + 1])
  BY <1>1, Neighbours DEF s
<1>11. \A i \in 1 .. t - f : i # 1 => ~Parted(o[i - 1], o[i])
  <2> SUFFICES ASSUME NEW i \in 1 .. t - f, i # 1 PROVE ~Parted(o[i - 1], o[i])
    OBVIOUS
  <2>1. i - 1 \in 1 .. t - f
    BY <1>1
  <2>2. /\ f + i \in 1 .. Len(s) /\ o[i] = s[f + i]
        /\ f + (i - 1) \in 1 .. Len(s) /\ o[i - 1] = s[f + (i - 1)]
    BY <1>1, <2>1
  <2>3. f + (i - 1) + 1 = f + i
    BY <1>1
  <2> QED
    BY <1>10, <2>2, <2>3
<1>12. ASSUME start = 0, NEW x \in Done PROVE Parted(x, o[1])
  <2>1. PICK k \in 1 .. Len(plan) : \E j \in 1 .. Len(plan[k]) :
            x = plan[k][j] /\ (k < stretch \/ (k = stretch /\ j <= f))
    BY <1>3
  <2>2. PICK j \in 1 .. Len(plan[k]) :
            x = plan[k][j] /\ (k < stretch \/ (k = stretch /\ j <= f))
    BY <2>1
  <2>3. k < stretch
    <3>1. Len(plan[k]) \in Nat /\ f = 0
      BY <1>1, <1>2, <1>12 DEF PlanOf
    <3> QED
      BY <2>2, <3>1
  <2>4. 1 \in 1 .. Len(plan[stretch]) /\ o[1] = plan[stretch][1]
    <3>1. f + 1 \in 1 .. Len(s) /\ o[1] = s[f + 1] /\ f + 1 = 1
      BY <1>1, <1>4, <1>12
    <3> QED
      BY <3>1 DEF s
  <2>5. \E q \in x + 1 .. o[1] - 1 : track[q].ghost
    BY <1>1, <1>2, <2>2, <2>3, <2>4 DEF PlanOf
  <2> QED
    BY <2>5 DEF Parted
<1>13. ASSUME start # 0
       PROVE  /\ s[f] \in Done /\ ~Parted(s[f], o[1])
              /\ \A x \in Done : x <= s[f] /\ (x # s[f] => Parted(x, o[1]))
  <2>1. /\ f \in 1 .. Len(s) /\ f + 1 \in 1 .. Len(s) /\ o[1] = s[f + 1] /\ f <= f /\ f < f + 1
    BY <1>1, <1>3, <1>4, <1>13
  <2>2. s[f] \in Done
    BY <1>1, <1>3, <2>1 DEF s
  <2>3. ~Parted(s[f], o[1])
    BY <1>10, <2>1
  <2>4. s[f] \in Nat /\ s[f] < o[1] /\ s[f] \in Planned /\ o[1] \in Nat
    <3>1. s[f] \in Planned
      BY <2>2, CoveredAreDone DEF Covered
    <3>2. s[f] < s[f + 1] /\ s[f] \in Nat /\ s[f + 1] \in Nat
      BY <1>5, <2>1
    <3> QED
      BY <2>1, <3>1, <3>2
  <2>5. ASSUME NEW x \in Done PROVE x \in Nat /\ x <= s[f]
    <3>1. PICK k \in 1 .. Len(plan) : \E j \in 1 .. Len(plan[k]) :
              x = plan[k][j] /\ (k < stretch \/ (k = stretch /\ j <= f))
      BY <1>3
    <3>2. PICK j \in 1 .. Len(plan[k]) :
              x = plan[k][j] /\ (k < stretch \/ (k = stretch /\ j <= f))
      BY <3>1
    <3>3. f \in 1 .. Len(plan[stretch])
      BY <2>1 DEF s
    <3>4. /\ plan[k][j] \in Nat
          /\ plan[stretch][f] < plan[k][j] <=> stretch < k \/ (stretch = k /\ f < j)
      <4>1. /\ plan[stretch][f] < plan[k][j] <=> stretch < k \/ (stretch = k /\ f < j)
        BY <1>k, <1>p, <3>3 DEF Places
      <4>2. plan[k][j] \in Nat
        BY <1>p DEF Places
      <4> QED
        BY <4>1, <4>2
    <3>5. ~(plan[stretch][f] < plan[k][j])
      <4>1. k \in Nat /\ (k = stretch => j \in Nat)
        BY <1>2 DEF PlanOf
      <4> QED
        BY <1>1, <1>2, <3>2, <3>4, <4>1
    <3>6. plan[stretch][f] \in Nat
      BY <2>4 DEF s
    <3> QED
      BY <3>2, <3>4, <3>5, <3>6 DEF s
  <2>6. ASSUME NEW x \in Done, x # s[f] PROVE Parted(x, o[1])
    <3> DEFINE y == s[f]
               z == o[1]
    <3>1. x \in Nat /\ x < y /\ y \in Nat /\ y < z /\ z \in Nat
      BY <2>4, <2>5, <2>6
    <3> HIDE DEF y, z
    <3>2. y \in x + 1 .. z - 1
      BY <3>1
    <3> QED
      BY <2>4, <3>2 DEF Parted, y, z
  <2> QED
    BY <2>2, <2>3, <2>5, <2>6
<1> QED
  BY <1>1, <1>3, <1>4, <1>7, <1>8, <1>9, <1>11, <1>12, <1>13 DEF o, f

\* The points after an answered chunk.
LEMMA PushedAre ==
    ASSUME MergeTypes, Sending, NEW answer \in [DOMAIN NextChunk.owned -> Match]
    PROVE  LET o == NextChunk.owned
               after == points \o Pushed(NextChunk, answer)
               n == Len(points)
           IN  /\ after \in Seq(Point) /\ n \in Nat /\ Len(o) \in Nat
               /\ DOMAIN points = 1 .. n /\ DOMAIN o = 1 .. Len(o)
               /\ DOMAIN after = 1 .. n + Len(o)
               /\ \A i \in 1 .. n : after[i] = points[i]
               /\ \A i \in 1 .. Len(o) :
                     /\ after[n + i].point = o[i]
                     /\ after[n + i].follows_gap
                          <=> i = 1 /\ (~previous.produced_points \/ start = 0)
<1> DEFINE o == NextChunk.owned
           m == Len(o)
           n == Len(points)
           pushed == Pushed(NextChunk, answer)
           after == points \o pushed
           follows(i) == i = 1 /\ (~previous.produced_points \/ NextChunk.opens)
<1>1. /\ o \in Seq(DOMAIN track) /\ m \in Nat /\ DOMAIN o = 1 .. m
      /\ NextChunk.opens <=> start = 0
  BY OwnedAre
<1>2. points \in Seq(Point) /\ n \in Nat /\ DOMAIN points = 1 .. n
  BY DEF MergeTypes
<1>3. \A i \in 1 .. m : o[i] \in DOMAIN track /\ o[i] \in Nat
  BY <1>1, OwnedComeNext
<1>4. pushed = [i \in 1 .. m |-> [point |-> o[i], matched |-> answer[i].matched,
                                  follows_gap |-> follows(i)]]
  BY <1>1 DEF Pushed
<1>5. \A i \in 1 .. m : answer[i].matched \in BOOLEAN /\ follows(i) \in BOOLEAN
  BY <1>1 DEF Match
<1>6. \A i \in 1 .. m : follows(i) <=> i = 1 /\ (~previous.produced_points \/ start = 0)
  BY <1>1
<1> HIDE DEF o, m, n, follows
<1>7. \A i \in 1 .. m : [point |-> o[i], matched |-> answer[i].matched,
                         follows_gap |-> follows(i)] \in Point
  BY <1>3, <1>5 DEF Point
<1>8. pushed \in [1 .. m -> Point]
  BY <1>4, <1>7
<1> HIDE DEF pushed
<1>9. pushed \in Seq(Point) /\ Len(pushed) = m
  BY <1>1, <1>8
<1>10. /\ after \in Seq(Point) /\ Len(after) = n + m
       /\ \A i \in 1 .. n : after[i] = points[i]
       /\ \A i \in 1 .. m : after[n + i] = pushed[i]
  <2>1. /\ points \o pushed \in Seq(Point)
        /\ Len(points \o pushed) = Len(points) + Len(pushed)
        /\ \A i \in 1 .. Len(points) + Len(pushed) :
              (points \o pushed)[i] = IF i <= Len(points) THEN points[i] ELSE pushed[i - Len(points)]
    BY <1>2, <1>9, ConcatProperties
  <2>2. \A i \in 1 .. n : i \in 1 .. n + m /\ i <= n
    BY <1>1, <1>2
  <2>3. \A i \in 1 .. m : n + i \in 1 .. n + m /\ ~(n + i <= n) /\ (n + i) - n = i
    BY <1>1, <1>2
  <2> QED
    BY <1>9, <2>1, <2>2, <2>3 DEF n
<1>11. \A i \in 1 .. m : pushed[i].point = o[i] /\ pushed[i].follows_gap = follows(i)
  BY <1>4 DEF pushed
<1>12. DOMAIN after = 1 .. n + m
  BY <1>10
<1> QED
  BY <1>1, <1>2, <1>6, <1>10, <1>11, <1>12 DEF o, m, n, pushed

\* What is recorded of the fixes after an answered chunk.
LEMMA RecordedAre ==
    ASSUME MergeTypes, Sending, NEW told \in [DOMAIN NextChunk.owned -> Match]
    PROVE  LET o == NextChunk.owned
               after == Recorded(NextChunk, told)
           IN  /\ after \in [DOMAIN track -> Match \cup {NoData}]
               /\ \A i \in DOMAIN o : after[o[i]] = told[i]
               /\ \A x \in DOMAIN track : (\A i \in DOMAIN o : o[i] # x) => after[x] = answered[x]
<1> DEFINE o == NextChunk.owned
           place(x) == CHOOSE i \in DOMAIN o : o[i] = x
           after == Recorded(NextChunk, told)
<1>1. answered \in [DOMAIN track -> Match \cup {NoData}]
  BY DEF MergeTypes
<1>2. \A i, j \in DOMAIN o : o[i] = o[j] => i = j
  <2>1. DOMAIN o \subseteq Nat
    BY OwnedAre
  <2>2. \A i, j \in DOMAIN o : /\ o[i] \in Nat /\ o[j] \in Nat
                               /\ i < j => o[i] < o[j]
                               /\ j < i => o[j] < o[i]
    BY OwnedComeNext
  <2> HIDE DEF o
  <2> QED
    BY <2>1, <2>2
<1>3. \A i \in DOMAIN o : o[i] \in DOMAIN track
  BY OwnedComeNext
<1>4. after = [x \in DOMAIN track |->
                  IF \E i \in DOMAIN o : o[i] = x THEN told[place(x)] ELSE answered[x]]
  BY <1>1 DEF Recorded
<1> HIDE DEF after, o
<1>5. \A i \in DOMAIN o : place(o[i]) = i
  BY <1>2
<1>6. \A x : (\E i \in DOMAIN o : o[i] = x) => place(x) \in DOMAIN o
  OBVIOUS
<1> HIDE DEF place
<1>7. \A x \in DOMAIN track : after[x] = IF \E i \in DOMAIN o : o[i] = x THEN told[place(x)] ELSE answered[x]
  BY <1>4
<1>8. \A x \in DOMAIN track : after[x] \in Match \cup {NoData}
  BY <1>1, <1>6, <1>7 DEF o
<1>9. after \in [DOMAIN track -> Match \cup {NoData}]
  BY <1>4, <1>8
<1>10. \A i \in DOMAIN o : after[o[i]] = told[i]
  BY <1>3, <1>5, <1>7
<1> QED
  BY <1>7, <1>9, <1>10 DEF o, after

\* A chunk that is answered, of its points or of none of them, keeps the invariant.
LEMMA AnswerKeeps ==
    ASSUME MergeInv, Sending, Advance(NextChunk),
           NEW answer \in [DOMAIN NextChunk.owned -> Match],
           NEW told \in [DOMAIN NextChunk.owned -> Match],
           points' = points \o Pushed(NextChunk, answer),
           answered' = Recorded(NextChunk, told),
           previous'.produced_points = (NextChunk.owned # <<>>)
    PROVE  MergeInv'
<1> DEFINE o == NextChunk.owned
           m == Len(o)
           n == Len(points)
           last == Sent[own_from(start)]
<1>t. MergeTypes
  BY DEF MergeInv
<1>1. /\ track' = track /\ plan' = plan
      /\ stretch' \in 1 .. Len(plan') + 1 /\ start' \in Nat
      /\ IF Sending' THEN Started(start', Len(Sent')) ELSE start' = 0
      /\ Done' = Done \cup {x \in DOMAIN track : \E i \in DOMAIN o : o[i] = x}
      /\ Sending' /\ start' # 0 => Sent'[own_from(start')] = o[Len(o)]
  BY <1>t, AdvanceDoes
<1>2. /\ o # <<>> /\ 1 \in DOMAIN o
      /\ \A i \in DOMAIN o : o[i] \in DOMAIN track /\ o[i] \in Nat /\ o[i] \notin Done
      /\ \A i, j \in DOMAIN o : i < j => o[i] < o[j]
      /\ \A x \in Done : x \in Nat /\ x < o[1]
      /\ \A i \in DOMAIN o : i # 1 => ~Parted(o[i - 1], o[i])
      /\ start = 0 => \A x \in Done : Parted(x, o[1])
      /\ start # 0 => /\ last \in Done /\ ~Parted(last, o[1])
                      /\ \A x \in Done : x <= last /\ (x # last => Parted(x, o[1]))
  BY <1>t, OwnedComeNext
<1>3. /\ points' \in Seq(Point) /\ n \in Nat /\ m \in Nat
      /\ DOMAIN points = 1 .. n /\ DOMAIN o = 1 .. m
      /\ DOMAIN points' = 1 .. n + m
      /\ \A i \in 1 .. n : points'[i] = points[i]
      /\ \A i \in 1 .. m :
            /\ points'[n + i].point = o[i]
            /\ points'[n + i].follows_gap
                 <=> i = 1 /\ (~previous.produced_points \/ start = 0)
  <2> DEFINE after == points \o Pushed(NextChunk, answer)
  <2>1. /\ after \in Seq(Point) /\ n \in Nat /\ m \in Nat
        /\ DOMAIN points = 1 .. n /\ DOMAIN o = 1 .. m
        /\ DOMAIN after = 1 .. n + m
        /\ \A i \in 1 .. n : after[i] = points[i]
        /\ \A i \in 1 .. m :
              /\ after[n + i].point = o[i]
              /\ after[n + i].follows_gap
                   <=> i = 1 /\ (~previous.produced_points \/ start = 0)
    BY <1>t, PushedAre
  <2>2. points' = after
    OBVIOUS
  <2> HIDE DEF after, o, m, n
  <2> QED
    BY <2>1, <2>2
<1>4. /\ answered' \in [DOMAIN track -> Match \cup {NoData}]
      /\ \A i \in DOMAIN o : answered'[o[i]] = told[i]
      /\ \A x \in DOMAIN track : (\A i \in DOMAIN o : o[i] # x) => answered'[x] = answered[x]
  BY <1>t, RecordedAre
<1>5. /\ \A x \in DOMAIN track : x \notin Done => answered[x] = NoData
      /\ {points[i].point : i \in DOMAIN points} = {x \in Done : answered[x] # NoData}
      /\ \A i, j \in DOMAIN points : i < j => points[i].point < points[j].point
      /\ \A i \in DOMAIN points :
            points[i].follows_gap
               <=> i = 1 \/ Parted(IF i = 1 THEN 0 ELSE points[i - 1].point, points[i].point)
      /\ Sending /\ start # 0 => (previous.produced_points <=> answered[last] # NoData)
  BY DEF MergeInv
<1>6. \A i \in DOMAIN o : told[i] \in Match /\ told[i] # NoData
  BY MatchesAssumption
<1>7. \A x, y : Parted(x, y)' <=> Parted(x, y)
  BY <1>1 DEF Parted, Planned
<1>8. Done \subseteq DOMAIN track
  BY DEF Done
<1> HIDE DEF o, m, n, last
<1>9. \A i \in 1 .. n : /\ points[i].point \in Done /\ answered[points[i].point] # NoData
  <2>1. \A i \in DOMAIN points : points[i].point \in {x \in Done : answered[x] # NoData}
    BY <1>5
  <2> QED
    BY <1>3, <2>1
<1>s. \A x \in Done : answered[x] # NoData => \E i \in 1 .. n : points[i].point = x
  <2>1. \A x \in Done : answered[x] # NoData => x \in {points[i].point : i \in DOMAIN points}
    BY <1>5
  <2> QED
    BY <1>3, <2>1
<1>o. \A i, j \in 1 .. n : i < j => points[i].point < points[j].point
  BY <1>3, <1>5
<1>u. \A i \in 1 .. n : points'[i] = points[i]
  BY <1>3
<1>q. \A i \in 1 .. m :
         /\ points'[n + i].point = o[i]
         /\ points'[n + i].follows_gap <=> i = 1 /\ (~previous.produced_points \/ start = 0)
  BY <1>3
<1>10. \A i \in 1 .. n + m : i \in 1 .. n \/ (i - n \in 1 .. m /\ n + (i - n) = i)
  BY <1>3
<1>11. \A i \in 1 .. m : n + i \in 1 .. n + m
  BY <1>3
<1>12. \A i \in 1 .. n : i \in 1 .. n + m
  BY <1>3
<1>13. {points'[i].point : i \in DOMAIN points'} = {x \in Done' : answered'[x] # NoData}
  <2>1. ASSUME NEW i \in 1 .. n + m
        PROVE  points'[i].point \in Done' /\ answered'[points'[i].point] # NoData
    <3>1. CASE i \in 1 .. n
      <4> DEFINE x == points[i].point
      <4>1. x \in Done /\ answered[x] # NoData /\ points'[i].point = x
        BY <1>3, <1>9, <3>1
      <4> HIDE DEF x
      <4>2. \A j \in DOMAIN o : o[j] # x
        BY <1>2, <4>1
      <4>3. answered'[x] = answered[x] /\ x \in Done'
        BY <1>1, <1>4, <1>8, <4>1, <4>2
      <4> QED
        BY <4>1, <4>3
    <3>2. CASE i - n \in 1 .. m /\ n + (i - n) = i
      <4>1. points'[i].point = o[i - n] /\ i - n \in DOMAIN o
        BY <1>3, <3>2
      <4> DEFINE j == i - n
      <4>2. j \in DOMAIN o /\ points'[i].point = o[j]
        BY <4>1
      <4> HIDE DEF j
      <4>3. answered'[o[j]] # NoData
        BY <1>4, <1>6, <4>2
      <4>4. o[j] \in Done'
        BY <1>1, <1>2, <4>2
      <4> QED
        BY <4>2, <4>3, <4>4
    <3> QED
      BY <1>10, <3>1, <3>2
  <2>2. ASSUME NEW x \in Done', answered'[x] # NoData
        PROVE  \E i \in 1 .. n + m : points'[i].point = x
    <3>1. CASE \E i \in DOMAIN o : o[i] = x
      <4>1. PICK i \in 1 .. m : o[i] = x
        BY <1>3, <3>1
      <4> QED
        BY <1>3, <1>11, <4>1
    <3>2. CASE ~\E i \in DOMAIN o : o[i] = x
      <4>1. x \in Done /\ answered[x] # NoData
        BY <1>1, <1>4, <1>8, <2>2, <3>2
      <4>2. PICK i \in 1 .. n : points[i].point = x
        BY <1>s, <4>1
      <4> QED
        BY <1>3, <1>12, <4>2
    <3> QED
      BY <3>1, <3>2
  <2> DEFINE P == {points'[i].point : i \in DOMAIN points'}
             A == {x \in Done' : answered'[x] # NoData}
  <2>3. \A x \in P : x \in A
    BY <1>3, <2>1
  <2>4. ASSUME NEW x \in A PROVE x \in P
    <3>1. PICK i \in 1 .. n + m : points'[i].point = x
      BY <2>2
    <3>2. i \in DOMAIN points'
      BY <1>3
    <3> QED
      BY <3>1, <3>2
  <2> HIDE DEF P, A
  <2>5. P = A
    BY <2>3, <2>4
  <2> QED
    BY <2>5 DEF P, A
<1>14. \A i, j \in DOMAIN points' : i < j => points'[i].point < points'[j].point
  <2> SUFFICES ASSUME NEW i \in 1 .. n + m, NEW j \in 1 .. n + m, i < j
               PROVE  points'[i].point < points'[j].point
    BY <1>3
  <2>1. CASE i \in 1 .. n /\ j \in 1 .. n
    <3>1. points[i].point < points[j].point
      BY <1>o, <2>1
    <3> QED
      BY <1>3, <2>1, <3>1
  <2>2. CASE i \in 1 .. n /\ j - n \in 1 .. m /\ n + (j - n) = j
    <3>1. points'[i].point \in Done /\ points'[j].point = o[j - n] /\ j - n \in 1 .. m
      <4>1. points'[i].point \in Done
        BY <1>9, <1>u, <2>2
      <4>2. points'[n + (j - n)].point = o[j - n]
        BY <1>q, <2>2
      <4> QED
        BY <2>2, <4>1, <4>2
    <3>2. points'[i].point \in Nat /\ points'[i].point < o[1]
      BY <1>2, <3>1
    <3>3. o[1] \in Nat /\ o[j - n] \in Nat /\ (j - n # 1 => o[1] < o[j - n])
      <4>1. 1 \in 1 .. m /\ (j - n # 1 => 1 < j - n)
        BY <1>2, <1>3, <3>1
      <4> QED
        BY <1>2, <1>3, <3>1, <4>1

    <3> DEFINE x == points'[i].point
               y == o[1]
               z == o[j - n]
    <3>4. x \in Nat /\ y \in Nat /\ z \in Nat /\ x < y /\ (j - n = 1 => y = z) /\ (j - n # 1 => y < z)
      BY <3>2, <3>3
    <3> HIDE DEF x, y, z
    <3>5. x < z
      BY <3>4
    <3> QED
      BY <3>1, <3>5 DEF x, z
  <2>3. CASE i - n \in 1 .. m /\ n + (i - n) = i /\ j - n \in 1 .. m /\ n + (j - n) = j
    <3>1. i - n < j - n
      BY <1>3, <2>3, <2>3
    <3>2. points'[i].point = o[i - n] /\ points'[j].point = o[j - n]
      <4>1. points'[n + (i - n)].point = o[i - n]
        BY <1>q, <2>3
      <4>2. points'[n + (j - n)].point = o[j - n]
        BY <1>q, <2>3
      <4> QED
        BY <2>3, <4>1, <4>2
    <3>3. i - n \in DOMAIN o /\ j - n \in DOMAIN o
      BY <1>3, <2>3
    <3>4. \A x, y \in DOMAIN o : x < y => o[x] < o[y]
      BY <1>2
    <3>5. o[i - n] < o[j - n]
      BY <3>1, <3>3, <3>4
    <3> QED
      BY <3>2, <3>5
  <2>4. CASE i - n \in 1 .. m /\ j \in 1 .. n
    BY <1>3, <2>4
  <2> QED
    BY <1>10, <2>1, <2>2, <2>3, <2>4
<1> DEFINE Marked(i) ==
              points'[i].follows_gap
                <=> i = 1 \/ Parted(IF i = 1 THEN 0 ELSE points'[i - 1].point, points'[i].point)
<1>15. ASSUME NEW i \in 1 .. n PROVE Marked(i)
  <2>1. points'[i] = points[i] /\ (i # 1 => points'[i - 1] = points[i - 1])
    <3>1. i # 1 => i - 1 \in 1 .. n
      BY <1>3
    <3> QED
      BY <1>3, <3>1, Zenon
  <2>2. points[i].follows_gap
          <=> i = 1 \/ Parted(IF i = 1 THEN 0 ELSE points[i - 1].point, points[i].point)
    <3>1. i \in DOMAIN points
      BY <1>3
    <3> QED
      BY <1>5, <3>1, Zenon
  <2>3. CASE i = 1
    BY <2>1, <2>2, <2>3
  <2>4. CASE i # 1
    BY <2>1, <2>2, <2>4
  <2> QED
    BY <2>3, <2>4
<1>16. ASSUME NEW i \in 1 .. m, i # 1 PROVE Marked(n + i)
  <2>1. i - 1 \in 1 .. m /\ n + (i - 1) = (n + i) - 1 /\ n + i # 1
    <3>1. n \in Nat /\ m \in Nat
      BY <1>3
    <3> QED
      BY <1>16, <3>1
  <2>2. /\ points'[n + i].point = o[i] /\ points'[n + (i - 1)].point = o[i - 1]
        /\ ~points'[n + i].follows_gap
    BY <1>q, <1>16, <2>1, Zenon
  <2>3. ~Parted(o[i - 1], o[i])
    BY <1>2, <1>3, <1>16
  <2> QED
    BY <2>1, <2>2, <2>3
<1>17. Marked(n + 1)
  <2>1. 1 \in 1 .. m
    BY <1>2, <1>3
  <2>2. /\ points'[n + 1].point = o[1]
        /\ points'[n + 1].follows_gap <=> ~previous.produced_points \/ start = 0
    BY <1>3, <2>1
  <2>3. start # 0 => /\ last \in Done
                     /\ previous.produced_points <=> answered[last] # NoData
    BY <1>2, <1>5
  <2>4. CASE n = 0
    <3>1. n + 1 = 1
      BY <2>4
    <3>2. ~\E i \in 1 .. n : points[i].point = last
      BY <2>4
    <3>3. start # 0 => ~previous.produced_points
      BY <1>s, <2>3, <3>2
    <3> QED
      BY <2>2, <3>1, <3>3
  <2>5. CASE n # 0
    <3> DEFINE x == points[n].point
    <3>1. n \in 1 .. n /\ n + 1 # 1 /\ (n + 1) - 1 = n
      BY <1>3, <2>5
    <3>2. x \in Done /\ answered[x] # NoData /\ points'[(n + 1) - 1].point = x
      BY <1>3, <1>9, <3>1
    <3> HIDE DEF x
    <3>3. points'[n + 1].follows_gap <=> Parted(x, o[1])
      <4>1. CASE start = 0
        BY <1>2, <2>2, <3>2, <4>1
      <4>2. CASE start # 0 /\ ~previous.produced_points
        <5>1. x # last
          BY <2>3, <3>2, <4>2
        <5> QED
          BY <1>2, <2>2, <3>2, <4>2, <5>1
      <4>3. CASE start # 0 /\ previous.produced_points
        <5>1. PICK i \in 1 .. n : points[i].point = last
          BY <1>s, <2>3, <4>3
        <5>2. x \in Nat /\ last \in Nat /\ x <= last
          BY <1>2, <3>2, <4>3
        <5>3. i = n \/ last < x
          <6>1. i = n \/ i < n
            BY <1>3
          <6> QED
            BY <1>3, <1>5, <3>1, <5>1, <6>1 DEF x
        <5>4. x = last
          BY <5>1, <5>2, <5>3 DEF x
        <5> QED
          BY <1>2, <2>2, <4>3, <5>4
      <4> QED
        BY <4>1, <4>2, <4>3
    <3> QED
      BY <2>2, <3>1, <3>2, <3>3
  <2> QED
    BY <2>4, <2>5
<1>18. \A i \in DOMAIN points' : Marked(i)
  <2> SUFFICES ASSUME NEW i \in 1 .. n + m PROVE Marked(i)
    BY <1>3
  <2> HIDE DEF Marked
  <2>1. CASE i \in 1 .. n
    BY <1>15, <2>1
  <2>2. CASE i - n \in 1 .. m /\ n + (i - n) = i
    BY <1>16, <1>17, <2>2
  <2> QED
    BY <1>10, <2>1, <2>2
<1>19. \A x \in DOMAIN track : x \notin Done' => answered'[x] = NoData
  BY <1>1, <1>4, <1>5
<1>20. Sending' /\ start' # 0 =>
          (previous'.produced_points <=> answered'[Sent'[own_from(start')]] # NoData)
  <2>1. m \in DOMAIN o /\ Len(o) = m
    BY <1>2, <1>3 DEF m
  <2> DEFINE x == o[m]
  <2>2. answered'[x] # NoData
    BY <1>4, <1>6, <2>1
  <2>3. previous'.produced_points
    BY <1>2 DEF o
  <2>4. Sending' /\ start' # 0 => Sent'[own_from(start')] = x
    BY <1>1, <2>1
  <2> HIDE DEF x
  <2> QED
    BY <2>2, <2>3, <2>4
<1>21. MergeTypes'
  <2>1. track' \in Seq(Fix) /\ PlanOf(plan', track')
    BY <1>t, <1>1 DEF MergeTypes
  <2>2. previous'.produced_points \in BOOLEAN
    BY DEF o
  <2>3. answered' \in [DOMAIN track' -> Match \cup {NoData}]
    BY <1>1, <1>4
  <2> QED
    BY <1>1, <1>3, <2>1, <2>2, <2>3 DEF MergeTypes
<1> QED
  BY <1>1, <1>7, <1>13, <1>14, <1>18, <1>19, <1>20, <1>21 DEF MergeInv

\* So does a chunk without an answer.
LEMMA FailKeeps ==
    ASSUME MergeInv, Sending, Failed
    PROVE  MergeInv'
<1> DEFINE o == NextChunk.owned
           m == Len(o)
<1>t. MergeTypes /\ Advance(NextChunk)
  BY DEF MergeInv, Failed
<1>1. /\ track' = track /\ plan' = plan
      /\ stretch' \in 1 .. Len(plan') + 1 /\ start' \in Nat
      /\ IF Sending' THEN Started(start', Len(Sent')) ELSE start' = 0
      /\ Done' = Done \cup {x \in DOMAIN track : \E i \in DOMAIN o : o[i] = x}
      /\ Sending' /\ start' # 0 => Sent'[own_from(start')] = o[m]
  BY <1>t, AdvanceDoes
<1>2. o # <<>> /\ \A i \in DOMAIN o : o[i] \in DOMAIN track /\ o[i] \notin Done
  BY <1>t, OwnedComeNext
<1>3. m \in DOMAIN o
  BY <1>t, <1>2, OwnedAre
<1>4. points' = points /\ answered' = answered /\ previous'.produced_points = FALSE
  BY DEF Failed
<1>5. /\ \A x \in DOMAIN track : x \notin Done => answered[x] = NoData
      /\ {points[i].point : i \in DOMAIN points} = {x \in Done : answered[x] # NoData}
      /\ \A i, j \in DOMAIN points : i < j => points[i].point < points[j].point
      /\ \A i \in DOMAIN points :
            points[i].follows_gap
               <=> i = 1 \/ Parted(IF i = 1 THEN 0 ELSE points[i - 1].point, points[i].point)
  BY DEF MergeInv
<1> HIDE DEF o, m
<1>6. {x \in Done' : answered'[x] # NoData} = {x \in Done : answered[x] # NoData}
  BY <1>1, <1>2, <1>4, <1>5
<1>7. \A x, y : Parted(x, y)' <=> Parted(x, y)
  BY <1>1 DEF Parted, Planned
<1>8. \A x \in DOMAIN track : x \notin Done' => answered'[x] = NoData
  BY <1>1, <1>4, <1>5
<1>9. Sending' /\ start' # 0 => answered'[Sent'[own_from(start')]] = NoData
  BY <1>1, <1>2, <1>3, <1>4, <1>5
<1>10. MergeTypes'
  BY <1>t, <1>1, <1>4 DEF MergeTypes
<1> QED
  BY <1>1, <1>4, <1>5, <1>6, <1>7, <1>8, <1>9, <1>10 DEF MergeInv

LEMMA MergeInitKeeps == MergeInit => MergeInv
<1> SUFFICES ASSUME MergeInit PROVE MergeInv
  OBVIOUS
<1>1. track \in Seq(Fix) /\ PlanOf(plan, track)
  BY RecordingsAssumption, StretchesAre DEF MergeInit
<1>2. /\ stretch = 1 /\ start = 0 /\ points = <<>>
      /\ previous.produced_points = FALSE
      /\ answered = [p \in DOMAIN track |-> NoData]
  BY DEF MergeInit
<1>3. Done = {}
  <2>1. own_from(0) = 0
    BY DEF own_from
  <2>2. \A k \in 1 .. Len(plan) : \A j \in 1 .. Len(plan[k]) : ~(k < 1) /\ ~(j <= 0)
    BY <1>1 DEF PlanOf
  <2> QED
    BY <1>2, <2>1, <2>2 DEF Done
<1>4. MergeTypes
  <2>1. stretch \in 1 .. Len(plan) + 1 /\ start \in Nat
    BY <1>1, <1>2 DEF PlanOf
  <2>2. IF Sending THEN Started(start, Len(Sent)) ELSE start = 0
    BY <1>2 DEF Started
  <2>3. answered \in [DOMAIN track -> Match \cup {NoData}] /\ points \in Seq(Point)
    BY <1>2
  <2>4. previous.produced_points \in BOOLEAN
    BY <1>2
  <2> QED
    BY <1>1, <2>1, <2>2, <2>3, <2>4 DEF MergeTypes
<1> QED
  BY <1>2, <1>3, <1>4 DEF MergeInv

LEMMA MergeStep == MergeInv /\ [MergeNext]_mergeVars => MergeInv'
<1> SUFFICES ASSUME MergeInv, [MergeNext]_mergeVars PROVE MergeInv'
  OBVIOUS
<1>1. CASE UNCHANGED mergeVars
  <2>1. /\ track' = track /\ plan' = plan /\ stretch' = stretch /\ start' = start
        /\ points' = points /\ previous' = previous /\ answered' = answered
    BY <1>1 DEF mergeVars
  <2>2. Done' = Done
    BY <2>1 DEF Done
  <2>3. \A x, y : Parted(x, y)' <=> Parted(x, y)
    BY <2>1 DEF Parted, Planned
  <2>4. Sending' = Sending /\ Sent' = Sent
    BY <2>1 DEF Sending, Sent
  <2>5. MergeTypes'
    BY <2>1, <2>4 DEF MergeInv, MergeTypes
  <2> QED
    BY <2>1, <2>2, <2>3, <2>4, <2>5 DEF MergeInv
<1>2. ASSUME Sending, NEW answer \in [DOMAIN NextChunk.owned -> Matches],
             NEW drawn \in BOOLEAN, Matched(answer, drawn)
      PROVE  MergeInv'
  <2> DEFINE o == NextChunk.owned
             told == IF drawn THEN answer ELSE [i \in DOMAIN answer |-> Unsnapped]
  <2>1. answer \in [DOMAIN o -> Match]
    BY MatchesAssumption
  <2>2. told \in [DOMAIN o -> Match]
    <3>1. Unsnapped \in Match
      BY DEF Unsnapped, Match
    <3> QED
      BY <2>1, <3>1
  <2>3. /\ Advance(NextChunk)
        /\ points' = points \o Pushed(NextChunk, answer)
        /\ answered' = Recorded(NextChunk, told)
        /\ previous'.produced_points = (NextChunk.owned # <<>>)
    BY <1>2 DEF Matched
  <2> HIDE DEF told
  <2> QED
    BY <1>2, <2>1, <2>2, <2>3, AnswerKeeps
<1>3. ASSUME Sending, OffNetwork PROVE MergeInv'
  <2> DEFINE o == NextChunk.owned
             answer == [i \in DOMAIN o |-> Unsnapped]
  <2>1. answer \in [DOMAIN o -> Match]
    <3>1. Unsnapped \in Match
      BY DEF Unsnapped, Match
    <3> QED
      BY <3>1
  <2>2. /\ Advance(NextChunk)
        /\ points' = points \o Pushed(NextChunk, answer)
        /\ answered' = Recorded(NextChunk, answer)
        /\ previous'.produced_points = (NextChunk.owned # <<>>)
    BY <1>3 DEF OffNetwork
  <2> HIDE DEF answer
  <2> QED
    BY <1>3, <2>1, <2>2, AnswerKeeps
<1>4. ASSUME Sending, Failed PROVE MergeInv'
  BY <1>4, FailKeeps
<1> QED
  BY <1>1, <1>2, <1>3, <1>4 DEF MergeNext

\* The result of a run has exactly the answered fixes, once and in their order, and
\* marks where no snap data precedes one (SnapResult::points, merge), for every
\* track, every length of a chunk and of its even overlap and every answer.
THEOREM PointsAreAnswered == MergeSpec => []PointsAreTheAnsweredFixes
<1>1. MergeInv => PointsAreTheAnsweredFixes
  <2> SUFFICES ASSUME MergeInv PROVE PointsAreTheAnsweredFixes
    OBVIOUS
  <2>1. Covered = Done
    BY CoveredAreDone DEF MergeInv
  <2> QED
    BY <2>1 DEF MergeInv, PointsAreTheAnsweredFixes, Parted
<1> QED
  BY MergeInitKeeps, MergeStep, <1>1, PTL DEF MergeSpec

-----------------------------------------------------------------------------
\* The roads a merge draws.

\* Segments over the fixes of X, in their order: within one each fix is linked to the
\* next by W, and the last of one is not to the first of the next.
Good(segs, X, W) ==
    /\ segs \in Seq(Seq(Nat)) /\ X \subseteq Nat
    /\ \A k \in 1 .. Len(segs) : /\ Len(segs[k]) # 0
                                 /\ \A i \in 1 .. Len(segs[k]) : segs[k][i] \in X
    /\ \A x \in X : \E k \in 1 .. Len(segs) : \E i \in 1 .. Len(segs[k]) : segs[k][i] = x
    /\ \A k \in 1 .. Len(segs) : \A i, j \in 1 .. Len(segs[k]) : i < j => segs[k][i] < segs[k][j]
    /\ \A k, l \in 1 .. Len(segs) : k < l =>
          \A i \in 1 .. Len(segs[k]), j \in 1 .. Len(segs[l]) : segs[k][i] < segs[l][j]
    /\ \A k \in 1 .. Len(segs) : \A i \in 1 .. Len(segs[k]) - 1 :
          <<segs[k][i], segs[k][i + 1]>> \in W
    /\ \A k \in 1 .. Len(segs) - 1 :
          <<segs[k][Len(segs[k])], segs[k + 1][1]>> \notin W

\* Segments followed by later ones.
LEMMA AppendedAre ==
    ASSUME NEW A, NEW B, NEW X, NEW Y, NEW W, Good(A, X, W), Good(B, Y, W),
           \A x \in X, y \in Y : x < y,
           A # <<>> /\ B # <<>> => <<A[Len(A)][Len(A[Len(A)])], B[1][1]>> \notin W
    PROVE  Good(A \o B, X \cup Y, W)
<1> DEFINE C == A \o B
           a == Len(A)
           b == Len(B)
<1>1. A \in Seq(Seq(Nat)) /\ B \in Seq(Seq(Nat)) /\ X \subseteq Nat /\ Y \subseteq Nat
  BY DEF Good
<1>2. a \in Nat /\ b \in Nat /\ (a # 0 => A # <<>>) /\ (b # 0 => B # <<>>)
  BY <1>1
<1>3. /\ C \in Seq(Seq(Nat)) /\ Len(C) = a + b
      /\ \A k \in 1 .. a + b : C[k] = IF k <= a THEN A[k] ELSE B[k - a]
  BY <1>1, ConcatProperties
<1> HIDE DEF C
<1>4. /\ \A k \in 1 .. a : k \in 1 .. a + b /\ C[k] = A[k]
      /\ \A k \in 1 .. b : a + k \in 1 .. a + b /\ C[a + k] = B[k]
      /\ \A k \in 1 .. a + b : k \in 1 .. a \/ \E l \in 1 .. b : k = a + l
  <2> HIDE DEF a, b
  <2>1. \A k \in 1 .. a : k \in 1 .. a + b /\ k <= a
    BY <1>2
  <2>2. \A k \in 1 .. b : a + k \in 1 .. a + b /\ ~(a + k <= a) /\ (a + k) - a = k
    BY <1>2
  <2>3. \A k \in 1 .. a + b : k \in 1 .. a \/ (k - a \in 1 .. b /\ k = a + (k - a))
    BY <1>2
  <2> QED
    BY <1>3, <2>1, <2>2, <2>3
<1>a. /\ \A k \in 1 .. a : Len(A[k]) # 0 /\ \A i \in 1 .. Len(A[k]) : A[k][i] \in X
      /\ \A x \in X : \E k \in 1 .. a : \E i \in 1 .. Len(A[k]) : A[k][i] = x
      /\ \A k \in 1 .. a : \A i, j \in 1 .. Len(A[k]) : i < j => A[k][i] < A[k][j]
      /\ \A k, l \in 1 .. a : k < l =>
            \A i \in 1 .. Len(A[k]), j \in 1 .. Len(A[l]) : A[k][i] < A[l][j]
      /\ \A k \in 1 .. a : \A i \in 1 .. Len(A[k]) - 1 : <<A[k][i], A[k][i + 1]>> \in W
      /\ \A k \in 1 .. a - 1 : <<A[k][Len(A[k])], A[k + 1][1]>> \notin W
  BY DEF Good
<1>b. /\ \A k \in 1 .. b : Len(B[k]) # 0 /\ \A i \in 1 .. Len(B[k]) : B[k][i] \in Y
      /\ \A x \in Y : \E k \in 1 .. b : \E i \in 1 .. Len(B[k]) : B[k][i] = x
      /\ \A k \in 1 .. b : \A i, j \in 1 .. Len(B[k]) : i < j => B[k][i] < B[k][j]
      /\ \A k, l \in 1 .. b : k < l =>
            \A i \in 1 .. Len(B[k]), j \in 1 .. Len(B[l]) : B[k][i] < B[l][j]
      /\ \A k \in 1 .. b : \A i \in 1 .. Len(B[k]) - 1 : <<B[k][i], B[k][i + 1]>> \in W
      /\ \A k \in 1 .. b - 1 : <<B[k][Len(B[k])], B[k + 1][1]>> \notin W
  BY DEF Good
<1> HIDE DEF a, b
<1>5. ASSUME NEW k \in 1 .. a + b
      PROVE  Len(C[k]) # 0 /\ \A i \in 1 .. Len(C[k]) : C[k][i] \in X \cup Y
  <2>1. CASE k \in 1 .. a
    BY <1>4, <1>a, <2>1
  <2>2. CASE \E l \in 1 .. b : k = a + l
    BY <1>4, <1>b, <2>2
  <2> QED
    BY <1>4, <2>1, <2>2
<1>6. ASSUME NEW x \in X \cup Y
      PROVE  \E k \in 1 .. a + b : \E i \in 1 .. Len(C[k]) : C[k][i] = x
  <2>1. CASE x \in X
    <3>1. PICK k \in 1 .. a : \E i \in 1 .. Len(A[k]) : A[k][i] = x
      BY <1>a, <2>1
    <3> QED
      BY <1>4, <3>1
  <2>2. CASE x \in Y
    <3>1. PICK k \in 1 .. b : \E i \in 1 .. Len(B[k]) : B[k][i] = x
      BY <1>b, <2>2
    <3> QED
      BY <1>4, <3>1
  <2> QED
    BY <2>1, <2>2
<1>7. ASSUME NEW k \in 1 .. a + b
      PROVE  /\ \A i, j \in 1 .. Len(C[k]) : i < j => C[k][i] < C[k][j]
             /\ \A i \in 1 .. Len(C[k]) - 1 : <<C[k][i], C[k][i + 1]>> \in W
  <2>1. CASE k \in 1 .. a
    <3>1. C[k] = A[k]
      BY <1>4, <2>1
    <3> QED
      BY <1>a, <2>1, <3>1
  <2>2. ASSUME NEW l \in 1 .. b, k = a + l
        PROVE  /\ \A i, j \in 1 .. Len(C[k]) : i < j => C[k][i] < C[k][j]
               /\ \A i \in 1 .. Len(C[k]) - 1 : <<C[k][i], C[k][i + 1]>> \in W
    <3>1. C[k] = B[l]
      BY <1>4, <2>2
    <3> QED
      BY <1>b, <3>1
  <2> QED
    BY <1>4, <2>1, <2>2
<1>8. ASSUME NEW k \in 1 .. a + b, NEW l \in 1 .. a + b, k < l,
             NEW i \in 1 .. Len(C[k]), NEW j \in 1 .. Len(C[l])
      PROVE  C[k][i] < C[l][j]
  <2>1. CASE k \in 1 .. a /\ l \in 1 .. a
    <3>1. C[k] = A[k] /\ C[l] = A[l]
      BY <1>4, <2>1
    <3> QED
      BY <1>a, <1>8, <2>1, <3>1
  <2>2. ASSUME k \in 1 .. a, NEW m \in 1 .. b, l = a + m PROVE C[k][i] < C[l][j]
    <3>1. C[k] = A[k] /\ C[l] = B[m]
      BY <1>4, <2>2
    <3>2. C[k][i] \in X /\ C[l][j] \in Y
      BY <1>a, <1>b, <2>2, <3>1
    <3> QED
      BY <3>2
  <2>3. ASSUME NEW n \in 1 .. b, k = a + n, NEW m \in 1 .. b, l = a + m PROVE C[k][i] < C[l][j]
    <3>1. C[k] = B[n] /\ C[l] = B[m] /\ n < m
      BY <1>2, <1>4, <1>8, <2>3
    <3> QED
      BY <1>b, <3>1
  <2>4. ASSUME NEW n \in 1 .. b, k = a + n, l \in 1 .. a PROVE FALSE
    BY <1>2, <1>8, <2>4
  <2> QED
    BY <1>4, <2>1, <2>2, <2>3, <2>4
<1>9. ASSUME NEW k \in 1 .. a + b - 1
      PROVE  <<C[k][Len(C[k])], C[k + 1][1]>> \notin W
  <2>1. CASE k \in 1 .. a - 1
    <3>1. k \in 1 .. a /\ k + 1 \in 1 .. a
      BY <1>2, <2>1
    <3>2. C[k] = A[k] /\ C[k + 1] = A[k + 1]
      BY <1>4, <3>1
    <3> QED
      BY <1>a, <2>1, <3>2
  <2>2. CASE k = a
    <3>1. a \in 1 .. a /\ 1 \in 1 .. b
      BY <1>2, <2>2
    <3>2. C[k] = A[a] /\ C[k + 1] = B[1]
      BY <1>4, <2>2, <3>1
    <3>3. A # <<>> /\ B # <<>>
      BY <1>2, <3>1
    <3> QED
      BY <3>2, <3>3 DEF a
  <2>3. CASE k - a \in 1 .. b - 1
    <3> DEFINE l == k - a
    <3>1. l \in 1 .. b /\ l + 1 \in 1 .. b /\ k = a + l /\ k + 1 = a + (l + 1)
      BY <1>2, <2>3
    <3>2. l \in 1 .. b - 1
      BY <2>3
    <3> HIDE DEF l
    <3>3. C[k] = B[l] /\ C[k + 1] = B[l + 1]
      BY <1>4, <3>1
    <3> QED
      BY <1>b, <3>2, <3>3
  <2>4. k \in 1 .. a - 1 \/ k = a \/ k - a \in 1 .. b - 1
    BY <1>2
  <2> QED
    BY <2>1, <2>2, <2>3, <2>4
<1> HIDE DEF Good
<1>10. Good(C, X \cup Y, W)
  <2>n. Len(C) = a + b
    BY <1>3
  <2>1. \A k \in 1 .. Len(C) : /\ Len(C[k]) # 0
                               /\ \A i \in 1 .. Len(C[k]) : C[k][i] \in X \cup Y
    BY <1>5, <2>n
  <2>2. \A x \in X \cup Y : \E k \in 1 .. Len(C) : \E i \in 1 .. Len(C[k]) : C[k][i] = x
    BY <1>6, <2>n
  <2>3. \A k \in 1 .. Len(C) : \A i, j \in 1 .. Len(C[k]) : i < j => C[k][i] < C[k][j]
    BY <1>7, <2>n
  <2>4. \A k, l \in 1 .. Len(C) : k < l =>
           \A i \in 1 .. Len(C[k]), j \in 1 .. Len(C[l]) : C[k][i] < C[l][j]
    BY <1>8, <2>n
  <2>5. \A k \in 1 .. Len(C) : \A i \in 1 .. Len(C[k]) - 1 : <<C[k][i], C[k][i + 1]>> \in W
    BY <1>7, <2>n
  <2>6. \A k \in 1 .. Len(C) - 1 : <<C[k][Len(C[k])], C[k + 1][1]>> \notin W
    <3>1. Len(C) - 1 = a + b - 1
      BY <1>2, <2>n
    <3>2. \A k \in 1 .. a + b - 1 : <<C[k][Len(C[k])], C[k + 1][1]>> \notin W
      BY <1>9
    <3> QED
      BY <3>1, <3>2
  <2>7. C \in Seq(Seq(Nat)) /\ X \cup Y \subseteq Nat
    BY <1>1, <1>3
  <2> QED
    BY <2>1, <2>2, <2>3, <2>4, <2>5, <2>6, <2>7 DEF Good
<1> QED
  BY <1>10 DEF C

\* Segments whose last runs on into the first of the later ones.
LEMMA JoinedAre ==
    ASSUME NEW A, NEW B, NEW X, NEW Y, NEW W, Good(A, X, W), Good(B, Y, W),
           A # <<>>, B # <<>>, \A x \in X, y \in Y : x < y,
           <<A[Len(A)][Len(A[Len(A)])], B[1][1]>> \in W
    PROVE  Good(Front(A) \o <<Last(A) \o Head(B)>> \o Tail(B), X \cup Y, W)
<1> DEFINE a == Len(A)
           b == Len(B)
           p == A[a]
           q == B[1]
           r == p \o q
           C == Front(A) \o <<Last(A) \o Head(B)>> \o Tail(B)
           n == a + b - 1
<1>1. A \in Seq(Seq(Nat)) /\ B \in Seq(Seq(Nat)) /\ X \subseteq Nat /\ Y \subseteq Nat
  BY DEF Good
<1>2. a \in Nat \ {0} /\ b \in Nat \ {0}
  BY <1>1
<1>a. /\ \A k \in 1 .. a : Len(A[k]) # 0 /\ \A i \in 1 .. Len(A[k]) : A[k][i] \in X
      /\ \A x \in X : \E k \in 1 .. a : \E i \in 1 .. Len(A[k]) : A[k][i] = x
      /\ \A k \in 1 .. a : \A i, j \in 1 .. Len(A[k]) : i < j => A[k][i] < A[k][j]
      /\ \A k, l \in 1 .. a : k < l =>
            \A i \in 1 .. Len(A[k]), j \in 1 .. Len(A[l]) : A[k][i] < A[l][j]
      /\ \A k \in 1 .. a : \A i \in 1 .. Len(A[k]) - 1 : <<A[k][i], A[k][i + 1]>> \in W
      /\ \A k \in 1 .. a - 1 : <<A[k][Len(A[k])], A[k + 1][1]>> \notin W
  BY DEF Good
<1>b. /\ \A k \in 1 .. b : Len(B[k]) # 0 /\ \A i \in 1 .. Len(B[k]) : B[k][i] \in Y
      /\ \A x \in Y : \E k \in 1 .. b : \E i \in 1 .. Len(B[k]) : B[k][i] = x
      /\ \A k \in 1 .. b : \A i, j \in 1 .. Len(B[k]) : i < j => B[k][i] < B[k][j]
      /\ \A k, l \in 1 .. b : k < l =>
            \A i \in 1 .. Len(B[k]), j \in 1 .. Len(B[l]) : B[k][i] < B[l][j]
      /\ \A k \in 1 .. b : \A i \in 1 .. Len(B[k]) - 1 : <<B[k][i], B[k][i + 1]>> \in W
      /\ \A k \in 1 .. b - 1 : <<B[k][Len(B[k])], B[k + 1][1]>> \notin W
  BY DEF Good
<1>w. <<p[Len(p)], q[1]>> \in W
  OBVIOUS
<1>3. /\ p \in Seq(Nat) /\ q \in Seq(Nat) /\ a \in 1 .. a /\ 1 \in 1 .. b
      /\ Len(p) \in Nat \ {0} /\ Len(q) \in Nat \ {0}
  <2>1. a \in 1 .. a /\ 1 \in 1 .. b
    BY <1>2
  <2>2. p \in Seq(Nat) /\ q \in Seq(Nat)
    BY <1>1, <2>1
  <2>3. Len(p) # 0 /\ Len(q) # 0
    BY <1>a, <1>b, <2>1
  <2> HIDE DEF p, q
  <2> QED
    BY <2>1, <2>2, <2>3
<1>4. Last(A) = p /\ Head(B) = q
  BY DEF Last
<1>5. /\ r \in Seq(Nat) /\ Len(r) = Len(p) + Len(q)
      /\ \A i \in 1 .. Len(p) + Len(q) : r[i] = IF i <= Len(p) THEN p[i] ELSE q[i - Len(p)]
  <2> HIDE DEF p, q
  <2> QED
    BY <1>3, ConcatProperties
<1>6. C \in Seq(Seq(Nat)) /\ Len(C) = n
      /\ \A k \in 1 .. n : C[k] = IF k < a THEN A[k] ELSE IF k = a THEN r ELSE B[k - a + 1]
  <2> DEFINE F == Front(A)
             T == Tail(B)
             M == <<r>>
             D == F \o M
  <2>1. C = (F \o M) \o T
    BY <1>4
  <2>2. F \in Seq(Seq(Nat)) /\ Len(F) = a - 1 /\ \A k \in 1 .. a - 1 : F[k] = A[k]
    <3> HIDE DEF a
    <3>1. \A k \in 1 .. a - 1 : A[k] \in Seq(Nat)
      BY <1>1, <1>2 DEF a
    <3>2. 1 \in Int /\ a - 1 \in Int
      BY <1>2
    <3>3. /\ SubSeq(A, 1, a - 1) \in Seq(Seq(Nat))
          /\ Len(SubSeq(A, 1, a - 1)) = IF 1 <= a - 1 THEN (a - 1) - 1 + 1 ELSE 0
          /\ \A i \in 1 .. (a - 1) - 1 + 1 : SubSeq(A, 1, a - 1)[i] = A[1 + i - 1]
      BY <3>1, <3>2, SubSeqProperties
    <3>4. F = SubSeq(A, 1, a - 1)
      BY DEF Front, a
    <3>5. (a - 1) - 1 + 1 = a - 1 /\ (~(1 <= a - 1) => a - 1 = 0)
      BY <1>2
    <3>6. \A i \in 1 .. a - 1 : 1 + i - 1 = i
      BY <1>2
    <3> HIDE DEF F
    <3> QED
      BY <3>3, <3>4, <3>5, <3>6
  <2>3. T \in Seq(Seq(Nat)) /\ Len(T) = b - 1 /\ \A k \in 1 .. b - 1 : T[k] = B[k + 1]
    <3>1. /\ Tail(B) \in Seq(Seq(Nat)) /\ Len(Tail(B)) = Len(B) - 1
          /\ \A i \in 1 .. Len(Tail(B)) : Tail(B)[i] = B[i + 1]
      BY <1>1, HeadTailProperties
    <3> QED
      BY <3>1
  <2>4. M \in Seq(Seq(Nat)) /\ Len(M) = 1 /\ M[1] = r
    <3> HIDE DEF r
    <3> QED
      BY <1>5
  <2> HIDE DEF F, T, M, C, a, b, r
  <2>5. D \in Seq(Seq(Nat)) /\ Len(D) = a /\ \A k \in 1 .. a : D[k] = IF k < a THEN A[k] ELSE r
    <3>1. /\ F \o M \in Seq(Seq(Nat)) /\ Len(F \o M) = Len(F) + Len(M)
          /\ \A k \in 1 .. Len(F) + Len(M) :
                (F \o M)[k] = IF k <= Len(F) THEN F[k] ELSE M[k - Len(F)]
      BY <2>2, <2>4, ConcatProperties
    <3>2. Len(F) + Len(M) = a
      BY <1>2, <2>2, <2>4
    <3>3. \A k \in 1 .. a : k < a => k <= Len(F) /\ k \in 1 .. a - 1
      BY <1>2, <2>2
    <3>4. \A k \in 1 .. a : ~(k < a) => ~(k <= Len(F)) /\ k - Len(F) = 1
      BY <1>2, <2>2
    <3> QED
      BY <2>2, <2>4, <3>1, <3>2, <3>3, <3>4
  <2> HIDE DEF D
  <2>6. /\ D \o T \in Seq(Seq(Nat)) /\ Len(D \o T) = Len(D) + Len(T)
        /\ \A k \in 1 .. Len(D) + Len(T) :
              (D \o T)[k] = IF k <= Len(D) THEN D[k] ELSE T[k - Len(D)]
    BY <2>3, <2>5, ConcatProperties
  <2>7. C = D \o T
    BY <2>1 DEF D
  <2>8. Len(D) + Len(T) = n
    BY <1>2, <2>3, <2>5
  <2>9. ASSUME NEW k \in 1 .. n
        PROVE  C[k] = IF k < a THEN A[k] ELSE IF k = a THEN r ELSE B[k - a + 1]
    <3>1. CASE k <= a
      BY <1>2, <2>5, <2>6, <2>7, <2>8, <3>1
    <3>2. CASE ~(k <= a)
      <4>1. k - a \in 1 .. b - 1 /\ ~(k < a) /\ k # a
        BY <1>2, <3>2
      <4> QED
        BY <2>3, <2>5, <2>6, <2>7, <2>8, <3>2, <4>1
    <3> QED
      BY <3>1, <3>2
  <2> QED
    BY <2>6, <2>7, <2>8, <2>9
<1> HIDE DEF C, r, p, q, a, b
<1>7. /\ \A k \in 1 .. a - 1 : k \in 1 .. a /\ k \in 1 .. n /\ C[k] = A[k]
      /\ a \in 1 .. n /\ C[a] = r
      /\ \A l \in 2 .. b : l \in 1 .. b /\ a + l - 1 \in 1 .. n /\ C[a + l - 1] = B[l]
      /\ \A k \in 1 .. n : k \in 1 .. a - 1 \/ k = a \/ \E l \in 2 .. b : k = a + l - 1
  <2>1. \A k \in 1 .. a - 1 : k \in 1 .. a /\ k \in 1 .. n /\ k < a
    BY <1>2
  <2>2. a \in 1 .. n /\ ~(a < a)
    BY <1>2
  <2>3. \A l \in 2 .. b : /\ l \in 1 .. b /\ a + l - 1 \in 1 .. n
                          /\ ~(a + l - 1 < a) /\ a + l - 1 # a /\ (a + l - 1) - a + 1 = l
    BY <1>2
  <2>4. \A k \in 1 .. n : k \in 1 .. a - 1 \/ k = a \/ (k - a + 1 \in 2 .. b /\ k = a + (k - a + 1) - 1)
    BY <1>2
  <2> HIDE DEF n
  <2>5. \A k \in 1 .. n : C[k] = IF k < a THEN A[k] ELSE IF k = a THEN r ELSE B[k - a + 1]
    BY <1>6
  <2>6. \A k \in 1 .. a - 1 : k \in 1 .. a /\ k \in 1 .. n /\ C[k] = A[k]
    BY <2>1, <2>5
  <2>7. \A l \in 2 .. b : l \in 1 .. b /\ a + l - 1 \in 1 .. n /\ C[a + l - 1] = B[l]
    BY <2>3, <2>5
  <2> QED
    BY <2>2, <2>4, <2>5, <2>6, <2>7
<1>8. /\ \A i \in 1 .. Len(p) : i \in 1 .. Len(r) /\ r[i] = p[i]
      /\ \A i \in 1 .. Len(q) : Len(p) + i \in 1 .. Len(r) /\ r[Len(p) + i] = q[i]
      /\ \A i \in 1 .. Len(r) : i \in 1 .. Len(p) \/ \E j \in 1 .. Len(q) : i = Len(p) + j
  <2>1. \A i \in 1 .. Len(p) : i \in 1 .. Len(p) + Len(q) /\ i <= Len(p)
    BY <1>3
  <2>2. \A i \in 1 .. Len(q) : /\ Len(p) + i \in 1 .. Len(p) + Len(q)
                               /\ ~(Len(p) + i <= Len(p)) /\ (Len(p) + i) - Len(p) = i
    BY <1>3
  <2>3. \A i \in 1 .. Len(p) + Len(q) :
           i \in 1 .. Len(p) \/ (i - Len(p) \in 1 .. Len(q) /\ i = Len(p) + (i - Len(p)))
    BY <1>3
  <2> QED
    BY <1>5, <2>1, <2>2, <2>3
<1>p. /\ \A i \in 1 .. Len(p) : p[i] \in X
      /\ \A i, j \in 1 .. Len(p) : i < j => p[i] < p[j]
      /\ \A i \in 1 .. Len(p) - 1 : <<p[i], p[i + 1]>> \in W
      /\ \A k \in 1 .. a - 1 : \A i \in 1 .. Len(A[k]), j \in 1 .. Len(p) : A[k][i] < p[j]
  <2>1. a \in 1 .. a
    BY <1>3
  <2>2. \A k \in 1 .. a - 1 : k \in 1 .. a /\ k < a
    BY <1>2
  <2> QED
    BY <1>a, <2>1, <2>2 DEF p
<1>q. /\ \A i \in 1 .. Len(q) : q[i] \in Y
      /\ \A i, j \in 1 .. Len(q) : i < j => q[i] < q[j]
      /\ \A i \in 1 .. Len(q) - 1 : <<q[i], q[i + 1]>> \in W
      /\ \A l \in 2 .. b : \A i \in 1 .. Len(q), j \in 1 .. Len(B[l]) : q[i] < B[l][j]
  <2>1. 1 \in 1 .. b
    BY <1>3
  <2>2. \A l \in 2 .. b : l \in 1 .. b /\ 1 < l
    BY <1>2
  <2> QED
    BY <1>b, <2>1, <2>2 DEF q
<1>9. \A i \in 1 .. Len(r) : r[i] \in X \cup Y
  BY <1>8, <1>p, <1>q
<1>10. ASSUME NEW i \in 1 .. Len(r), NEW j \in 1 .. Len(r), i < j PROVE r[i] < r[j]
  <2>1. CASE i \in 1 .. Len(p) /\ j \in 1 .. Len(p)
    BY <1>8, <1>10, <1>p, <2>1
  <2>2. ASSUME i \in 1 .. Len(p), NEW l \in 1 .. Len(q), j = Len(p) + l PROVE r[i] < r[j]
    BY <1>8, <1>p, <1>q, <2>2
  <2>3. ASSUME NEW k \in 1 .. Len(q), i = Len(p) + k, NEW l \in 1 .. Len(q), j = Len(p) + l
        PROVE  r[i] < r[j]
    <3>1. k < l
      BY <1>3, <1>10, <2>3
    <3> QED
      BY <1>8, <1>q, <2>3, <3>1
  <2>4. ASSUME NEW k \in 1 .. Len(q), i = Len(p) + k, j \in 1 .. Len(p) PROVE FALSE
    BY <1>3, <1>10, <2>4
  <2> QED
    BY <1>8, <2>1, <2>2, <2>3, <2>4
<1>11. ASSUME NEW i \in 1 .. Len(r) - 1 PROVE <<r[i], r[i + 1]>> \in W
  <2>1. CASE i \in 1 .. Len(p) - 1
    <3>1. i \in 1 .. Len(p) /\ i + 1 \in 1 .. Len(p)
      BY <1>3, <2>1
    <3> QED
      BY <1>8, <1>p, <2>1, <3>1
  <2>2. CASE i = Len(p)
    <3>1. Len(p) \in 1 .. Len(p) /\ 1 \in 1 .. Len(q)
      BY <1>3
    <3> QED
      BY <1>8, <1>w, <2>2, <3>1
  <2>3. CASE i - Len(p) \in 1 .. Len(q) - 1
    <3> DEFINE j == i - Len(p)
    <3>0. Len(p) \in Nat /\ Len(q) \in Nat
      BY <1>3
    <3>2. j \in 1 .. Len(q) - 1
      BY <2>3
    <3>3. i = Len(p) + j
      BY <3>0
    <3> HIDE DEF j
    <3>1. j \in 1 .. Len(q) /\ j + 1 \in 1 .. Len(q) /\ i = Len(p) + j /\ i + 1 = Len(p) + (j + 1)
      BY <3>0, <3>2, <3>3
    <3> QED
      BY <1>8, <1>q, <3>1, <3>2
  <2>4. i \in 1 .. Len(p) - 1 \/ i = Len(p) \/ i - Len(p) \in 1 .. Len(q) - 1
    <3>1. Len(r) = Len(p) + Len(q)
      BY <1>5
    <3>2. i \in 1 .. Len(p) + Len(q) - 1
      BY <3>1
    <3> QED
      BY <1>3, <3>2
  <2> QED
    BY <2>1, <2>2, <2>3, <2>4
<1>12. ASSUME NEW k \in 1 .. n
       PROVE  /\ Len(C[k]) # 0 /\ \A i \in 1 .. Len(C[k]) : C[k][i] \in X \cup Y
              /\ \A i, j \in 1 .. Len(C[k]) : i < j => C[k][i] < C[k][j]
              /\ \A i \in 1 .. Len(C[k]) - 1 : <<C[k][i], C[k][i + 1]>> \in W
  <2>1. CASE k \in 1 .. a - 1
    <3>1. C[k] = A[k] /\ k \in 1 .. a
      BY <1>7, <2>1
    <3> QED
      BY <1>a, <3>1
  <2>2. CASE k = a
    <3>1. C[k] = r /\ Len(r) # 0
      BY <1>3, <1>5, <1>7, <2>2
    <3> QED
      BY <1>9, <1>10, <1>11, <3>1
  <2>3. ASSUME NEW l \in 2 .. b, k = a + l - 1
        PROVE  /\ Len(C[k]) # 0 /\ \A i \in 1 .. Len(C[k]) : C[k][i] \in X \cup Y
               /\ \A i, j \in 1 .. Len(C[k]) : i < j => C[k][i] < C[k][j]
               /\ \A i \in 1 .. Len(C[k]) - 1 : <<C[k][i], C[k][i + 1]>> \in W
    <3>1. C[k] = B[l] /\ l \in 1 .. b
      BY <1>7, <2>3
    <3> QED
      BY <1>b, <3>1
  <2> QED
    BY <1>7, <2>1, <2>2, <2>3
<1>13. ASSUME NEW x \in X \cup Y
       PROVE  \E k \in 1 .. n : \E i \in 1 .. Len(C[k]) : C[k][i] = x
  <2>1. CASE x \in X
    <3>1. PICK k \in 1 .. a : \E i \in 1 .. Len(A[k]) : A[k][i] = x
      BY <1>a, <2>1
    <3>2. PICK i \in 1 .. Len(A[k]) : A[k][i] = x
      BY <3>1
    <3>3. CASE k = a
      <4>1. C[a] = r /\ a \in 1 .. n
        BY <1>7
      <4>2. i \in 1 .. Len(r) /\ r[i] = x
        BY <1>8, <3>2, <3>3 DEF p
      <4> QED
        BY <4>1, <4>2
    <3>4. CASE k \in 1 .. a - 1
      BY <1>7, <3>2, <3>4
    <3> QED
      BY <1>2, <3>3, <3>4
  <2>2. CASE x \in Y
    <3>1. PICK l \in 1 .. b : \E i \in 1 .. Len(B[l]) : B[l][i] = x
      BY <1>b, <2>2
    <3>2. PICK i \in 1 .. Len(B[l]) : B[l][i] = x
      BY <3>1
    <3>3. CASE l = 1
      <4>1. C[a] = r /\ a \in 1 .. n
        BY <1>7
      <4>2. Len(p) + i \in 1 .. Len(r) /\ r[Len(p) + i] = x
        BY <1>8, <3>2, <3>3 DEF q
      <4> QED
        BY <4>1, <4>2
    <3>4. CASE l \in 2 .. b
      BY <1>7, <3>2, <3>4
    <3> QED
      BY <1>2, <3>3, <3>4
  <2> QED
    BY <2>1, <2>2
<1>14. ASSUME NEW k \in 1 .. n, NEW l \in 1 .. n, k < l,
              NEW i \in 1 .. Len(C[k]), NEW j \in 1 .. Len(C[l])
       PROVE  C[k][i] < C[l][j]
  <2>1. CASE k \in 1 .. a - 1 /\ l \in 1 .. a - 1
    <3>1. C[k] = A[k] /\ C[l] = A[l] /\ k \in 1 .. a /\ l \in 1 .. a
      BY <1>7, <2>1
    <3> QED
      BY <1>14, <1>a, <3>1
  <2>2. CASE k \in 1 .. a - 1 /\ l = a
    <3>1. C[k] = A[k] /\ C[l] = r /\ k \in 1 .. a
      BY <1>7, <2>2
    <3>2. CASE j \in 1 .. Len(p)
      BY <1>8, <1>p, <2>2, <3>1, <3>2
    <3>3. ASSUME NEW m \in 1 .. Len(q), j = Len(p) + m PROVE C[k][i] < C[l][j]
      <4>1. C[k][i] \in X /\ C[l][j] \in Y
        BY <1>8, <1>a, <1>q, <3>1, <3>3
      <4> QED
        BY <4>1
    <3> QED
      BY <1>8, <3>1, <3>2, <3>3
  <2>3. ASSUME k \in 1 .. a - 1, NEW m \in 2 .. b, l = a + m - 1 PROVE C[k][i] < C[l][j]
    <3>1. C[k] = A[k] /\ C[l] = B[m] /\ k \in 1 .. a /\ m \in 1 .. b
      BY <1>7, <2>3
    <3>2. C[k][i] \in X /\ C[l][j] \in Y
      BY <1>a, <1>b, <3>1
    <3> QED
      BY <3>2
  <2>4. ASSUME k = a, NEW m \in 2 .. b, l = a + m - 1 PROVE C[k][i] < C[l][j]
    <3>1. C[k] = r /\ C[l] = B[m] /\ m \in 1 .. b
      BY <1>7, <2>4
    <3>2. CASE i \in 1 .. Len(p)
      <4>1. C[k][i] \in X /\ C[l][j] \in Y
        BY <1>8, <1>b, <1>p, <3>1, <3>2
      <4> QED
        BY <4>1
    <3>3. ASSUME NEW g \in 1 .. Len(q), i = Len(p) + g PROVE C[k][i] < C[l][j]
      BY <1>8, <1>q, <3>1, <3>3
    <3> QED
      BY <1>8, <3>1, <3>2, <3>3
  <2>5. ASSUME NEW g \in 2 .. b, k = a + g - 1, NEW m \in 2 .. b, l = a + m - 1
        PROVE  C[k][i] < C[l][j]
    <3>1. C[k] = B[g] /\ C[l] = B[m] /\ g \in 1 .. b /\ m \in 1 .. b
      BY <1>7, <2>5
    <3>2. g < m
      BY <1>2, <1>14, <2>5
    <3> QED
      BY <1>b, <3>1, <3>2
  <2>6. ASSUME NEW g \in 2 .. b, k = a + g - 1, l \in 1 .. a - 1 \/ l = a PROVE FALSE
    BY <1>2, <1>14, <2>6
  <2>7. ~(k = a /\ (l \in 1 .. a - 1 \/ l = a))
    BY <1>2, <1>14
  <2> QED
    BY <1>7, <2>1, <2>2, <2>3, <2>4, <2>5, <2>6, <2>7
<1>15. ASSUME NEW k \in 1 .. n - 1
       PROVE  <<C[k][Len(C[k])], C[k + 1][1]>> \notin W
  <2>1. CASE k + 1 \in 1 .. a - 1
    <3>1. k \in 1 .. a - 1
      BY <1>2, <2>1
    <3>2. C[k] = A[k] /\ C[k + 1] = A[k + 1]
      BY <1>7, <2>1, <3>1
    <3> QED
      BY <1>a, <3>1, <3>2
  <2>2. CASE k + 1 = a
    <3>1. k \in 1 .. a - 1 /\ 1 \in 1 .. Len(p)
      BY <1>2, <1>3, <2>2
    <3>2. C[k] = A[k] /\ C[k + 1] = r /\ r[1] = p[1] /\ A[k + 1] = p
      BY <1>7, <1>8, <2>2, <3>1 DEF p
    <3> QED
      BY <1>a, <3>1, <3>2
  <2>3. CASE k = a
    <3>1. 2 \in 2 .. b /\ k + 1 = a + 2 - 1 /\ 1 \in 1 .. b - 1 /\ Len(q) \in 1 .. Len(q) /\ 1 + 1 = 2
      BY <1>2, <1>3, <2>3
    <3>2. C[k] = r /\ C[k + 1] = B[2]
      BY <1>7, <2>3, <3>1
    <3>3. r[Len(r)] = q[Len(q)]
      BY <1>5, <1>8, <3>1
    <3>4. <<B[1][Len(B[1])], B[2][1]>> \notin W
      BY <1>b, <3>1
    <3> QED
      BY <3>2, <3>3, <3>4 DEF q
  <2>4. CASE k - a + 1 \in 2 .. b - 1
    <3> DEFINE l == k - a + 1
    <3>1. l \in 2 .. b /\ l + 1 \in 2 .. b /\ k = a + l - 1 /\ k + 1 = a + (l + 1) - 1
      BY <1>2, <2>4
    <3>2. l \in 1 .. b - 1
      BY <2>4
    <3> HIDE DEF l
    <3>3. C[k] = B[l] /\ C[k + 1] = B[l + 1]
      BY <1>7, <3>1
    <3> QED
      BY <1>b, <3>2, <3>3
  <2>5. k + 1 \in 1 .. a - 1 \/ k + 1 = a \/ k = a \/ k - a + 1 \in 2 .. b - 1
    BY <1>2
  <2> QED
    BY <2>1, <2>2, <2>3, <2>4, <2>5
<1>16. Good(C, X \cup Y, W)
  <2>n. Len(C) = n
    BY <1>6
  <2>1. \A k \in 1 .. Len(C) : /\ Len(C[k]) # 0
                               /\ \A i \in 1 .. Len(C[k]) : C[k][i] \in X \cup Y
    BY <1>12, <2>n
  <2>2. \A x \in X \cup Y : \E k \in 1 .. Len(C) : \E i \in 1 .. Len(C[k]) : C[k][i] = x
    BY <1>13, <2>n
  <2>3. \A k \in 1 .. Len(C) : \A i, j \in 1 .. Len(C[k]) : i < j => C[k][i] < C[k][j]
    BY <1>12, <2>n
  <2>4. \A k, l \in 1 .. Len(C) : k < l =>
           \A i \in 1 .. Len(C[k]), j \in 1 .. Len(C[l]) : C[k][i] < C[l][j]
    BY <1>14, <2>n
  <2>5. \A k \in 1 .. Len(C) : \A i \in 1 .. Len(C[k]) - 1 : <<C[k][i], C[k][i + 1]>> \in W
    BY <1>12, <2>n
  <2>6. \A k \in 1 .. Len(C) - 1 : <<C[k][Len(C[k])], C[k + 1][1]>> \notin W
    BY <1>15, <2>n
  <2>7. C \in Seq(Seq(Nat)) /\ X \cup Y \subseteq Nat
    BY <1>1, <1>6
  <2> QED
    BY <2>1, <2>2, <2>3, <2>4, <2>5, <2>6, <2>7 DEF Good
<1> QED
  BY <1>16 DEF C

\* The owned range of a chunk by the number of the chunk.
LEMMA ChunkNumbers ==
    /\ Step \in Nat \ {0}
    /\ \A i \in Nat : i * Step \in Nat /\ i <= i * Step /\ own_from(i * Step) \in Nat
    /\ \A i \in Nat \ {0} : \A n \in Nat : i * Step + Overlap < n =>
          own_from(i * Step) \in 1 .. n /\ own_from(i * Step) + 1 \in 1 .. n
    /\ \A i, c \in Nat : i > c => i * Step >= c * Step + Step
<1> DEFINE half == Overlap \div 2
<1>1. /\ ChunkPoints \in Nat /\ Overlap \in Nat /\ Overlap < ChunkPoints
      /\ half \in Nat /\ Overlap = half + half
  <2>1. Overlap \div 2 \in Nat
    BY ChunkAssumption, Z3
  <2>2. QED
    BY <2>1, Halves, ChunkAssumption
<1>2. Step \in Nat \ {0}
  BY <1>1 DEF Step
<1>3. \A s \in Nat \ {0} : \A i \in Nat : i * s \in Nat /\ i <= i * s /\ (i # 0 => i * s # 0)
  BY Z3
<1>4. \A s \in Nat \ {0} : \A i, c \in Nat : i > c => i * s >= c * s + s
  BY Z3
<1>5. \A from \in Nat : own_from(from) = IF from = 0 THEN 0 ELSE from + half
  BY DEF own_from
<1> HIDE DEF half
<1>6. \A i \in Nat : i * Step \in Nat /\ i <= i * Step /\ own_from(i * Step) \in Nat
  <2> TAKE i \in Nat
  <2>1. i * Step \in Nat /\ i <= i * Step
    BY <1>2, <1>3
  <2> DEFINE from == i * Step
  <2>2. from \in Nat
    BY <2>1
  <2> HIDE DEF from
  <2>3. own_from(from) \in Nat
    BY <1>1, <1>5, <2>2
  <2> QED
    BY <2>1, <2>3 DEF from
<1>7. ASSUME NEW i \in Nat \ {0}, NEW n \in Nat, i * Step + Overlap < n
      PROVE  own_from(i * Step) \in 1 .. n /\ own_from(i * Step) + 1 \in 1 .. n
  <2> DEFINE from == i * Step
  <2>1. from \in Nat /\ from # 0 /\ from + Overlap < n
    BY <1>2, <1>3, <1>7
  <2> HIDE DEF from
  <2>2. own_from(from) = from + half
    BY <1>5, <2>1
  <2>3. own_from(from) \in 1 .. n /\ own_from(from) + 1 \in 1 .. n
    BY <1>1, <2>1, <2>2
  <2> QED
    BY <2>3 DEF from
<1>8. \A i, c \in Nat : i > c => i * Step >= c * Step + Step
  BY <1>2, <1>4
<1> QED
  BY <1>2, <1>6, <1>7, <1>8

\* No chunk starts inside what another one owns.
LEMMA OwnedUncut ==
    ASSUME NEW n \in Nat \ {0}, NEW c \in Nat, NEW i \in Nat \ {0}, Started(c * Step, n),
           i * Step + Overlap < n, own_from(c * Step) < own_from(i * Step)
    PROVE  own_to(c * Step, n) <= own_from(i * Step)
<1> DEFINE half == Overlap \div 2
           from == c * Step
           later == i * Step
<1>1. /\ ChunkPoints \in Nat /\ Overlap \in Nat /\ Overlap < ChunkPoints
      /\ half \in Nat /\ Overlap = half + half
  <2>1. Overlap \div 2 \in Nat
    BY ChunkAssumption, Z3
  <2>2. QED
    BY <2>1, Halves, ChunkAssumption
<1>2. Step \in Nat \ {0} /\ Step = ChunkPoints - Overlap
  BY ChunkNumbers DEF Step
<1>3. from \in Nat /\ later \in Nat /\ later # 0
  <2>1. i <= i * Step
    BY ChunkNumbers
  <2> QED
    BY <2>1, ChunkNumbers
<1>4. own_from(from) = (IF from = 0 THEN 0 ELSE from + half) /\ own_from(later) = later + half
  BY <1>3 DEF own_from
<1>5. own_to(from, n) = (IF from + ChunkPoints < n THEN from + ChunkPoints - half ELSE n)
  BY DEF own_to
<1>6. i > c \/ (i <= c /\ later <= from)
  <2>1. CASE i < c
    <3>1. c * Step >= i * Step + Step
      BY <2>1, ChunkNumbers
    <3> DEFINE s == Step
    <3>2. s \in Nat /\ from >= later + s
      BY <1>2, <3>1
    <3> HIDE DEF from, later, s
    <3>3. later <= from
      BY <1>3, <3>2
    <3> QED
      BY <2>1, <3>3
  <2>2. CASE i = c
    BY <1>3, <2>2
  <2> QED
    BY <2>1, <2>2
<1>7. i > c => later >= from + Step
  BY ChunkNumbers
<1>8. later + Overlap < n
  OBVIOUS
<1>9. own_from(from) < own_from(later)
  OBVIOUS
<1>10. from = 0 \/ from # 0
  OBVIOUS
<1> HIDE DEF half, from, later
<1>11. i > c
  <2> SUFFICES ASSUME i <= c, later <= from PROVE FALSE
    BY <1>6
  <2>1. from # 0
    BY <1>3
  <2> QED
    BY <1>1, <1>3, <1>4, <1>9, <2>1
<1>12. later >= from + ChunkPoints - Overlap
  BY <1>1, <1>2, <1>3, <1>7, <1>11
<1>13. own_to(from, n) <= own_from(later)
  BY <1>1, <1>3, <1>4, <1>5, <1>8, <1>12
<1> QED
  BY <1>13 DEF from, later

\* Where a cut is.
LEMMA CutIs ==
    ASSUME MergeTypes
    PROVE  /\ \A a, b : Cut(a, b) <=>
                \E k \in 1 .. Len(plan) : \E i \in 1 .. Len(plan[k]) :
                   /\ i * Step + Overlap < Len(plan[k])
                   /\ plan[k][own_from(i * Step)] = a /\ plan[k][own_from(i * Step) + 1] = b
           /\ \A a, b : Cut(a, b) => /\ a \in Planned /\ b \in Planned
                                     /\ a \in Nat /\ b \in Nat /\ a < b
<1>1. /\ DOMAIN plan = 1 .. Len(plan)
      /\ \A k \in 1 .. Len(plan) : Len(plan[k]) \in Nat /\ DOMAIN plan[k] = 1 .. Len(plan[k])
  BY DEF MergeTypes, PlanOf
<1>p. Places
  BY PlacesHere
<1>2. \A a, b : Cut(a, b) <=>
         \E k \in 1 .. Len(plan) : \E i \in 1 .. Len(plan[k]) :
            /\ i * Step + Overlap < Len(plan[k])
            /\ plan[k][own_from(i * Step)] = a /\ plan[k][own_from(i * Step) + 1] = b
  BY <1>1 DEF Cut, Step
<1>3. ASSUME NEW a, NEW b, Cut(a, b)
      PROVE  a \in Planned /\ b \in Planned /\ a \in Nat /\ b \in Nat /\ a < b
  <2>1. PICK k \in 1 .. Len(plan) : \E i \in 1 .. Len(plan[k]) :
            /\ i * Step + Overlap < Len(plan[k])
            /\ plan[k][own_from(i * Step)] = a /\ plan[k][own_from(i * Step) + 1] = b
    BY <1>2, <1>3
  <2>2. PICK i \in 1 .. Len(plan[k]) :
            /\ i * Step + Overlap < Len(plan[k])
            /\ plan[k][own_from(i * Step)] = a /\ plan[k][own_from(i * Step) + 1] = b
    BY <2>1
  <2> DEFINE f == own_from(i * Step)
  <2>3. f \in 1 .. Len(plan[k]) /\ f + 1 \in 1 .. Len(plan[k])
    <3>1. i \in Nat \ {0} /\ Len(plan[k]) \in Nat
      BY <1>1
    <3> QED
      BY <2>2, <3>1, ChunkNumbers
  <2>4. plan[k][f] = a /\ plan[k][f + 1] = b
    BY <2>2
  <2> HIDE DEF f
  <2>5. f < f + 1 /\ ~(k < k)
    BY <1>1, <2>3
  <2>6. /\ a \in DOMAIN track /\ b \in DOMAIN track /\ a \in Nat /\ b \in Nat
        /\ plan[k][f] < plan[k][f + 1] <=> k < k \/ (k = k /\ f < f + 1)
    BY <1>p, <2>3, <2>4 DEF Places
  <2>7. a \in Planned /\ b \in Planned
    <3>1. k \in DOMAIN plan /\ f \in DOMAIN plan[k] /\ f + 1 \in DOMAIN plan[k]
      BY <1>1, <2>3
    <3>2. a \in ToSet(plan[k]) /\ b \in ToSet(plan[k])
      BY <2>4, <3>1 DEF ToSet
    <3> QED
      BY <3>1, <3>2 DEF Planned
  <2> QED
    BY <2>4, <2>5, <2>6, <2>7
<1> QED
  BY <1>2, <1>3

\* What the next chunk owns is cut off at its front only, and from the fix done last
\* unless it opens its stretch.
LEMMA CutsHere ==
    ASSUME MergeTypes, Sending, NEW c \in Nat, start = c * Step
    PROVE  LET o == NextChunk.owned
           IN  /\ \A i \in DOMAIN o : \A a : i # 1 => ~Cut(a, o[i])
               /\ start # 0 => \A a : Cut(a, o[1]) <=> a = Sent[own_from(start)]
<1> DEFINE o == NextChunk.owned
           s == plan[stretch]
           n == Len(s)
           f == own_from(start)
           t == own_to(start, n)
<1>1. /\ stretch \in 1 .. Len(plan) /\ f \in Nat /\ t \in Nat /\ f < t /\ t <= n
      /\ DOMAIN o = 1 .. t - f
      /\ \A i \in 1 .. t - f : f + i \in 1 .. n /\ o[i] = s[f + i]
  BY OwnedAre DEF Sent
<1>2. Sent = s /\ Started(start, n) /\ n \in Nat \ {0} /\ Len(plan) \in Nat
  <2>1. Sent = s
    BY DEF Sent
  <2> QED
    BY <1>1, <2>1 DEF MergeTypes, PlanOf
<1>p. Places
  BY PlacesHere
<1>3. \A a, b : Cut(a, b) <=>
         \E k \in 1 .. Len(plan) : \E i \in 1 .. Len(plan[k]) :
            /\ i * Step + Overlap < Len(plan[k])
            /\ plan[k][own_from(i * Step)] = a /\ plan[k][own_from(i * Step) + 1] = b
  BY CutIs
<1> HIDE DEF o
<1>4. ASSUME NEW a, NEW j \in 1 .. n, Cut(a, s[j])
      PROVE  \E i \in Nat \ {0} : /\ i * Step + Overlap < n
                                  /\ j = own_from(i * Step) + 1
                                  /\ a = s[own_from(i * Step)]
  <2>1. PICK k \in 1 .. Len(plan) : \E i \in 1 .. Len(plan[k]) :
            /\ i * Step + Overlap < Len(plan[k])
            /\ plan[k][own_from(i * Step)] = a /\ plan[k][own_from(i * Step) + 1] = s[j]
    BY <1>3, <1>4
  <2>2. PICK i \in 1 .. Len(plan[k]) :
            /\ i * Step + Overlap < Len(plan[k])
            /\ plan[k][own_from(i * Step)] = a /\ plan[k][own_from(i * Step) + 1] = s[j]
    BY <2>1
  <2> DEFINE g == own_from(i * Step)
  <2>3. Len(plan[k]) \in Nat
    BY DEF MergeTypes, PlanOf
  <2>4. i \in Nat \ {0} /\ g + 1 \in 1 .. Len(plan[k])
    <3>1. i \in Nat \ {0}
      BY <2>3
    <3> QED
      BY <2>2, <2>3, <3>1, ChunkNumbers
  <2>5. /\ plan[k][g + 1] = plan[stretch][j] /\ plan[k][g] = a
        /\ i * Step + Overlap < Len(plan[k])
    BY <2>2
  <2> HIDE DEF g
  <2>6. k = stretch /\ g + 1 = j
    <3>1. stretch \in 1 .. Len(plan) /\ j \in 1 .. Len(plan[stretch])
      BY <1>1
    <3>2. plan[k][g + 1] = plan[stretch][j]
      BY <2>5
    <3> HIDE DEF s, n, f, t
    <3> QED
      BY <1>p, <2>4, <3>1, <3>2 DEF Places
  <2> QED
    BY <2>4, <2>5, <2>6 DEF g
<1>5. ASSUME NEW i \in 1 .. t - f, NEW a, i # 1, Cut(a, o[i]) PROVE FALSE
  <2>1. f + i \in 1 .. n /\ Cut(a, s[f + i])
    BY <1>1, <1>5
  <2>2. PICK h \in Nat \ {0} : /\ h * Step + Overlap < n
                               /\ f + i = own_from(h * Step) + 1
    BY <1>4, <2>1
  <2> DEFINE g == own_from(h * Step)
  <2>3. g \in Nat
    BY ChunkNumbers
  <2>4. f + i = g + 1
    BY <2>2
  <2> HIDE DEF g, f, t, s, n
  <2>5. f < g
    BY <1>1, <1>5, <2>3, <2>4
  <2>6. own_to(c * Step, n) <= own_from(h * Step)
    <3>1. Started(c * Step, n) /\ n \in Nat \ {0} /\ own_from(c * Step) < own_from(h * Step)
      BY <1>2, <2>5 DEF f, g
    <3> QED
      BY <2>2, <3>1, OwnedUncut
  <2>7. t <= g
    BY <2>6 DEF t, g
  <2> QED
    BY <1>1, <2>3, <2>4, <2>7
<1>6. ASSUME start # 0, NEW a PROVE Cut(a, o[1]) <=> a = s[f]
  <2>1. f + 1 \in 1 .. n /\ o[1] = s[f + 1]
    <3>1. 1 \in 1 .. t - f
      BY <1>1
    <3> QED
      BY <1>1, <3>1
  <2>2. ASSUME Cut(a, o[1]) PROVE a = s[f]
    <3>1. PICK h \in Nat \ {0} : /\ f + 1 = own_from(h * Step) + 1
                                 /\ a = s[own_from(h * Step)]
      BY <1>4, <2>1, <2>2
    <3>2. own_from(h * Step) \in Nat
      BY ChunkNumbers
    <3> QED
      BY <1>1, <3>1, <3>2
  <2>3. Cut(s[f], o[1])
    <3>1. c * Step + Overlap < n
      BY <1>2, <1>6 DEF Started
    <3>2. c # 0
      <4>1. Step \in Nat
        BY ChunkNumbers
      <4>2. 0 * Step = 0
        BY <4>1, Z3
      <4> QED
        BY <1>6, <4>2
    <3>3. c \in 1 .. n
      <4>1. c <= c * Step /\ c * Step \in Nat
        BY ChunkNumbers
      <4> DEFINE from == c * Step
      <4>2. from + Overlap < n /\ c <= from /\ from \in Nat
        BY <3>1, <4>1
      <4> HIDE DEF from, n
      <4> QED
        BY <1>2, <3>2, <4>2, ChunkAssumption
    <3>4. s[own_from(c * Step)] = s[f] /\ s[own_from(c * Step) + 1] = o[1]
      BY <2>1
    <3> QED
      BY <1>1, <1>3, <3>1, <3>3, <3>4
  <2> QED
    BY <2>2, <2>3
<1> QED
  BY <1>1, <1>2, <1>5, <1>6 DEF o

\* What lies among the fixes the next chunk owns, and between those done and them.
LEMMA OwnedBetween ==
    ASSUME MergeTypes, Sending
    PROVE  LET o == NextChunk.owned
           IN  /\ \A x, y \in DOMAIN o : \A r \in o[x] + 1 .. o[y] : ~track[r].ghost
               /\ \A x, y \in DOMAIN o : \A r \in Planned :
                     o[x] <= r /\ r <= o[y] => \E z \in DOMAIN o : x <= z /\ z <= y /\ r = o[z]
               /\ start = 0 => \A x \in Done : \E r \in x + 1 .. o[1] : track[r].ghost
               /\ start # 0 => \A y \in DOMAIN o : \A r \in Sent[own_from(start)] + 1 .. o[y] :
                                  ~track[r].ghost
               /\ \A r \in Planned : r \in Nat /\ (r < o[1] => r \in Done)
<1> DEFINE o == NextChunk.owned
           s == plan[stretch]
           n == Len(s)
           f == own_from(start)
           t == own_to(start, Len(Sent))
<1>1. /\ stretch \in 1 .. Len(plan) /\ f \in Nat /\ t \in Nat /\ f < t /\ t <= n
      /\ DOMAIN o = 1 .. t - f
      /\ \A i \in 1 .. t - f : f + i \in 1 .. n /\ o[i] = s[f + i]
      /\ start # 0 => f # 0
      /\ start = 0 => f = 0
  BY OwnedAre DEF Sent
<1>2. /\ PlanOf(plan, track) /\ track \in Seq(Fix)
      /\ Len(plan) \in Nat /\ n \in Nat
      /\ \A k \in 1 .. Len(plan) : Len(plan[k]) \in Nat
  BY <1>1 DEF MergeTypes, PlanOf
<1>p. Places
  BY PlacesHere
<1>3. \A i, j \in 1 .. n : /\ s[i] \in Nat
                           /\ i < j => s[i] < s[j] /\ \A r \in s[i] + 1 .. s[j] : ~track[r].ghost
                           /\ s[i] <= s[j] <=> i <= j
  <2>1. \A i, j \in 1 .. n : i < j => s[i] < s[j] /\ \A r \in s[i] + 1 .. s[j] : ~track[r].ghost
    BY <1>1, <1>2 DEF PlanOf
  <2>2. \A i \in 1 .. n : s[i] \in Nat
    BY <1>1, <1>p DEF Places
  <2> HIDE DEF s, n
  <2>3. \A i, j \in 1 .. n : s[i] <= s[j] <=> i <= j
    <3> TAKE i, j \in 1 .. n
    <3>1. s[i] \in Nat /\ s[j] \in Nat /\ (i < j => s[i] < s[j]) /\ (j < i => s[j] < s[i])
      BY <2>1, <2>2
    <3>2. i = j => s[i] = s[j]
      OBVIOUS
    <3> QED
      BY <1>2, <3>1, <3>2
  <2> QED
    BY <2>1, <2>2, <2>3
<1>4. ASSUME NEW x \in 1 .. t - f, NEW y \in 1 .. t - f, NEW r \in o[x] + 1 .. o[y]
      PROVE  ~track[r].ghost
  <2>1. /\ f + x \in 1 .. n /\ o[x] = s[f + x] /\ f + y \in 1 .. n /\ o[y] = s[f + y]
        /\ s[f + x] \in Nat /\ s[f + y] \in Nat
    BY <1>1, <1>3
  <2> DEFINE u == s[f + x]
             v == s[f + y]
  <2>2. r \in u + 1 .. v /\ u \in Nat /\ v \in Nat
    BY <1>4, <2>1
  <2>3. ~(v <= u)
    <3> HIDE DEF u, v
    <3> QED
      BY <2>2
  <2>4. f + x < f + y
    <3>1. v <= u <=> f + y <= f + x
      BY <1>3, <2>1
    <3> QED
      BY <1>1, <2>3, <3>1
  <2> QED
    BY <1>3, <2>1, <2>2, <2>4
<1>5. ASSUME NEW x \in 1 .. t - f, NEW y \in 1 .. t - f, NEW r \in Planned, o[x] <= r, r <= o[y]
      PROVE  \E z \in 1 .. t - f : x <= z /\ z <= y /\ r = o[z]
  <2>1. /\ f + x \in 1 .. n /\ o[x] = s[f + x] /\ f + y \in 1 .. n /\ o[y] = s[f + y]
    BY <1>1
  <2>2. PICK k \in 1 .. Len(plan) : \E j \in 1 .. Len(plan[k]) : r = plan[k][j]
    BY CoveredAreDone
  <2>3. PICK j \in 1 .. Len(plan[k]) : r = plan[k][j]
    BY <2>2
  <2>4. /\ r \in Nat /\ s[f + x] \in Nat /\ s[f + y] \in Nat
        /\ r < s[f + x] <=> k < stretch \/ (k = stretch /\ j < f + x)
        /\ s[f + y] < r <=> stretch < k \/ (stretch = k /\ f + y < j)
    <3>1. f + x \in 1 .. Len(plan[stretch]) /\ f + y \in 1 .. Len(plan[stretch])
      BY <2>1
    <3>2. s[f + x] = plan[stretch][f + x] /\ s[f + y] = plan[stretch][f + y]
      OBVIOUS
    <3>3. stretch \in 1 .. Len(plan)
      BY <1>1
    <3> HIDE DEF f, s, t, n, o
    <3>4. r \in Nat /\ s[f + x] \in Nat /\ s[f + y] \in Nat
      BY <1>p, <2>3, <3>1, <3>2, <3>3 DEF Places
    <3>0. \A l, h \in 1 .. Len(plan) : \A v \in 1 .. Len(plan[l]), w \in 1 .. Len(plan[h]) :
             plan[l][v] < plan[h][w] <=> l < h \/ (l = h /\ v < w)
      BY <1>p DEF Places
    <3>5. r < s[f + x] <=> k < stretch \/ (k = stretch /\ j < f + x)
      <4>1. plan[k][j] < plan[stretch][f + x] <=> k < stretch \/ (k = stretch /\ j < f + x)
        BY <3>0, <3>1, <3>3, Zenon
      <4> QED
        BY <2>3, <3>2, <4>1, Zenon
    <3>6. s[f + y] < r <=> stretch < k \/ (stretch = k /\ f + y < j)
      <4>1. plan[stretch][f + y] < plan[k][j] <=> stretch < k \/ (stretch = k /\ f + y < j)
        BY <3>0, <3>1, <3>3, Zenon
      <4> QED
        BY <2>3, <3>2, <4>1, Zenon
    <3> QED
      BY <3>4, <3>5, <3>6
  <2>5. ~(r < s[f + x]) /\ ~(s[f + y] < r)
    <3> DEFINE u == s[f + x]
               v == s[f + y]
    <3>1. u <= r /\ r <= v /\ u \in Nat /\ v \in Nat /\ r \in Nat
      BY <1>5, <2>1, <2>4
    <3> HIDE DEF u, v
    <3>2. ~(r < u) /\ ~(v < r)
      BY <3>1
    <3> QED
      BY <3>2 DEF u, v
  <2>6. k = stretch /\ ~(j < f + x) /\ ~(f + y < j)
    <3>1. k \in Nat /\ stretch \in Nat
      BY <1>1, <1>2
    <3>2. /\ ~(k < stretch \/ (k = stretch /\ j < f + x))
          /\ ~(stretch < k \/ (stretch = k /\ f + y < j))
      BY <2>4, <2>5
    <3> HIDE DEF f, s, t, n, o
    <3> QED
      BY <3>1, <3>2
  <2>7. j \in Nat
    BY <1>2
  <2> HIDE DEF f, t
  <2>8. j - f \in 1 .. t - f /\ x <= j - f /\ j - f <= y /\ f + (j - f) = j
    BY <1>1, <2>6, <2>7
  <2>9. r = o[j - f]
    BY <1>1, <2>3, <2>6, <2>8
  <2> QED
    BY <2>8, <2>9
<1>6. ASSUME start = 0, NEW x \in Done PROVE \E r \in x + 1 .. o[1] : track[r].ghost
  <2>1. PICK k \in 1 .. Len(plan) : \E j \in 1 .. Len(plan[k]) :
            x = plan[k][j] /\ (k < stretch \/ (k = stretch /\ j <= f))
    BY DEF Done
  <2>2. PICK j \in 1 .. Len(plan[k]) :
            x = plan[k][j] /\ (k < stretch \/ (k = stretch /\ j <= f))
    BY <2>1
  <2>3. k < stretch
    <3>1. Len(plan[k]) \in Nat /\ f = 0
      BY <1>1, <1>2, <1>6
    <3> QED
      BY <2>2, <3>1
  <2>4. 1 \in 1 .. n /\ o[1] = s[1]
    <3>1. 1 \in 1 .. t - f /\ f = 0
      BY <1>1, <1>6
    <3>2. f + 1 \in 1 .. n /\ o[1] = s[f + 1] /\ f + 1 = 1
      BY <1>1, <3>1
    <3> QED
      BY <3>2
  <2>5. \E r \in x + 1 .. o[1] - 1 : track[r].ghost
    BY <1>1, <1>2, <2>2, <2>3, <2>4 DEF PlanOf
  <2>6. x \in Nat /\ o[1] \in Nat
    BY <1>p, <1>1, <1>3, <2>2, <2>4 DEF Places
  <2>7. \A r \in x + 1 .. o[1] - 1 : r \in x + 1 .. o[1]
    BY <2>6
  <2> QED
    BY <2>5, <2>7
<1>7. ASSUME start # 0, NEW y \in 1 .. t - f, NEW r \in s[f] + 1 .. o[y]
      PROVE  ~track[r].ghost
  <2>1. f \in 1 .. n /\ f + y \in 1 .. n /\ o[y] = s[f + y] /\ f < f + y
    <3>1. f + y \in 1 .. n /\ o[y] = s[f + y] /\ f # 0
      BY <1>1, <1>7
    <3> HIDE DEF f, t, n, s, o
    <3>2. f \in 1 .. n /\ f < f + y
      BY <1>1, <1>2, <3>1
    <3> QED
      BY <3>1, <3>2
  <2> QED
    BY <1>3, <1>7, <2>1
<1>8. \A r \in Planned : r \in Nat /\ (r < o[1] => r \in Done)
  <2>1. \A r \in Planned : r < o[1] => r \in Done
    BY CoveredAreDone DEF Covered
  <2>2. Planned \subseteq DOMAIN track
    BY CoveredAreDone
  <2>3. DOMAIN track \subseteq Nat
    BY <1>2
  <2> QED
    BY <2>1, <2>2, <2>3
<1>9. Sent[own_from(start)] = s[f]
  BY DEF Sent
<1>d. DOMAIN o = 1 .. t - f
  BY <1>1
<1> HIDE DEF o, f, t, s
<1>10. \A x, y \in DOMAIN o : \A r \in o[x] + 1 .. o[y] : ~track[r].ghost
  BY <1>d, <1>4
<1>11. \A x, y \in DOMAIN o : \A r \in Planned :
          o[x] <= r /\ r <= o[y] => \E z \in DOMAIN o : x <= z /\ z <= y /\ r = o[z]
  BY <1>d, <1>5
<1>12. start # 0 => \A y \in DOMAIN o : \A r \in Sent[own_from(start)] + 1 .. o[y] : ~track[r].ghost
  BY <1>d, <1>7, <1>9
<1>13. start = 0 => \A x \in Done : \E r \in x + 1 .. o[1] : track[r].ghost
  BY <1>6
<1> QED
  BY <1>8, <1>10, <1>11, <1>12, <1>13 DEF o

\* The pairs of fixes between which a road runs on.
Runs == {pair \in Nat \X Nat : RunsOn(pair[1], pair[2])}

\* Neither a ghost nor the cut between two chunks lies behind x up to z.
Unbroken(x, z) == \A r \in x + 1 .. z : ~track[r].ghost /\ ~\E a \in Planned : Cut(a, r)

\* What is said of the fixes done decides whether a road runs on between them.
LEMMA RunsStay ==
    ASSUME MergeTypes, track' = track, plan' = plan,
           \A x \in Done : answered'[x] = answered[x], NEW p \in Done, NEW q \in Done
    PROVE  RunsOn(p, q)' <=> RunsOn(p, q)
<1>1. /\ Planned' = Planned /\ (\A a, b : Cut(a, b)' <=> Cut(a, b))
      /\ \A a, b : Adjacent(a, b)' <=> Adjacent(a, b)
  BY DEF Planned, Cut, Adjacent
<1>2. \A r \in Planned : r <= q => r \in Done
  <2>1. Covered = Done /\ Done \subseteq Planned
    BY CoveredAreDone DEF Covered
  <2>2. CASE ~Sending
    BY <2>1, <2>2 DEF Covered
  <2>3. CASE Sending
    <3> DEFINE first == NextChunk.owned[1]
    <3>1. q \in Nat /\ q < first /\ first \in Nat
      BY <2>3, OwnedComeNext
    <3>2. \A r \in Planned : r \in Nat /\ (r < first => r \in Done)
      BY <2>3, OwnedBetween
    <3> HIDE DEF first
    <3> QED
      BY <3>1, <3>2
  <2> QED
    BY <2>2, <2>3
<1>3. Done \subseteq Nat
  <2>1. Done \subseteq DOMAIN track /\ DOMAIN track \subseteq Nat
    BY DEF Done, MergeTypes
  <2> QED
    BY <2>1
<1>4. \A r \in Planned : r \in p .. q => (MatchedAt(r)' <=> MatchedAt(r)) /\ answered'[r] = answered[r]
  <2>1. \A r \in Planned : r \in p .. q => answered'[r] = answered[r]
    BY <1>2
  <2> QED
    BY <2>1 DEF MatchedAt
<1>5. \A a, b : Cut(a, b) /\ b \in p + 1 .. q /\ p < b => a <= q /\ a < b /\ a \in Planned /\ b \in Planned /\ a \in Nat
  <2> SUFFICES ASSUME NEW a, NEW b, Cut(a, b), b \in p + 1 .. q
               PROVE  a <= q /\ a < b /\ a \in Planned /\ b \in Planned /\ a \in Nat
    OBVIOUS
  <2>1. a \in Nat /\ b \in Nat /\ a < b /\ a \in Planned /\ b \in Planned
    BY CutIs
  <2> QED
    BY <1>3, <2>1
<1>6. \A a, b : Cut(a, b) /\ b \in p + 1 .. q => (MatchedAt(a)' <=> MatchedAt(a)) /\ (MatchedAt(b)' <=> MatchedAt(b))
  <2> SUFFICES ASSUME NEW a, NEW b, Cut(a, b), b \in p + 1 .. q
               PROVE  answered'[a] = answered[a] /\ answered'[b] = answered[b]
    BY DEF MatchedAt
  <2>1. p < b /\ b <= q
    BY <1>3
  <2>2. a \in Done /\ b \in Done
    BY <1>2, <1>5, <2>1
  <2> QED
    BY <2>2
<1> DEFINE cuts == {b \in p + 1 .. q : \E a \in Planned : Cut(a, b)}
           Open == \A r \in p + 1 .. q : ~track[r].ghost
           All == \A r \in p .. q : r \in Planned => MatchedAt(r)
           Flagless == \A a, b \in p .. q : a \in Planned /\ b \in Planned /\ Adjacent(a, b) =>
                          ~answered[a].end /\ ~answered[b].begin
           Over == \E a, b \in Planned : cuts = {b} /\ Cut(a, b) /\ MatchedAt(a) /\ MatchedAt(b)
<1>7. /\ cuts' = cuts /\ Open' = Open
      /\ All' = All /\ Flagless' = Flagless
  BY <1>1, <1>4
<1>8. Over' = Over
  <2>1. \A a, b : cuts = {b} /\ Cut(a, b) =>
           (MatchedAt(a)' <=> MatchedAt(a)) /\ (MatchedAt(b)' <=> MatchedAt(b))
    <3> SUFFICES ASSUME NEW a, NEW b, cuts = {b}, Cut(a, b)
                 PROVE  (MatchedAt(a)' <=> MatchedAt(a)) /\ (MatchedAt(b)' <=> MatchedAt(b))
      OBVIOUS
    <3>1. b \in p + 1 .. q
      OBVIOUS
    <3> QED
      BY <1>6, <3>1
  <2> HIDE DEF cuts
  <2>2. ASSUME NEW a, NEW b
        PROVE  (cuts = {b} /\ Cut(a, b) /\ MatchedAt(a) /\ MatchedAt(b))'
                 <=> cuts = {b} /\ Cut(a, b) /\ MatchedAt(a) /\ MatchedAt(b)
    BY <1>1, <1>7, <2>1
  <2> QED
    BY <1>1, <2>2
<1>9. /\ RunsOn(p, q) <=> Open /\ ((cuts = {} /\ All /\ Flagless) \/ Over)
      /\ RunsOn(p, q)' <=> (Open /\ ((cuts = {} /\ All /\ Flagless) \/ Over))'
  BY DEF RunsOn, CutsIn
<1> HIDE DEF cuts, Open, All, Flagless, Over
<1> QED
  BY <1>7, <1>8, <1>9

\* What lies between two fixes that the next chunk owns.
LEMMA WithinChunk ==
    ASSUME MergeTypes, Sending, NEW c \in Nat, start = c * Step,
           NEW x \in DOMAIN NextChunk.owned, NEW y \in DOMAIN NextChunk.owned, x < y
    PROVE  LET o == NextChunk.owned
           IN  /\ o[x] \in Nat /\ o[y] \in Nat /\ o[x] < o[y]
               /\ \A z \in DOMAIN o : x <= z /\ z <= y => o[z] \in o[x] .. o[y] /\ o[z] \in Planned
               /\ \A r \in Planned : r \in o[x] .. o[y] =>
                     \E z \in DOMAIN o : x <= z /\ z <= y /\ r = o[z]
               /\ \A r \in o[x] + 1 .. o[y] : ~track[r].ghost /\ ~\E a \in Planned : Cut(a, r)
               /\ \A z \in DOMAIN o : z # 1 => Adjacent(o[z - 1], o[z])
<1> DEFINE o == NextChunk.owned
<1>1. /\ 1 \in DOMAIN o
      /\ \A i \in DOMAIN o : o[i] \in DOMAIN track /\ o[i] \in Nat /\ o[i] \notin Done
      /\ \A i, j \in DOMAIN o : i < j => o[i] < o[j]
      /\ \A i \in DOMAIN o : i # 1 => ~Parted(o[i - 1], o[i])
  BY OwnedComeNext
<1>2. /\ \A i, j \in DOMAIN o : \A r \in o[i] + 1 .. o[j] : ~track[r].ghost
      /\ \A i, j \in DOMAIN o : \A r \in Planned :
            o[i] <= r /\ r <= o[j] => \E z \in DOMAIN o : i <= z /\ z <= j /\ r = o[z]
  BY OwnedBetween
<1>3. \A i \in DOMAIN o : \A a : i # 1 => ~Cut(a, o[i])
  BY CutsHere
<1>4. /\ DOMAIN o \subseteq Nat /\ \A i \in DOMAIN o : i >= 1 /\ o[i] \in Planned
      /\ \A i \in DOMAIN o : i # 1 => i - 1 \in DOMAIN o
  <2> DEFINE f == own_from(start)
             t == own_to(start, Len(Sent))
  <2>1. /\ f \in Nat /\ t \in Nat /\ DOMAIN o = 1 .. t - f /\ stretch \in 1 .. Len(plan)
        /\ \A i \in 1 .. t - f : f + i \in 1 .. Len(Sent) /\ o[i] = Sent[f + i]
    BY OwnedAre
  <2>2. \A j \in 1 .. Len(Sent) : Sent[j] \in Planned
    <3>1. stretch \in DOMAIN plan /\ DOMAIN plan[stretch] = 1 .. Len(plan[stretch])
      BY <2>1 DEF MergeTypes, PlanOf
    <3>2. ToSet(plan[stretch]) \subseteq Planned
      BY <3>1 DEF Planned
    <3> QED
      BY <3>1, <3>2 DEF Sent, ToSet
  <2> HIDE DEF o, f, t
  <2>3. \A i \in 1 .. t - f : o[i] \in Planned
    BY <2>1, <2>2
  <2>4. \A i \in 1 .. t - f : i \in Nat /\ i >= 1 /\ (i # 1 => i - 1 \in 1 .. t - f)
    BY <2>1
  <2> QED
    BY <2>1, <2>3, <2>4
<1>d. x \in DOMAIN o /\ y \in DOMAIN o /\ x < y
  OBVIOUS
<1> HIDE DEF o
<1>5. o[x] \in Nat /\ o[y] \in Nat /\ o[x] < o[y]
  BY <1>1, <1>d
<1>6. ASSUME NEW z \in DOMAIN o, x <= z, z <= y PROVE o[z] \in o[x] .. o[y] /\ o[z] \in Planned
  <2>1. o[x] <= o[z] /\ o[z] <= o[y] /\ o[z] \in Nat
    <3>1. z \in Nat /\ x \in Nat /\ y \in Nat
      BY <1>4, <1>d
    <3>2. (x = z \/ x < z) /\ (z = y \/ z < y)
      BY <1>6, <3>1
    <3>3. o[z] \in Nat /\ (x < z => o[x] < o[z]) /\ (z < y => o[z] < o[y])
      BY <1>1, <1>d
    <3> QED
      BY <1>5, <3>2, <3>3
  <2> QED
    BY <1>4, <1>5, <2>1
<1>7. ASSUME NEW r \in Planned, r \in o[x] .. o[y]
      PROVE  \E z \in DOMAIN o : x <= z /\ z <= y /\ r = o[z]
  BY <1>2, <1>5, <1>7, <1>d
<1>8. ASSUME NEW r \in o[x] + 1 .. o[y], NEW a, Cut(a, r) PROVE FALSE
  <2>1. r \in Planned /\ r \in o[x] .. o[y] /\ r # o[x]
    BY <1>5, <1>8, CutIs
  <2>2. PICK z \in DOMAIN o : x <= z /\ z <= y /\ r = o[z]
    BY <1>7, <2>1
  <2>3. z # 1
    <3>1. z \in Nat /\ x \in Nat /\ x >= 1 /\ z # x
      BY <1>4, <1>d, <2>1, <2>2
    <3> QED
      BY <2>2, <3>1
  <2> QED
    BY <1>3, <1>8, <2>2, <2>3
<1>9. ASSUME NEW z \in DOMAIN o, z # 1 PROVE Adjacent(o[z - 1], o[z])
  <2>1. z - 1 \in DOMAIN o /\ z - 1 < z
    BY <1>4, <1>9
  <2>2. o[z - 1] < o[z] /\ ~Parted(o[z - 1], o[z])
    BY <1>1, <1>9, <2>1
  <2> QED
    BY <2>2 DEF Adjacent, Parted
<1>10. \A r \in o[x] + 1 .. o[y] : ~track[r].ghost
  BY <1>2, <1>d
<1> QED
  BY <1>5, <1>6, <1>7, <1>8, <1>9, <1>10 DEF o

\* Within a chunk a road runs on between two matched fixes unless a group starts
\* between them.
LEMMA RunsWithin ==
    ASSUME MergeTypes, Sending, NEW c \in Nat, start = c * Step,
           NEW o, o = NextChunk.owned, NEW told \in [DOMAIN o -> Match],
           track' = track, plan' = plan, \A i \in DOMAIN o : answered'[o[i]] = told[i],
           NEW x \in DOMAIN o, NEW y \in DOMAIN o, x < y, told[x].matched, told[y].matched
    PROVE  RunsOn(o[x], o[y])' <=> \A z \in x + 1 .. y : z \notin GroupStarts(told)
<1> DEFINE p == o[x]
           q == o[y]
<1>1. /\ p \in Nat /\ q \in Nat /\ p < q
      /\ \A z \in DOMAIN o : x <= z /\ z <= y => o[z] \in p .. q /\ o[z] \in Planned
      /\ \A r \in Planned : r \in p .. q => \E z \in DOMAIN o : x <= z /\ z <= y /\ r = o[z]
      /\ \A r \in p + 1 .. q : ~track[r].ghost /\ ~\E a \in Planned : Cut(a, r)
      /\ \A z \in DOMAIN o : z # 1 => Adjacent(o[z - 1], o[z])
  BY WithinChunk
<1>2. \A i, j \in DOMAIN o : o[i] \in Nat /\ (i < j => o[i] < o[j])
  BY OwnedComeNext
<1>m. PICK m \in Nat : DOMAIN o = 1 .. m
  <2>1. o \in Seq(DOMAIN track)
    BY OwnedAre
  <2> QED
    BY <2>1
<1>a. \A i \in DOMAIN o : answered'[o[i]] = told[i] /\ told[i] \in Match /\ told[i] # NoData
  BY MatchesAssumption
<1>d. x \in 1 .. m /\ y \in 1 .. m /\ x < y /\ told[x].matched /\ told[y].matched
  BY <1>m
<1>s. /\ Planned' = Planned /\ \A a, b : Cut(a, b)' <=> Cut(a, b)
      /\ \A a, b : Adjacent(a, b)' <=> Adjacent(a, b)
      /\ track' = track
  BY DEF Planned, Cut, Adjacent
<1>g. GroupStarts(told) = {i \in 1 .. m :
         /\ told[i].matched
         /\ \/ i = 1
            \/ ~told[i - 1].matched
            \/ told[i].begin \/ told[i - 1].end}
  <2>1. DOMAIN told = 1 .. m
    BY <1>m
  <2> QED
    BY <2>1 DEF GroupStarts
<1>3. \A i \in 1 .. m : MatchedAt(o[i])' <=> told[i].matched
  BY <1>a, <1>m DEF MatchedAt
<1> DEFINE Linked == /\ \A z \in 1 .. m : x <= z /\ z <= y => told[z].matched
                     /\ \A z \in 1 .. m : x < z /\ z <= y => ~told[z - 1].end /\ ~told[z].begin
<1>4. RunsOn(p, q)' <=> Linked
  <2>1. {b \in p + 1 .. q : \E a \in Planned : Cut(a, b)} = {}
    BY <1>1
  <2>2. RunsOn(p, q)' <=>
           /\ \A r \in p .. q : r \in Planned => MatchedAt(r)'
           /\ \A a, b \in p .. q : a \in Planned /\ b \in Planned /\ Adjacent(a, b) =>
                 ~answered'[a].end /\ ~answered'[b].begin
    <3>1. \A r \in p + 1 .. q : ~track[r].ghost
      BY <1>1
    <3> DEFINE cuts == {b \in p + 1 .. q : \E a \in Planned : Cut(a, b)}
               All == \A r \in p .. q : r \in Planned => MatchedAt(r)
               Flagless == \A a, b \in p .. q : a \in Planned /\ b \in Planned /\ Adjacent(a, b) =>
                              ~answered[a].end /\ ~answered[b].begin
               Over == \E a, b \in Planned : cuts = {b} /\ Cut(a, b) /\ MatchedAt(a) /\ MatchedAt(b)
               Open == \A r \in p + 1 .. q : ~track[r].ghost
    <3>2. RunsOn(p, q)' <=> (Open /\ ((cuts = {} /\ All /\ Flagless) \/ Over))'
      BY DEF RunsOn, CutsIn
    <3>3. cuts' = cuts /\ Open' = Open
      BY <1>s
    <3>4. ~Over'
      <4>1. cuts' = {}
        BY <2>1, <3>3
      <4> HIDE DEF cuts
      <4> QED
        BY <4>1
    <3>5. All' <=> \A r \in p .. q : r \in Planned => MatchedAt(r)'
      BY <1>s
    <3>6. Flagless' <=> \A a, b \in p .. q : a \in Planned /\ b \in Planned /\ Adjacent(a, b) =>
                            ~answered'[a].end /\ ~answered'[b].begin
      BY <1>s
    <3>7. cuts' = {} /\ Open'
      BY <2>1, <3>1, <3>3
    <3> HIDE DEF cuts, Open, All, Flagless, Over
    <3> QED
      BY <3>2, <3>4, <3>5, <3>6, <3>7
  <2>3. (\A r \in p .. q : r \in Planned => MatchedAt(r)')
           <=> \A z \in 1 .. m : x <= z /\ z <= y => told[z].matched
    <3>1. ASSUME \A r \in p .. q : r \in Planned => MatchedAt(r)',
                 NEW z \in 1 .. m, x <= z, z <= y
          PROVE  told[z].matched
      <4>1. o[z] \in p .. q /\ o[z] \in Planned
        BY <1>1, <1>m, <3>1
      <4> QED
        BY <1>3, <3>1, <4>1
    <3>2. ASSUME \A z \in 1 .. m : x <= z /\ z <= y => told[z].matched,
                 NEW r \in p .. q, r \in Planned
          PROVE  MatchedAt(r)'
      <4>1. PICK z \in DOMAIN o : x <= z /\ z <= y /\ r = o[z]
        BY <1>1, <3>2
      <4>2. z \in 1 .. m
        BY <1>m
      <4>3. MatchedAt(o[z])'
        BY <1>3, <3>2, <4>1, <4>2
      <4> QED
        BY <4>1, <4>3
    <3> QED
      BY <3>1, <3>2
  <2> DEFINE Flags == \A a, b \in p .. q : a \in Planned /\ b \in Planned /\ Adjacent(a, b) =>
                         ~answered'[a].end /\ ~answered'[b].begin
  <2>4. ASSUME Flags, NEW z \in 1 .. m, x < z, z <= y
        PROVE  ~told[z - 1].end /\ ~told[z].begin
    <3>1. z - 1 \in 1 .. m /\ x <= z - 1 /\ z - 1 <= y /\ x <= z /\ z # 1
      BY <1>d, <2>4
    <3>2. /\ o[z] \in p .. q /\ o[z] \in Planned /\ o[z - 1] \in p .. q /\ o[z - 1] \in Planned
          /\ Adjacent(o[z - 1], o[z])
      BY <1>1, <1>m, <2>4, <3>1
    <3>3. ~answered'[o[z - 1]].end /\ ~answered'[o[z]].begin
      BY <2>4, <3>2
    <3> QED
      BY <1>a, <1>m, <3>1, <3>3
  <2>5. ASSUME \A z \in 1 .. m : x < z /\ z <= y => ~told[z - 1].end /\ ~told[z].begin,
               NEW a \in p .. q, NEW b \in p .. q, a \in Planned, b \in Planned, Adjacent(a, b)
        PROVE  ~answered'[a].end /\ ~answered'[b].begin
    <3>1. PICK i \in DOMAIN o : x <= i /\ i <= y /\ a = o[i]
      BY <1>1, <2>5
    <3>2. PICK j \in DOMAIN o : x <= j /\ j <= y /\ b = o[j]
      BY <1>1, <2>5
    <3>3. o[i] < o[j] /\ \A r \in o[i] + 1 .. o[j] - 1 : r \notin Planned
      BY <2>5, <3>1, <3>2 DEF Adjacent
    <3>4. i \in 1 .. m /\ j \in 1 .. m /\ o[i] \in Nat /\ o[j] \in Nat
      BY <1>2, <1>m, <3>1, <3>2
    <3>5. i < j
      <4>1. j < i => o[j] < o[i]
        BY <1>2, <3>1, <3>2
      <4>2. i = j => o[i] = o[j]
        OBVIOUS
      <4> QED
        BY <3>3, <3>4, <4>1, <4>2
    <3>6. j = i + 1
      <4> SUFFICES ASSUME i + 1 < j PROVE FALSE
        BY <3>4, <3>5
      <4>1. i + 1 \in 1 .. m /\ x <= i + 1 /\ i + 1 <= y /\ i < i + 1
        BY <1>d, <3>1, <3>2, <3>4
      <4>2. o[i + 1] \in Planned
        BY <1>1, <1>m, <4>1
      <4>3. o[i] < o[i + 1] /\ o[i + 1] < o[j] /\ o[i + 1] \in Nat
        BY <1>2, <1>m, <3>4, <4>1
      <4>4. o[i + 1] \in o[i] + 1 .. o[j] - 1
        BY <3>4, <4>3
      <4> QED
        BY <3>3, <4>2, <4>4
    <3>7. x < j /\ j - 1 = i
      BY <1>d, <3>1, <3>4, <3>5, <3>6
    <3>8. ~told[i].end /\ ~told[j].begin
      BY <2>5, <3>2, <3>4, <3>7
    <3> QED
      BY <1>a, <3>1, <3>2, <3>8
  <2>6. Flags <=> \A z \in 1 .. m : x < z /\ z <= y => ~told[z - 1].end /\ ~told[z].begin
    BY <2>4, <2>5
  <2> HIDE DEF Flags, p, q
  <2> QED
    BY <2>2, <2>3, <2>6 DEF Flags
<1>5. Linked => \A z \in x + 1 .. y : z \notin GroupStarts(told)
  <2> SUFFICES ASSUME Linked, NEW z \in x + 1 .. y, z \in GroupStarts(told) PROVE FALSE
    OBVIOUS
  <2>1. z \in 1 .. m /\ x < z /\ z <= y /\ z # 1 /\ z - 1 \in 1 .. m /\ x <= z - 1 /\ z - 1 <= y
    BY <1>d
  <2>2. told[z - 1].matched /\ ~told[z - 1].end /\ ~told[z].begin
    BY <2>1
  <2> QED
    BY <1>g, <2>1, <2>2
<1>6. (\A z \in x + 1 .. y : z \notin GroupStarts(told)) => Linked
  <2> SUFFICES ASSUME \A z \in x + 1 .. y : z \notin GroupStarts(told) PROVE Linked
    OBVIOUS
  <2>1. ASSUME NEW u \in 1 .. m, x <= u, u <= y, ~told[u].matched PROVE FALSE
    <3> DEFINE T == {i \in 1 .. m : x <= i /\ i <= y /\ ~told[i].matched}
    <3>1. T \in SUBSET Nat /\ T # {} /\ \A i \in T : i <= m
      BY <2>1
    <3>2. PICK i \in T : \A j \in T : j <= i
      BY <3>1, Greatest
    <3>3. i \in 1 .. m /\ i < y /\ x <= i /\ ~told[i].matched
      BY <1>d
    <3>4. i + 1 \in 1 .. m /\ x <= i + 1 /\ i + 1 <= y /\ i + 1 \notin T
      BY <1>d, <3>2, <3>3
    <3>5. told[i + 1].matched /\ (i + 1) - 1 = i
      BY <3>3, <3>4
    <3>6. i + 1 \in GroupStarts(told)
      BY <1>g, <3>3, <3>4, <3>5
    <3>7. i + 1 \in x + 1 .. y
      BY <1>d, <3>3
    <3> QED
      BY <3>6, <3>7
  <2>2. ASSUME NEW z \in 1 .. m, x < z, z <= y PROVE ~told[z - 1].end /\ ~told[z].begin
    <3>1. z \in x + 1 .. y
      BY <1>d, <2>2
    <3>2. x <= z
      BY <1>d, <2>2
    <3>3. told[z].matched
      BY <2>1, <2>2, <3>2
    <3>4. z \notin GroupStarts(told)
      BY <3>1
    <3> QED
      BY <1>g, <3>3, <3>4
  <2> QED
    BY <2>1, <2>2
<1> QED
  BY <1>4, <1>5, <1>6

\* From a fix done to one of the next chunk a road runs on if the chunk goes on where
\* the one before was cut off, that one is unbroken from the fix on, and the fixes
\* at the cut are matched.
LEMMA RunsAcross ==
    ASSUME MergeTypes, Sending, NEW c \in Nat, start = c * Step,
           NEW o, o = NextChunk.owned, NEW told \in [DOMAIN o -> Match],
           NEW last, last = Sent[own_from(start)],
           track' = track, plan' = plan, \A i \in DOMAIN o : answered'[o[i]] = told[i],
           \A x \in Done : answered'[x] = answered[x],
           NEW p \in Done, NEW y \in DOMAIN o
    PROVE  RunsOn(p, o[y])' <=>
             start # 0 /\ Unbroken(p, last) /\ MatchedAt(last) /\ told[1].matched
<1> DEFINE q == o[y]
           first == o[1]
           cuts == {b \in p + 1 .. q : \E a \in Planned : Cut(a, b)}
           All == \A r \in p .. q : r \in Planned => MatchedAt(r)
           Flagless == \A a, b \in p .. q : a \in Planned /\ b \in Planned /\ Adjacent(a, b) =>
                          ~answered[a].end /\ ~answered[b].begin
           Over == \E a, b \in Planned : cuts = {b} /\ Cut(a, b) /\ MatchedAt(a) /\ MatchedAt(b)
           Open == \A r \in p + 1 .. q : ~track[r].ghost
<1>1. /\ 1 \in DOMAIN o
      /\ \A i \in DOMAIN o : o[i] \in Nat
      /\ \A i, j \in DOMAIN o : i < j => o[i] < o[j]
      /\ \A x \in Done : x \in Nat /\ x < o[1]
      /\ start # 0 => last \in Done /\ \A x \in Done : x <= last
  BY OwnedComeNext
<1>2. /\ \A i, j \in DOMAIN o : \A r \in Planned :
            o[i] <= r /\ r <= o[j] => \E z \in DOMAIN o : i <= z /\ z <= j /\ r = o[z]
      /\ start = 0 => \A x \in Done : \E r \in x + 1 .. o[1] : track[r].ghost
      /\ start # 0 => \A i \in DOMAIN o : \A r \in last + 1 .. o[i] : ~track[r].ghost
      /\ \A r \in Planned : r \in Nat /\ (r < o[1] => r \in Done)
  BY OwnedBetween
<1>3. /\ \A i \in DOMAIN o : \A a : i # 1 => ~Cut(a, o[i])
      /\ start # 0 => \A a : Cut(a, o[1]) <=> a = last
  BY CutsHere
<1>4. \A a, b : Cut(a, b) => a \in Planned /\ b \in Planned /\ a \in Nat /\ b \in Nat /\ a < b
  BY CutIs
<1>5. p \in Nat /\ q \in Nat /\ first \in Nat /\ p < first /\ first <= q
  <2>1. DOMAIN o \subseteq Nat /\ \A i \in DOMAIN o : i = 1 \/ 1 < i
    <3>1. o \in Seq(DOMAIN track)
      BY OwnedAre
    <3> QED
      BY <3>1
  <2>2. y = 1 \/ 1 < y
    BY <2>1
  <2>3. y = 1 => q = first
    OBVIOUS
  <2>4. 1 < y => first < q
    BY <1>1
  <2>5. p \in Nat /\ q \in Nat /\ first \in Nat /\ p < first
    BY <1>1
  <2> HIDE DEF q, first
  <2> QED
    BY <2>2, <2>3, <2>4, <2>5
<1>6. /\ Planned' = Planned /\ \A a, b : Cut(a, b)' <=> Cut(a, b)
      /\ track' = track
  BY DEF Planned, Cut
<1>7. /\ RunsOn(p, q)' <=> (Open /\ ((cuts = {} /\ All /\ Flagless) \/ Over))'
      /\ cuts' = cuts /\ Open' = Open
      /\ Over' <=> \E a, b \in Planned : cuts = {b} /\ Cut(a, b) /\ MatchedAt(a)' /\ MatchedAt(b)'
  <2>1. RunsOn(p, q)' <=> (Open /\ ((cuts = {} /\ All /\ Flagless) \/ Over))'
    BY DEF RunsOn, CutsIn
  <2>2. cuts' = cuts /\ Open' = Open
    BY <1>6
  <2>3. Over' <=> \E a, b \in Planned : cuts = {b} /\ Cut(a, b) /\ MatchedAt(a)' /\ MatchedAt(b)'
    <3>1. Over' <=> \E a, b \in Planned : cuts' = {b} /\ Cut(a, b) /\ MatchedAt(a)' /\ MatchedAt(b)'
      BY <1>6
    <3> HIDE DEF cuts
    <3> QED
      BY <2>2, <3>1
  <2> QED
    BY <2>1, <2>2, <2>3
<1>8. MatchedAt(first)' <=> told[1].matched
  BY <1>1, MatchesAssumption DEF MatchedAt
<1>9. start # 0 => (MatchedAt(last)' <=> MatchedAt(last))
  BY <1>1 DEF MatchedAt
<1>10. CASE start = 0
  <2>1. PICK r \in p + 1 .. first : track[r].ghost
    BY <1>2, <1>10
  <2>2. r \in p + 1 .. q
    <3> HIDE DEF q, first
    <3> QED
      BY <1>5
  <2>3. ~Open
    BY <2>1, <2>2
  <2> HIDE DEF Open, cuts, All, Flagless, Over
  <2> QED
    BY <1>7, <1>10, <2>3
<1>11. CASE start # 0
  <2>1. /\ last \in Done /\ last \in Nat /\ p <= last /\ last < first
        /\ \A a : Cut(a, first) <=> a = last
    BY <1>1, <1>3, <1>11
  <2>2. first \in cuts
    <3>1. Cut(last, first)
      BY <2>1
    <3>2. last \in Planned
      BY <1>4, <3>1
    <3>3. first \in p + 1 .. q
      <4> HIDE DEF q, first
      <4> QED
        BY <1>5
    <3> QED
      BY <3>1, <3>2, <3>3
  <2>3. ASSUME NEW b \in cuts PROVE b = first \/ b \in p + 1 .. last
    <3>1. b \in p + 1 .. q /\ \E a \in Planned : Cut(a, b)
      OBVIOUS
    <3>2. PICK a \in Planned : Cut(a, b)
      BY <3>1
    <3>3. b \in Planned /\ b \in Nat
      BY <1>4, <3>2
    <3>4. CASE b < first
      <4>1. b \in Done
        BY <1>2, <3>3, <3>4
      <4>2. b <= last
        BY <1>1, <1>11, <4>1
      <4> QED
        BY <2>1, <3>1, <3>3, <4>2
    <3>5. CASE first <= b
      <4>1. b <= q
        BY <3>1, <1>5
      <4>2. PICK z \in DOMAIN o : b = o[z]
        BY <1>1, <1>2, <3>3, <3>5, <4>1
      <4> QED
        BY <1>3, <3>2, <4>2
    <3> QED
      BY <1>5, <3>3, <3>4, <3>5
  <2>4. (cuts = {first} /\ Open) <=> Unbroken(p, last)
    <3>1. \A r \in p + 1 .. last : r \in p + 1 .. q /\ r # first
      <4> HIDE DEF q, first
      <4> QED
        BY <1>5, <2>1
    <3>2. ASSUME cuts = {first}, Open PROVE Unbroken(p, last)
      <4> SUFFICES ASSUME NEW r \in p + 1 .. last
                   PROVE  ~track[r].ghost /\ ~\E a \in Planned : Cut(a, r)
        BY DEF Unbroken
      <4>1. r \in p + 1 .. q /\ r # first
        BY <3>1
      <4>2. ~track[r].ghost
        BY <3>2, <4>1
      <4>3. (\E a \in Planned : Cut(a, r)) => r \in cuts
        BY <4>1
      <4> HIDE DEF cuts
      <4> QED
        BY <3>2, <4>1, <4>2, <4>3
    <3>3. ASSUME Unbroken(p, last) PROVE cuts = {first} /\ Open
      <4>1. ASSUME NEW b \in cuts PROVE b = first
        <5>1. \E a \in Planned : Cut(a, b)
          OBVIOUS
        <5> QED
          BY <2>3, <3>3, <5>1 DEF Unbroken
      <4>2. ASSUME NEW r \in p + 1 .. q PROVE ~track[r].ghost
        <5>1. r \in p + 1 .. last \/ r \in last + 1 .. q
          <6> HIDE DEF q
          <6> QED
            BY <1>5, <2>1
        <5> QED
          BY <1>2, <1>11, <3>3, <5>1 DEF Unbroken
      <4>3. cuts = {first}
        <5> HIDE DEF cuts, first
        <5> QED
          BY <2>2, <4>1
      <4> QED
        BY <4>2, <4>3
    <3> QED
      BY <3>2, <3>3
  <2>5. Over' <=> cuts = {first} /\ MatchedAt(last)' /\ MatchedAt(first)'
    <3> HIDE DEF cuts, first
    <3>1. ASSUME NEW a \in Planned, NEW b \in Planned,
                 cuts = {b} /\ Cut(a, b) /\ MatchedAt(a)' /\ MatchedAt(b)'
          PROVE  cuts = {first} /\ MatchedAt(last)' /\ MatchedAt(first)'
      <4>1. b = first
        BY <2>2, <3>1
      <4>2. a = last
        BY <2>1, <3>1, <4>1
      <4>3. cuts = {first} /\ MatchedAt(a)' /\ MatchedAt(b)'
        BY <3>1, <4>1
      <4>4. MatchedAt(last)' /\ MatchedAt(first)'
        BY <4>1, <4>2, <4>3 DEF MatchedAt, first
      <4> QED
        BY <4>3, <4>4
    <3>2. Cut(last, first) /\ last \in Planned /\ first \in Planned
      BY <1>4, <2>1
    <3> HIDE DEF Over
    <3> QED
      BY <1>7, <3>1, <3>2
  <2>6. cuts # {}
    <3> HIDE DEF cuts, first
    <3> QED
      BY <2>2
  <2> HIDE DEF cuts, Open, All, Flagless, Over, first
  <2>7. RunsOn(p, q)' <=> Unbroken(p, last) /\ MatchedAt(last)' /\ MatchedAt(first)'
    BY <1>7, <2>4, <2>5, <2>6
  <2> QED
    BY <1>8, <1>9, <1>11, <2>7
<1> QED
  BY <1>10, <1>11

\* The segments of one answered chunk: its fixes on edges, broken where a group starts
\* (snapped_track::segments_in).
LEMMA RoadsAre ==
    ASSUME NEW m \in Nat, NEW answer \in [1 .. m -> Match], NEW o \in [1 .. m -> Nat],
           \A x, y \in 1 .. m : x < y => o[x] < o[y], NEW W,
           \A x, y \in 1 .. m :
              x < y /\ answer[x].matched /\ answer[x].edge /\ answer[y].matched /\ answer[y].edge =>
                 (<<o[x], o[y]>> \in W <=> \A z \in x + 1 .. y : z \notin GroupStarts(answer))
    PROVE  Good(snapped_track_segments_in(o, answer),
                {o[x] : x \in {y \in 1 .. m : answer[y].matched /\ answer[y].edge}}, W)
<1> DEFINE G == GroupStarts(answer)
           D(i) == OnEdges(answer, i)
           S == {i \in G : D(i) # {}}
           starts == Ascending(S)
           M(k) == Ascending(D(starts[k]))
           segs == [k \in DOMAIN starts |-> [j \in DOMAIN M(k) |-> o[M(k)[j]]]]
           On == {y \in 1 .. m : answer[y].matched /\ answer[y].edge}
           X == {o[x] : x \in On}
<1>1. snapped_track_segments_in(o, answer) = segs
  BY DEF snapped_track_segments_in
<1>2. G = {i \in 1 .. m : /\ answer[i].matched
                          /\ \/ i = 1
                             \/ ~answer[i - 1].matched
                             \/ answer[i].begin \/ answer[i - 1].end}
  BY DEF GroupStarts
<1>3. \A i : D(i) = {j \in On : i <= j /\ \A k \in i + 1 .. j : k \notin G}
  BY DEF OnEdges
<1>4. G \subseteq 1 .. m /\ On \subseteq 1 .. m
  BY <1>2
<1>n. G \subseteq Nat /\ On \subseteq Nat /\ G \subseteq 0 .. m
  <2>1. 1 .. m \subseteq Nat /\ 1 .. m \subseteq 0 .. m
    OBVIOUS
  <2> HIDE DEF G, On
  <2> QED
    BY <1>4, <2>1
<1>5. \A x, y \in On : x < y =>
         (<<o[x], o[y]>> \in W <=> \A z \in x + 1 .. y : z \notin G)
  OBVIOUS
<1>6. \A x \in On : \E i \in G : x \in D(i)
  <2> SUFFICES ASSUME NEW x \in On PROVE \E i \in G : x \in D(i)
    OBVIOUS
  <2>0. x \in 1 .. m /\ answer[x].matched
    OBVIOUS
  <2>1. \E i \in G : i <= x
    <3> DEFINE U == {u \in 0 .. x : u = 0 \/ ~answer[u].matched}
    <3>1. U \in SUBSET Nat /\ 0 \in U /\ x \in Nat /\ \A u \in U : u <= x
      BY <2>0
    <3>2. PICK u \in U : \A v \in U : v <= u
      BY <3>1, Greatest
    <3>3. u \in 0 .. x /\ u # x /\ (u = 0 \/ ~answer[u].matched)
      BY <2>0
    <3>4. u + 1 \in 1 .. x /\ u + 1 \in 1 .. m /\ u + 1 \notin U /\ (u + 1) - 1 = u
      BY <2>0, <3>2, <3>3
    <3>5. answer[u + 1].matched
      BY <3>1, <3>4
    <3>6. u + 1 \in G
      BY <1>2, <3>3, <3>4, <3>5
    <3> QED
      BY <2>0, <3>4, <3>6
  <2> DEFINE T == {i \in G : i <= x}
  <2>2. T \in SUBSET Nat /\ T # {} /\ x \in Nat /\ \A i \in T : i <= x
    BY <1>4, <2>0, <2>1
  <2>3. PICK i \in T : \A j \in T : j <= i
    BY <2>2, Greatest
  <2>4. i \in G /\ i <= x /\ i \in Nat
    BY <1>4
  <2>5. ASSUME NEW k \in i + 1 .. x, k \in G PROVE FALSE
    <3>1. k \in T /\ i < k
      BY <2>0, <2>4, <2>5
    <3> QED
      BY <2>3, <2>4, <3>1
  <2> QED
    BY <1>3, <2>4, <2>5
<1>7. \A i, l \in G : i < l => \A x \in D(i), y \in D(l) : x < l /\ l <= y
  <2> SUFFICES ASSUME NEW i \in G, NEW l \in G, i < l, NEW x \in D(i), NEW y \in D(l)
               PROVE  x < l /\ l <= y
    OBVIOUS
  <2>1. i \in Nat /\ l \in Nat /\ x \in Nat /\ y \in Nat
    BY <1>3, <1>4
  <2>2. l <= y /\ \A k \in i + 1 .. x : k \notin G
    BY <1>3
  <2>3. ~(l \in i + 1 .. x)
    BY <2>2
  <2> HIDE DEF G, D
  <2> QED
    BY <2>1, <2>2, <2>3
<1> HIDE DEF G, On
<1>8. \A i \in G : D(i) \in SUBSET (0 .. m) /\ D(i) \in SUBSET On
  <2>1. 1 .. m \subseteq 0 .. m
    OBVIOUS
  <2> QED
    BY <1>3, <1>4, <2>1
<1> HIDE DEF D
<1>9. S \in SUBSET (0 .. m) /\ S \subseteq G
  BY <1>n
<1> HIDE DEF S
<1>10. /\ Len(starts) \in Nat /\ DOMAIN starts = 1 .. Len(starts)
       /\ ToSet(starts) = S
       /\ \A k \in DOMAIN starts : starts[k] \in S
       /\ \A k, l \in DOMAIN starts : k < l => starts[k] < starts[l]
  BY <1>9, AscendingIs
<1> HIDE DEF starts
<1> DEFINE n == Len(starts)
<1>11. \A k \in 1 .. n : starts[k] \in G /\ D(starts[k]) # {}
  BY <1>9, <1>10 DEF S
<1>12. ASSUME NEW k \in 1 .. n
       PROVE  /\ Len(M(k)) \in Nat /\ DOMAIN M(k) = 1 .. Len(M(k)) /\ Len(M(k)) # 0
              /\ \A j \in 1 .. Len(M(k)) : M(k)[j] \in D(starts[k]) /\ M(k)[j] \in On
              /\ \A x \in D(starts[k]) : \E j \in 1 .. Len(M(k)) : M(k)[j] = x
              /\ \A i, j \in 1 .. Len(M(k)) : i < j => M(k)[i] < M(k)[j]
  <2> DEFINE E == D(starts[k])
             s == M(k)
  <2>1. E \in SUBSET (0 .. m) /\ E \in SUBSET On /\ E # {}
    BY <1>8, <1>11
  <2> HIDE DEF E
  <2>2. /\ Len(Ascending(E)) \in Nat
        /\ DOMAIN Ascending(E) = 1 .. Len(Ascending(E))
        /\ ToSet(Ascending(E)) = E
        /\ \A i \in DOMAIN Ascending(E) : Ascending(E)[i] \in E
        /\ \A i, j \in DOMAIN Ascending(E) : i < j => Ascending(E)[i] < Ascending(E)[j]
    BY <2>1, AscendingIs
  <2>3. s = Ascending(E)
    BY DEF E
  <2> HIDE DEF M
  <2>4. /\ Len(s) \in Nat /\ DOMAIN s = 1 .. Len(s) /\ ToSet(s) = E
        /\ \A i \in 1 .. Len(s) : s[i] \in E
        /\ \A i, j \in 1 .. Len(s) : i < j => s[i] < s[j]
    BY <2>2, <2>3
  <2> HIDE DEF s
  <2>5. \A x \in E : \E j \in 1 .. Len(s) : s[j] = x
    BY <2>4 DEF ToSet
  <2>6. Len(s) # 0
    <3>1. PICK x \in E : TRUE
      BY <2>1
    <3>2. PICK j \in 1 .. Len(s) : s[j] = x
      BY <2>5
    <3> QED
      BY <2>4, <3>2
  <2> QED
    BY <2>1, <2>4, <2>5, <2>6 DEF s, E
<1>13. DOMAIN segs = 1 .. n /\ Len(segs) = n /\ \A k \in 1 .. n : segs[k] = [j \in DOMAIN M(k) |-> o[M(k)[j]]]
  BY <1>10
<1> HIDE DEF M, segs, n
<1>14. ASSUME NEW k \in 1 .. n
       PROVE  /\ segs[k] \in Seq(Nat) /\ Len(segs[k]) = Len(M(k)) /\ Len(M(k)) # 0 /\ Len(M(k)) \in Nat
              /\ \A j \in 1 .. Len(M(k)) : segs[k][j] = o[M(k)[j]] /\ M(k)[j] \in 1 .. m
  <2> DEFINE s == M(k)
             l == Len(s)
  <2>1. l \in Nat /\ DOMAIN s = 1 .. l /\ l # 0 /\ \A j \in 1 .. l : s[j] \in On
    BY <1>12
  <2>2. segs[k] = [j \in 1 .. l |-> o[s[j]]]
    BY <1>13, <2>1
  <2> HIDE DEF s, l
  <2>3. \A j \in 1 .. l : s[j] \in 1 .. m /\ o[s[j]] \in Nat
    BY <1>4, <2>1
  <2>4. segs[k] \in [1 .. l -> Nat]
    BY <2>2, <2>3
  <2>5. segs[k] \in Seq(Nat) /\ Len(segs[k]) = l
    <3> DEFINE t == segs[k]
    <3>1. t \in [1 .. l -> Nat] /\ l \in Nat
      BY <2>1, <2>4
    <3> HIDE DEF t
    <3>2. t \in Seq(Nat) /\ Len(t) = l
      BY <3>1
    <3> QED
      BY <3>2 DEF t
  <2> QED
    BY <2>1, <2>2, <2>3, <2>5 DEF s, l
<1>15. segs \in Seq(Seq(Nat))
  <2>1. segs \in [1 .. n -> Seq(Nat)]
    <3>1. segs = [k \in 1 .. n |-> segs[k]]
      BY <1>10, <1>13 DEF segs, n
    <3>2. \A k \in 1 .. n : segs[k] \in Seq(Nat)
      BY <1>14
    <3> HIDE DEF segs
    <3> QED
      BY <3>1, <3>2
  <2>2. n \in Nat
    BY <1>10 DEF n
  <2> QED
    BY <2>1, <2>2
<1>16. X \subseteq Nat
  BY <1>4
<1>17. \A k \in 1 .. n : \A i \in 1 .. Len(segs[k]) : segs[k][i] \in X
  BY <1>12, <1>14
<1>18. ASSUME NEW x \in X PROVE \E k \in 1 .. n : \E i \in 1 .. Len(segs[k]) : segs[k][i] = x
  <2>1. PICK z \in On : x = o[z]
    OBVIOUS
  <2>2. PICK i \in G : z \in D(i)
    BY <1>6
  <2>3. i \in S
    BY <2>2 DEF S
  <2>4. PICK k \in 1 .. n : starts[k] = i
    BY <1>10, <2>3 DEF ToSet, n
  <2>5. PICK j \in 1 .. Len(M(k)) : M(k)[j] = z
    BY <1>12, <2>2, <2>4
  <2> QED
    BY <1>14, <2>1, <2>5
<1>19. ASSUME NEW k \in 1 .. n, NEW i \in 1 .. Len(segs[k]), NEW j \in 1 .. Len(segs[k]), i < j
       PROVE  segs[k][i] < segs[k][j]
  <2>1. i \in 1 .. Len(M(k)) /\ j \in 1 .. Len(M(k))
    BY <1>14
  <2>2. M(k)[i] < M(k)[j] /\ M(k)[i] \in 1 .. m /\ M(k)[j] \in 1 .. m
    BY <1>12, <1>14, <1>19, <2>1
  <2> QED
    BY <1>14, <2>1, <2>2
<1>20. ASSUME NEW k \in 1 .. n, NEW l \in 1 .. n, k < l,
              NEW i \in 1 .. Len(M(k)), NEW j \in 1 .. Len(M(l))
       PROVE  M(k)[i] < M(l)[j] /\ starts[l] \in M(k)[i] + 1 .. M(l)[j]
  <2>1. starts[k] \in G /\ starts[l] \in G /\ starts[k] < starts[l]
    BY <1>10, <1>11, <1>20 DEF n
  <2>2. M(k)[i] \in D(starts[k]) /\ M(l)[j] \in D(starts[l])
    BY <1>12
  <2>3. M(k)[i] < starts[l] /\ starts[l] <= M(l)[j]
    BY <1>7, <2>1, <2>2
  <2>4. M(k)[i] \in Nat /\ M(l)[j] \in Nat /\ starts[l] \in Nat
    BY <1>n, <1>12, <2>1
  <2> QED
    BY <2>3, <2>4
<1>21. ASSUME NEW k \in 1 .. n, NEW l \in 1 .. n, k < l,
              NEW i \in 1 .. Len(segs[k]), NEW j \in 1 .. Len(segs[l])
       PROVE  segs[k][i] < segs[l][j]
  <2>1. i \in 1 .. Len(M(k)) /\ j \in 1 .. Len(M(l))
    BY <1>14
  <2>2. M(k)[i] < M(l)[j] /\ M(k)[i] \in 1 .. m /\ M(l)[j] \in 1 .. m
    BY <1>14, <1>20, <1>21, <2>1
  <2> QED
    BY <1>14, <2>1, <2>2
<1>22. ASSUME NEW k \in 1 .. n, NEW i \in 1 .. Len(segs[k]) - 1
       PROVE  <<segs[k][i], segs[k][i + 1]>> \in W
  <2>1. i \in 1 .. Len(M(k)) /\ i + 1 \in 1 .. Len(M(k)) /\ i < i + 1
    <3>1. Len(segs[k]) = Len(M(k)) /\ Len(M(k)) \in Nat
      BY <1>14
    <3> QED
      BY <3>1
  <2> DEFINE x == M(k)[i]
             y == M(k)[i + 1]
  <2>2. x \in On /\ y \in On /\ x < y /\ x \in D(starts[k]) /\ y \in D(starts[k])
    BY <1>12, <2>1
  <2>3. starts[k] <= x /\ \A z \in starts[k] + 1 .. y : z \notin G
    BY <1>3, <2>2
  <2>4. starts[k] \in Nat /\ x \in Nat /\ y \in Nat
    BY <1>n, <1>11, <2>2
  <2>5. segs[k][i] = o[x] /\ segs[k][i + 1] = o[y]
    BY <1>14, <2>1
  <2> HIDE DEF x, y
  <2>6. \A z \in x + 1 .. y : z \notin G
    BY <2>3, <2>4
  <2> QED
    BY <1>5, <2>2, <2>5, <2>6
<1>23. ASSUME NEW k \in 1 .. n - 1
       PROVE  <<segs[k][Len(segs[k])], segs[k + 1][1]>> \notin W
  <2>1. k \in 1 .. n /\ k + 1 \in 1 .. n /\ k < k + 1
    BY <1>10 DEF n
  <2>2. /\ Len(segs[k]) = Len(M(k)) /\ Len(M(k)) \in 1 .. Len(M(k))
        /\ 1 \in 1 .. Len(M(k + 1))
    BY <1>14, <2>1
  <2> DEFINE x == M(k)[Len(M(k))]
             y == M(k + 1)[1]
  <2>3. x < y /\ starts[k + 1] \in x + 1 .. y
    BY <1>20, <2>1, <2>2
  <2>4. x \in On /\ y \in On /\ starts[k + 1] \in G
    BY <1>11, <1>12, <2>1, <2>2
  <2>5. segs[k][Len(segs[k])] = o[x] /\ segs[k + 1][1] = o[y]
    BY <1>14, <2>1, <2>2
  <2> HIDE DEF x, y
  <2> QED
    BY <1>5, <2>3, <2>4, <2>5
<1>24. Good(segs, X, W)
  <2>n. Len(segs) = n
    BY <1>13
  <2>1. \A k \in 1 .. Len(segs) : /\ Len(segs[k]) # 0
                                  /\ \A i \in 1 .. Len(segs[k]) : segs[k][i] \in X
    BY <1>14, <1>17, <2>n
  <2>2. \A x \in X : \E k \in 1 .. Len(segs) : \E i \in 1 .. Len(segs[k]) : segs[k][i] = x
    BY <1>18, <2>n
  <2>3. \A k \in 1 .. Len(segs) : \A i, j \in 1 .. Len(segs[k]) : i < j => segs[k][i] < segs[k][j]
    BY <1>19, <2>n
  <2>4. \A k, l \in 1 .. Len(segs) : k < l =>
           \A i \in 1 .. Len(segs[k]), j \in 1 .. Len(segs[l]) : segs[k][i] < segs[l][j]
    BY <1>21, <2>n
  <2>5. \A k \in 1 .. Len(segs) : \A i \in 1 .. Len(segs[k]) - 1 : <<segs[k][i], segs[k][i + 1]>> \in W
    BY <1>22, <2>n
  <2>6. \A k \in 1 .. Len(segs) - 1 : <<segs[k][Len(segs[k])], segs[k + 1][1]>> \notin W
    <3>1. Len(segs) - 1 = n - 1
      BY <2>n
    <3> QED
      BY <1>23, <3>1
  <2> HIDE DEF X
  <2> QED
    BY <1>15, <1>16, <2>1, <2>2, <2>3, <2>4, <2>5, <2>6 DEF Good
<1> QED
  BY <1>1, <1>24 DEF X, On

\* The ends of segments.
LEMMA EndsAre ==
    ASSUME NEW A, NEW X, NEW W, Good(A, X, W), A # <<>>
    PROVE  LET p == A[Len(A)][Len(A[Len(A)])]
           IN  /\ p \in X /\ \A x \in X : x <= p
               /\ A[1][1] \in X
<1> DEFINE a == Len(A)
           s == A[a]
           l == Len(s)
           p == s[l]
<1>1. A \in Seq(Seq(Nat)) /\ X \subseteq Nat
  BY DEF Good
<1>2. a \in Nat \ {0} /\ a \in 1 .. a /\ 1 \in 1 .. a
  BY <1>1
<1>3. /\ \A k \in 1 .. a : Len(A[k]) # 0 /\ \A i \in 1 .. Len(A[k]) : A[k][i] \in X
      /\ \A x \in X : \E k \in 1 .. a : \E i \in 1 .. Len(A[k]) : A[k][i] = x
      /\ \A k \in 1 .. a : \A i, j \in 1 .. Len(A[k]) : i < j => A[k][i] < A[k][j]
      /\ \A k, n \in 1 .. a : k < n =>
            \A i \in 1 .. Len(A[k]), j \in 1 .. Len(A[n]) : A[k][i] < A[n][j]
  BY DEF Good
<1> HIDE DEF a
<1>4. \A k \in 1 .. a : Len(A[k]) \in Nat /\ Len(A[k]) \in 1 .. Len(A[k]) /\ 1 \in 1 .. Len(A[k])
  <2> TAKE k \in 1 .. a
  <2>1. A[k] \in Seq(Nat)
    BY <1>1 DEF a
  <2>2. Len(A[k]) \in Nat /\ Len(A[k]) # 0
    BY <1>3, <2>1
  <2> QED
    BY <2>2
<1>5. p \in X /\ A[1][1] \in X
  BY <1>2, <1>3, <1>4
<1>n. \A x \in X : x \in Nat /\ p \in Nat
  BY <1>1, <1>5
<1>6. ASSUME NEW x \in X PROVE x <= p
  <2>0. x \in Nat /\ p \in Nat /\ (x < p \/ x = p => x <= p)
    <3>1. x \in Nat /\ p \in Nat
      BY <1>n
    <3> HIDE DEF p
    <3> QED
      BY <3>1
  <2>1. PICK k \in 1 .. a : \E i \in 1 .. Len(A[k]) : A[k][i] = x
    BY <1>3
  <2>2. PICK i \in 1 .. Len(A[k]) : A[k][i] = x
    BY <2>1
  <2>3. CASE k < a
    <3>1. x < p
      BY <1>2, <1>3, <1>4, <2>2, <2>3
    <3> QED
      BY <2>0, <3>1
  <2>4. CASE k = a
    <3>1. i < l => x < p
      BY <1>2, <1>3, <1>4, <2>2, <2>4
    <3>2. i = l => x = p
      BY <2>2, <2>4
    <3>3. i < l \/ i = l
      BY <1>2, <1>4, <2>4
    <3> QED
      BY <2>0, <3>1, <3>2, <3>3
  <2> QED
    BY <1>2, <2>3, <2>4
<1> QED
  BY <1>5, <1>6 DEF a

\* Only what W says of the fixes in the segments counts.
LEMMA GoodOf ==
    ASSUME NEW A, NEW X, NEW V, NEW W, Good(A, X, V),
           \A x, y \in X : <<x, y>> \in V <=> <<x, y>> \in W
    PROVE  Good(A, X, W)
<1>1. \A k \in 1 .. Len(A) : \A i \in 1 .. Len(A[k]) : A[k][i] \in X
  BY DEF Good
<1>2. /\ \A k \in 1 .. Len(A) : \A i \in 1 .. Len(A[k]) - 1 : <<A[k][i], A[k][i + 1]>> \in V
      /\ \A k \in 1 .. Len(A) - 1 : <<A[k][Len(A[k])], A[k + 1][1]>> \notin V
  BY DEF Good
<1>3. Len(A) \in Nat /\ \A k \in 1 .. Len(A) : Len(A[k]) \in Nat \ {0}
  <2>1. A \in Seq(Seq(Nat))
    BY DEF Good
  <2>2. \A k \in 1 .. Len(A) : A[k] \in Seq(Nat) /\ Len(A[k]) # 0
    BY <2>1 DEF Good
  <2> QED
    BY <2>1, <2>2
<1>4. ASSUME NEW k \in 1 .. Len(A), NEW i \in 1 .. Len(A[k]) - 1
      PROVE  <<A[k][i], A[k][i + 1]>> \in W
  <2>1. i \in 1 .. Len(A[k]) /\ i + 1 \in 1 .. Len(A[k])
    BY <1>3
  <2> QED
    BY <1>1, <1>2, <2>1
<1>5. ASSUME NEW k \in 1 .. Len(A) - 1
      PROVE  <<A[k][Len(A[k])], A[k + 1][1]>> \notin W
  <2>1. k \in 1 .. Len(A) /\ k + 1 \in 1 .. Len(A)
    BY <1>3
  <2>2. Len(A[k]) \in 1 .. Len(A[k]) /\ 1 \in 1 .. Len(A[k + 1])
    BY <1>3, <2>1
  <2> QED
    BY <1>1, <1>2, <2>1, <2>2
<1> QED
  BY <1>4, <1>5 DEF Good

\* What the previous chunk came to tells whether its last fix is matched and a road
\* was drawn behind the cut before it.
ContinuesIfMatched ==
    Sending /\ start # 0 =>
       LET last == Sent[own_from(start)]
       IN previous.geometry_continues
            <=> MatchedAt(last) /\ \E x \in Done : Unbroken(x, last) /\ OnRoad(x)

\* The invariant of the roads: they are broken where no road runs on, and whether
\* the next chunk may go on with one is known.
RoadInv ==
    /\ MergeInv
    /\ \E c \in 0 .. start : start = c * Step
    /\ Good(segments, {x \in Done : OnRoad(x)}, Runs)
    /\ ContinuesIfMatched

\* The chunk after the next is the one with the next number.
LEMMA NumbersGoOn ==
    ASSUME MergeTypes, Sending, Advance(NextChunk), NEW c \in Nat, start = c * Step
    PROVE  \E d \in 0 .. start' : start' = d * Step
<1>1. \A d \in Nat : d * Step \in Nat /\ d <= d * Step
  BY ChunkNumbers
<1>2. start' = 0 \/ start' = start + ChunkPoints - Overlap
  BY DEF Advance
<1>3. \A s \in Nat : \A d \in Nat : (d + 1) * s = d * s + s
  BY Z3
<1>4. Step \in Nat /\ Step = ChunkPoints - Overlap
  BY ChunkNumbers DEF Step
<1>5. CASE start' = 0
  <2>1. 0 * Step = 0
    BY <1>4, Z3
  <2> QED
    BY <1>5, <2>1
<1>6. CASE start' = start + ChunkPoints - Overlap
  <2> DEFINE s == c * Step
             t == (c + 1) * Step
  <2>1. t = s + Step /\ s \in Nat /\ t \in Nat /\ c + 1 <= t
    BY <1>1, <1>3, <1>4
  <2>2. start' = s + ChunkPoints - Overlap
    BY <1>6
  <2> HIDE DEF s, t
  <2>3. start' = t
    BY <1>4, <2>1, <2>2, ChunkAssumption
  <2> QED
    BY <2>1, <2>3 DEF t
<1> QED
  BY <1>2, <1>5, <1>6

\* Where a chunk is not matched, no road goes on behind it.
LEMMA UnmatchedKeeps ==
    ASSUME RoadInv, MergeInv', Sending, Advance(NextChunk),
           NEW o, o = NextChunk.owned,
           \A x \in Done : answered'[x] = answered[x],
           \A i \in DOMAIN o : ~MatchedAt(o[i])',
           segments' = segments, previous'.geometry_continues = FALSE
    PROVE  RoadInv'
<1>t. MergeTypes
  BY DEF RoadInv, MergeInv
<1>1. /\ track' = track /\ plan' = plan
      /\ Done' = Done \cup {x \in DOMAIN track : \E i \in DOMAIN o : o[i] = x}
      /\ Sending' /\ start' # 0 => Sent'[own_from(start')] = o[Len(o)]
  BY <1>t, AdvanceDoes
<1>2. Len(o) \in DOMAIN o
  <2>1. o # <<>> /\ o \in Seq(DOMAIN track)
    BY <1>t, OwnedComeNext, OwnedAre
  <2> QED
    BY <2>1
<1>3. PICK c \in 0 .. start : start = c * Step
  BY DEF RoadInv
<1>4. \E d \in 0 .. start' : start' = d * Step
  <2>1. start \in Nat
    BY <1>t DEF MergeTypes
  <2>2. c \in Nat
    BY <2>1
  <2> QED
    BY <1>t, <1>3, <2>2, NumbersGoOn
<1> DEFINE X == {x \in Done : OnRoad(x)}
<1>5. X' = X
  <2>1. \A x \in Done : x \in Done' /\ (OnRoad(x)' <=> OnRoad(x))
    BY <1>1 DEF OnRoad, MatchedAt
  <2>2. \A x \in Done' : x \in Done \/ ~OnRoad(x)'
    BY <1>1 DEF OnRoad
  <2>3. X' = {x \in Done' : OnRoad(x)'}
    OBVIOUS
  <2> QED
    BY <2>1, <2>2, <2>3
<1>6. \A p, q \in X : <<p, q>> \in Runs <=> <<p, q>> \in Runs'
  <2> SUFFICES ASSUME NEW p \in Done, NEW q \in Done
               PROVE  <<p, q>> \in Runs <=> <<p, q>> \in Runs'
    OBVIOUS
  <2>1. RunsOn(p, q)' <=> RunsOn(p, q)
    BY <1>t, <1>1, RunsStay
  <2> QED
    BY <2>1 DEF Runs
<1>7. Good(segments, X, Runs)
  BY DEF RoadInv
<1> HIDE DEF X
<1>8. Good(segments', X', Runs')
  <2>1. Good(segments, X, Runs')
    BY <1>6, <1>7, GoodOf
  <2> QED
    BY <1>5, <2>1
<1>9. ContinuesIfMatched'
  <2> DEFINE z == o[Len(o)]
  <2>1. ~MatchedAt(z)'
    BY <1>2
  <2> HIDE DEF z
  <2>2. ASSUME Sending', start' # 0, Sent'[own_from(start')] = z PROVE ContinuesIfMatched'
    BY <2>1, <2>2 DEF MatchedAt, ContinuesIfMatched
  <2>3. ~(Sending' /\ start' # 0) => ContinuesIfMatched'
    BY DEF ContinuesIfMatched
  <2> QED
    BY <1>1, <2>2, <2>3 DEF z
<1> QED
  BY <1>4, <1>8, <1>9 DEF RoadInv, X

\* The fixes done that lie on roads, and those of a chunk the answer puts on edges.
RoadFixes == {x \in Done : OnRoad(x)}
EdgeFixes(o, told) == {o[x] : x \in {y \in DOMAIN o : told[y].matched /\ told[y].edge}}

\* What the fixes on roads are, and how far a road reaches, after an answered chunk.
LEMMA DrawnAre ==
    ASSUME RoadInv, Sending, Advance(NextChunk), NEW c \in Nat, start = c * Step,
           NEW o, o = NextChunk.owned, NEW m \in Nat, DOMAIN o = 1 .. m, NEW told \in [1 .. m -> Match],
           answered' = Recorded(NextChunk, told)
    PROVE  /\ RoadFixes' = RoadFixes \cup EdgeFixes(o, told)
           /\ Good(segments, RoadFixes, Runs')
           /\ Good(snapped_track_segments_in(o, told), EdgeFixes(o, told), Runs')
<1>t. MergeTypes
  BY DEF RoadInv, MergeInv
<1> DEFINE X == {x \in Done : OnRoad(x)}
           On == {y \in 1 .. m : told[y].matched /\ told[y].edge}
           Y == {o[x] : x \in On}
<1>1. /\ track' = track /\ plan' = plan
      /\ Done' = Done \cup {x \in DOMAIN track : \E i \in DOMAIN o : o[i] = x}
  BY <1>t, AdvanceDoes
<1>2. /\ \A i \in DOMAIN o : o[i] \in DOMAIN track /\ o[i] \in Nat /\ o[i] \notin Done
      /\ \A i, j \in DOMAIN o : i < j => o[i] < o[j]
  BY <1>t, OwnedComeNext
<1>3. /\ \A i \in DOMAIN o : answered'[o[i]] = told[i]
      /\ \A x \in DOMAIN track : (\A i \in DOMAIN o : o[i] # x) => answered'[x] = answered[x]
  BY <1>t, RecordedAre
<1>4. \A x \in Done : x \in DOMAIN track /\ answered'[x] = answered[x]
  BY <1>2, <1>3 DEF Done
<1>5. \A i \in 1 .. m : OnRoad(o[i])' <=> i \in On
  <2> SUFFICES ASSUME NEW i \in 1 .. m PROVE OnRoad(o[i])' <=> i \in On
    OBVIOUS
  <2>1. answered'[o[i]] = told[i] /\ told[i] # NoData
    BY <1>3, MatchesAssumption
  <2> QED
    BY <2>1 DEF OnRoad, MatchedAt
<1>6. {x \in Done : OnRoad(x)}' = X \cup Y
  <2> DEFINE Z == {x \in Done : OnRoad(x)}'
  <2>1. \A x \in Done : OnRoad(x)' <=> OnRoad(x)
    BY <1>4 DEF OnRoad, MatchedAt
  <2>2. Z = {x \in Done' : OnRoad(x)'}
    OBVIOUS
  <2>3. ASSUME NEW x \in Z PROVE x \in X \cup Y
    <3>1. x \in Done' /\ OnRoad(x)'
      BY <2>2
    <3>2. CASE x \in Done
      BY <2>1, <3>1, <3>2
    <3>3. CASE \E i \in DOMAIN o : o[i] = x
      <4>1. PICK i \in 1 .. m : o[i] = x
        BY <3>3
      <4>2. OnRoad(o[i])'
        BY <3>1, <4>1 DEF OnRoad, MatchedAt
      <4>3. i \in On
        BY <1>5, <4>2
      <4> QED
        BY <4>1, <4>3
    <3> QED
      BY <1>1, <3>1, <3>2, <3>3
  <2>4. ASSUME NEW x \in X PROVE x \in Z
    BY <1>1, <2>1, <2>2
  <2>5. ASSUME NEW i \in On PROVE o[i] \in Z
    <3>1. o[i] \in Done'
      BY <1>1, <1>2
    <3>2. OnRoad(o[i])'
      BY <1>5
    <3> QED
      BY <2>2, <3>1, <3>2
  <2> HIDE DEF Z
  <2>6. \A x : x \in Z <=> x \in X \cup Y
    BY <2>3, <2>4, <2>5
  <2> HIDE DEF X, Y
  <2>7. Z = X \cup Y
    BY <2>6
  <2> QED
    BY <2>7 DEF Z
<1>7. Good(segments, X, Runs')
  <2>1. \A p, q \in X : <<p, q>> \in Runs <=> <<p, q>> \in Runs'
    <3> SUFFICES ASSUME NEW p \in Done, NEW q \in Done
                 PROVE  <<p, q>> \in Runs <=> <<p, q>> \in Runs'
      OBVIOUS
    <3>1. RunsOn(p, q)' <=> RunsOn(p, q)
      BY <1>t, <1>1, <1>4, RunsStay
    <3> QED
      BY <3>1 DEF Runs
  <2>2. Good(segments, X, Runs)
    BY DEF RoadInv
  <2> HIDE DEF X
  <2> QED
    BY <2>1, <2>2, GoodOf
<1>8. Good(snapped_track_segments_in(o, told), Y, Runs')
  <2>1. ASSUME NEW x \in 1 .. m, NEW y \in 1 .. m, x < y, told[x].matched, told[y].matched
        PROVE  <<o[x], o[y]>> \in Runs' <=> \A z \in x + 1 .. y : z \notin GroupStarts(told)
    <3>1. RunsOn(o[x], o[y])' <=> \A z \in x + 1 .. y : z \notin GroupStarts(told)
      BY <1>t, <1>1, <1>3, <2>1, RunsWithin
    <3>2. o[x] \in Nat /\ o[y] \in Nat
      BY <1>2
    <3> QED
      BY <3>1, <3>2 DEF Runs
  <2>2. o \in [1 .. m -> Nat]
    <3>1. o \in Seq(DOMAIN track)
      BY <1>t, OwnedAre
    <3>2. o = [i \in 1 .. m |-> o[i]]
      BY <3>1
    <3>3. \A i \in 1 .. m : o[i] \in Nat
      BY <1>2
    <3> QED
      BY <3>2, <3>3
  <2>3. \A x, y \in 1 .. m : x < y => o[x] < o[y]
    BY <1>2
  <2> DEFINE W == Runs'
  <2>4. \A x, y \in 1 .. m :
           x < y /\ told[x].matched /\ told[x].edge /\ told[y].matched /\ told[y].edge =>
              (<<o[x], o[y]>> \in W <=> \A z \in x + 1 .. y : z \notin GroupStarts(told))
    BY <2>1
  <2> HIDE DEF W
  <2>5. Good(snapped_track_segments_in(o, told),
             {o[x] : x \in {y \in 1 .. m : told[y].matched /\ told[y].edge}}, W)
    BY <2>2, <2>3, <2>4, RoadsAre
  <2> QED
    BY <2>5 DEF W
<1>9. X = RoadFixes /\ Y = EdgeFixes(o, told)
  BY DEF RoadFixes, EdgeFixes
<1>10. RoadFixes' = {x \in Done : OnRoad(x)}'
  BY DEF RoadFixes
<1> HIDE DEF X, Y
<1> QED
  BY <1>6, <1>7, <1>8, <1>9, <1>10

\* A matched chunk whose shape is drawn keeps the invariant of the roads.
LEMMA DrawnKeeps ==
    ASSUME RoadInv, MergeInv', Sending, Advance(NextChunk),
           NEW o, o = NextChunk.owned, NEW told \in [DOMAIN o -> Match],
           answered' = Recorded(NextChunk, told),
           NEW roads, roads = snapped_track_segments_in(o, told),
           segments' = Joined(NextChunk, told, roads),
           previous'.geometry_continues = (roads # <<>> /\ Last(told).matched)
    PROVE  RoadInv'
<1>t. MergeTypes
  BY DEF RoadInv, MergeInv
<1> DEFINE m == Len(o)
           X == {x \in Done : OnRoad(x)}
           Y == {o[x] : x \in {y \in 1 .. m : told[y].matched /\ told[y].edge}}
           last == Sent[own_from(start)]
<1>m. m \in Nat /\ DOMAIN o = 1 .. m /\ o \in Seq(DOMAIN track) /\ m \in 1 .. m
  <2>1. o \in Seq(DOMAIN track) /\ o # <<>>
    BY <1>t, OwnedAre, OwnedComeNext
  <2> QED
    BY <2>1
<1> HIDE DEF m
<1>c. PICK c \in Nat : start = c * Step
  <2>1. \E c \in 0 .. start : start = c * Step
    BY DEF RoadInv
  <2>2. start \in Nat
    BY <1>t DEF MergeTypes
  <2> QED
    BY <2>1, <2>2
<1>1. /\ track' = track /\ plan' = plan
      /\ Done' = Done \cup {x \in DOMAIN track : \E i \in DOMAIN o : o[i] = x}
      /\ Sending' /\ start' # 0 => Sent'[own_from(start')] = o[m]
  BY <1>t, AdvanceDoes DEF m
<1>2. /\ \A i \in DOMAIN o : o[i] \in DOMAIN track /\ o[i] \in Nat /\ o[i] \notin Done
      /\ \A i, j \in DOMAIN o : i < j => o[i] < o[j]
      /\ \A x \in Done : x \in Nat /\ x < o[1]
      /\ start # 0 => last \in Done /\ \A x \in Done : x <= last
      /\ 1 \in DOMAIN o
  BY <1>t, OwnedComeNext
<1>3. /\ \A i \in DOMAIN o : answered'[o[i]] = told[i]
      /\ \A x \in DOMAIN track : (\A i \in DOMAIN o : o[i] # x) => answered'[x] = answered[x]
  BY <1>t, RecordedAre
<1>4. \A x \in Done : answered'[x] = answered[x]
  <2>1. Done \subseteq DOMAIN track
    BY DEF Done
  <2> QED
    BY <1>2, <1>3, <2>1
<1>5. /\ {x \in Done : OnRoad(x)}' = X \cup Y
      /\ Good(segments, X, Runs')
      /\ Good(roads, Y, Runs')
  <2>1. told \in [1 .. m -> Match] /\ m \in Nat /\ DOMAIN o = 1 .. m
    BY <1>m
  <2>2. /\ RoadFixes' = RoadFixes \cup EdgeFixes(o, told)
        /\ Good(segments, RoadFixes, Runs')
        /\ Good(snapped_track_segments_in(o, told), EdgeFixes(o, told), Runs')
    <3> HIDE DEF X, Y, last
    <3> QED
      BY <1>c, <2>1, DrawnAre
  <2>3. X = RoadFixes /\ Y = EdgeFixes(o, told)
    BY <2>1 DEF RoadFixes, EdgeFixes
  <2>4. RoadFixes' = {x \in Done : OnRoad(x)}'
    BY DEF RoadFixes
  <2> HIDE DEF X, Y
  <2> QED
    BY <2>2, <2>3, <2>4
<1>6. \A x \in X, y \in Y : x < y
  <2> SUFFICES ASSUME NEW x \in Done, NEW i \in 1 .. m PROVE x < o[i]
    OBVIOUS
  <2>1. x \in Nat /\ x < o[1] /\ o[1] \in Nat /\ o[i] \in Nat
    BY <1>2, <1>m
  <2>2. i = 1 \/ 1 < i
    BY <1>m
  <2>3. 1 < i => o[1] < o[i]
    BY <1>2, <1>m
  <2> QED
    BY <2>1, <2>2, <2>3
<1>7. roads = <<>> <=> Y = {}
  <2>1. roads \in Seq(Seq(Nat))
    BY <1>5 DEF Good
  <2>2. roads = <<>> => Y = {}
    <3> SUFFICES ASSUME roads = <<>>, NEW y \in Y PROVE FALSE
      OBVIOUS
    <3>1. PICK k \in 1 .. Len(roads) : \E i \in 1 .. Len(roads[k]) : roads[k][i] = y
      BY <1>5 DEF Good
    <3> QED
      OBVIOUS
  <2>3. roads # <<>> => Y # {}
    <3> HIDE DEF Y
    <3>1. roads # <<>> => roads[1][1] \in Y
      BY <1>5, EndsAre
    <3> QED
      BY <3>1
  <2> QED
    BY <2>2, <2>3
<1>8. \E d \in 0 .. start' : start' = d * Step
  BY <1>t, <1>c, NumbersGoOn
<1>9. Good(segments', X \cup Y, Runs')
  <2> DEFINE a == Len(segments)
             p == segments[a][Len(segments[a])]
             q == roads[1][1]
             Joins == /\ previous.geometry_continues /\ ~NextChunk.opens
                      /\ told[1].matched /\ segments # <<>> /\ roads # <<>>
  <2>1. segments' = IF Joins THEN Front(segments) \o <<Last(segments) \o Head(roads)>> \o Tail(roads)
                    ELSE segments \o roads
    BY DEF Joined
  <2>2. ASSUME segments # <<>>, roads # <<>>
        PROVE  <<p, q>> \in Runs' <=> Joins
    <3>1. p \in X /\ \A x \in X : x <= p
      <4> HIDE DEF X
      <4> QED
        BY <1>5, <2>2, EndsAre
    <3>2. q \in Y
      <4> HIDE DEF Y
      <4> QED
        BY <1>5, <2>2, EndsAre
    <3>3. PICK y \in DOMAIN o : q = o[y]
      BY <1>m, <3>2
    <3> HIDE DEF p, q
    <3>4. \A v, z : v = p /\ z = last => (RunsOn(v, o[y])' <=>
             start # 0 /\ Unbroken(v, z) /\ MatchedAt(z) /\ told[1].matched)
      <4> SUFFICES ASSUME NEW v, NEW z, v = p, z = last
                   PROVE  RunsOn(v, o[y])' <=>
                             start # 0 /\ Unbroken(v, z) /\ MatchedAt(z) /\ told[1].matched
        OBVIOUS
      <4>1. v \in Done
        BY <3>1
      <4> QED
        BY <1>t, <1>c, <1>1, <1>3, <1>4, <4>1, RunsAcross
    <3>5. start # 0 => (previous.geometry_continues <=> MatchedAt(last) /\ \E x \in X : Unbroken(x, last))
      BY DEF RoadInv, ContinuesIfMatched
    <3>6. start # 0 => (Unbroken(p, last) <=> \E x \in X : Unbroken(x, last))
      <4> SUFFICES ASSUME start # 0, NEW x \in X, Unbroken(x, last) PROVE Unbroken(p, last)
        BY <3>1
      <4>1. x \in Nat /\ p \in Nat /\ last \in Nat /\ x <= p
        BY <1>2, <3>1
      <4>2. \A r \in p + 1 .. last : r \in x + 1 .. last
        <5> HIDE DEF last
        <5> QED
          BY <4>1
      <4> QED
        BY <4>2 DEF Unbroken
    <3>7. NextChunk.opens <=> start = 0
      BY <1>t, OwnedAre
    <3>8. p \in Nat /\ q \in Nat
      BY <1>2, <3>1, <3>3
    <3>9. <<p, q>> \in Runs' <=> start # 0 /\ Unbroken(p, last) /\ MatchedAt(last) /\ told[1].matched
      <4>1. ASSUME NEW v, NEW z, v = p, z = last
            PROVE  <<v, o[y]>> \in Runs' <=>
                      start # 0 /\ Unbroken(v, z) /\ MatchedAt(z) /\ told[1].matched
        <5>1. v \in Nat /\ o[y] \in Nat
          BY <3>3, <3>8, <4>1
        <5> QED
          BY <3>4, <4>1, <5>1 DEF Runs
      <4> QED
        BY <3>3, <4>1
    <3> HIDE DEF last
    <3> QED
      BY <2>2, <3>5, <3>6, <3>7, <3>9
  <2> HIDE DEF Joins
  <2>3. CASE roads = <<>>
    <3>1. ~Joins
      BY <2>3 DEF Joins
    <3>2. segments' = segments
      <4>1. segments \in Seq(Seq(Nat))
        BY <1>5 DEF Good
      <4> QED
        BY <2>1, <2>3, <3>1, <4>1
    <3>3. X \cup Y = X
      BY <1>7, <2>3
    <3> QED
      BY <1>5, <3>2, <3>3
  <2> HIDE DEF X, Y
  <2>4. CASE roads # <<>> /\ ~Joins
    <3> DEFINE W == Runs'
    <3>1. Good(segments, X, W) /\ Good(roads, Y, W)
      BY <1>5
    <3>2. segments # <<>> /\ roads # <<>> => <<p, q>> \notin W
      BY <2>2, <2>4
    <3> HIDE DEF W
    <3>3. Good(segments \o roads, X \cup Y, W)
      BY <1>6, <3>1, <3>2, AppendedAre
    <3> QED
      BY <2>1, <2>4, <3>3 DEF W
  <2>5. CASE roads # <<>> /\ Joins
    <3> DEFINE W == Runs'
    <3>0. segments # <<>>
      BY <2>5 DEF Joins
    <3>1. Good(segments, X, W) /\ Good(roads, Y, W)
      BY <1>5
    <3>2. <<p, q>> \in W
      BY <2>2, <2>5, <3>0
    <3> HIDE DEF W
    <3>3. Good(Front(segments) \o <<Last(segments) \o Head(roads)>> \o Tail(roads), X \cup Y, W)
      BY <1>6, <2>5, <3>0, <3>1, <3>2, JoinedAre
    <3> QED
      BY <2>1, <2>5, <3>3 DEF W
  <2> QED
    BY <2>3, <2>4, <2>5
<1>10. ContinuesIfMatched'
  <2>1. PICK z : z = o[m]
    OBVIOUS
  <2>2. ASSUME NEW i \in 1 .. m PROVE Unbroken(o[i], z)'
    <3>0. Planned' = Planned /\ \A a, b : Cut(a, b)' <=> Cut(a, b)
      BY <1>1 DEF Planned, Cut
    <3>1. \A r \in o[i] + 1 .. z : ~track[r].ghost /\ ~\E a \in Planned : Cut(a, r)
      <4>1. CASE i = m
        <5>1. z \in Nat /\ o[i] = z
          BY <1>2, <1>m, <2>1, <4>1
        <5> QED
          BY <5>1
      <4>2. CASE i # m
        <5>1. i \in DOMAIN o /\ m \in DOMAIN o /\ i < m
          BY <1>m, <4>2
        <5> QED
          BY <1>t, <1>c, <2>1, <5>1, WithinChunk
      <4> QED
        BY <4>1, <4>2
    <3> QED
      BY <1>1, <3>0, <3>1 DEF Unbroken
  <2>3. ASSUME NEW x \in Done PROVE ~Unbroken(x, z)'
    <3>0. Planned' = Planned /\ \A a, b : Cut(a, b)' <=> Cut(a, b)
      BY <1>1 DEF Planned, Cut
    <3>1. x \in Nat /\ x < o[1] /\ o[1] \in Nat /\ z \in Nat /\ o[1] <= z
      <4>1. x \in Nat /\ x < o[1] /\ o[1] \in Nat /\ z \in Nat
        BY <1>2, <1>m, <2>1
      <4>2. m = 1 \/ 1 < m
        BY <1>m
      <4>3. 1 < m => o[1] < z
        BY <1>2, <1>m, <2>1
      <4>4. m = 1 => o[1] = z
        BY <2>1
      <4> QED
        BY <4>1, <4>2, <4>3, <4>4
    <3> DEFINE first == o[1]
    <3>2. CASE start = 0
      <4>1. PICK r \in x + 1 .. o[1] : track[r].ghost
        BY <1>t, <3>2, OwnedBetween
      <4>2. r \in x + 1 .. z
        <5>1. r \in x + 1 .. first /\ first \in Nat /\ first <= z
          BY <3>1
        <5> HIDE DEF first
        <5> QED
          BY <3>1, <5>1
      <4> QED
        BY <1>1, <4>1, <4>2 DEF Unbroken
    <3>3. CASE start # 0
      <4>1. Cut(last, o[1])
        BY <1>t, <1>c, <3>3, CutsHere
      <4>2. last \in Planned
        BY <1>t, <4>1, CutIs
      <4>3. o[1] \in x + 1 .. z
        <5>1. first \in Nat /\ first <= z /\ x < first
          BY <3>1
        <5> HIDE DEF first
        <5>2. first \in x + 1 .. z
          BY <3>1, <5>1
        <5> QED
          BY <5>2 DEF first
      <4> HIDE DEF last
      <4>4. \E a \in Planned' : Cut(a, o[1])'
        BY <3>0, <4>1, <4>2
      <4> QED
        BY <4>3, <4>4 DEF Unbroken
    <3> QED
      BY <3>2, <3>3
  <2>4. (\E x \in Done' : Unbroken(x, z)' /\ OnRoad(x)') <=> Y # {}
    <3>1. ASSUME NEW x \in Done', Unbroken(x, z)', OnRoad(x)' PROVE Y # {}
      <4>1. PICK i \in 1 .. m : o[i] = x
        BY <1>1, <1>m, <2>3, <3>1
      <4>2. answered'[x] = told[i]
        BY <1>3, <1>m, <4>1
      <4>3. told[i].matched /\ told[i].edge
        BY <3>1, <4>2 DEF OnRoad, MatchedAt
      <4>4. o[i] \in Y
        BY <4>3
      <4> QED
        BY <4>4
    <3>2. ASSUME NEW y \in Y PROVE \E x \in Done' : Unbroken(x, z)' /\ OnRoad(x)'
      <4>1. PICK i \in 1 .. m : y = o[i] /\ told[i].matched /\ told[i].edge
        OBVIOUS
      <4>2. y \in Done'
        BY <1>1, <1>2, <1>m, <4>1
      <4>3. answered'[y] = told[i] /\ told[i] # NoData
        BY <1>3, <1>m, <4>1, MatchesAssumption
      <4>4. OnRoad(y)'
        BY <4>1, <4>3 DEF OnRoad, MatchedAt
      <4>5. Unbroken(y, z)'
        BY <2>2, <4>1 DEF Unbroken
      <4> QED
        BY <4>2, <4>4, <4>5
    <3> QED
      BY <3>1, <3>2
  <2>5. MatchedAt(z)' <=> told[m].matched
    <3>1. answered'[z] = told[m] /\ told[m] # NoData
      BY <1>3, <1>m, <2>1, MatchesAssumption
    <3> QED
      BY <3>1 DEF MatchedAt
  <2>6. Last(told) = told[m]
    <3>1. DOMAIN told = 1 .. m
      BY <1>m
    <3>2. told \in Seq(Match)
      BY <1>m
    <3>3. Len(told) = m
      BY <1>m, <3>1, <3>2
    <3> QED
      BY <3>3 DEF Last
  <2>7. ~(Sending' /\ start' # 0) => ContinuesIfMatched'
    BY DEF ContinuesIfMatched
  <2>8. ASSUME Sending', start' # 0, Sent'[own_from(start')] = z PROVE ContinuesIfMatched'
    <3>1. previous'.geometry_continues
             <=> MatchedAt(z)' /\ \E x \in Done' : Unbroken(x, z)' /\ OnRoad(x)'
      BY <1>7, <2>4, <2>5, <2>6
    <3> QED
      BY <2>8, <3>1 DEF ContinuesIfMatched, MatchedAt, Unbroken
  <2> QED
    BY <1>1, <2>1, <2>7, <2>8
<1> HIDE DEF X, Y
<1>11. Good(segments', {x \in Done : OnRoad(x)}', Runs')
  BY <1>5, <1>9
<1> QED
  BY <1>8, <1>10, <1>11 DEF RoadInv

\* Nothing is merged at the start.
LEMMA RoadInit == MergeInit => RoadInv
<1> SUFFICES ASSUME MergeInit PROVE RoadInv
  OBVIOUS
<1>1. MergeInv
  BY MergeInitKeeps
<1>2. start = 0 /\ segments = <<>> /\ answered = [p \in DOMAIN track |-> NoData]
  BY DEF MergeInit
<1>3. 0 \in 0 .. start /\ start = 0 * Step
  <2>1. Step \in Nat
    BY ChunkNumbers
  <2>2. 0 * Step = 0
    BY <2>1, Z3
  <2> QED
    BY <1>2, <2>2
<1>4. {x \in Done : OnRoad(x)} = {}
  BY <1>2 DEF OnRoad, MatchedAt, Done
<1>5. Good(<<>>, {}, Runs)
  <2>1. <<>> \in Seq(Seq(Nat)) /\ Len(<<>>) = 0 /\ 1 .. 0 = {} /\ 1 .. 0 - 1 = {}
    OBVIOUS
  <2> QED
    BY <2>1 DEF Good
<1> QED
  BY <1>1, <1>2, <1>3, <1>4, <1>5 DEF RoadInv, ContinuesIfMatched

\* A chunk of which nothing is matched adds no segment.
LEMMA NothingDrawn ==
    ASSUME RoadInv, MergeInv', Sending, Advance(NextChunk),
           NEW told \in [DOMAIN NextChunk.owned -> Match],
           \A i \in DOMAIN NextChunk.owned : ~told[i].matched,
           answered' = Recorded(NextChunk, told),
           segments' = segments, previous'.geometry_continues = FALSE
    PROVE  RoadInv'
<1>t. MergeTypes
  BY DEF RoadInv, MergeInv
<1>o. PICK o : o = NextChunk.owned
  OBVIOUS
<1>1. \A i \in DOMAIN o : o[i] \in DOMAIN track /\ o[i] \notin Done
  BY <1>t, <1>o, OwnedComeNext
<1>2. /\ \A i \in DOMAIN o : answered'[o[i]] = told[i]
      /\ \A x \in DOMAIN track : (\A i \in DOMAIN o : o[i] # x) => answered'[x] = answered[x]
  BY <1>t, <1>o, RecordedAre
<1>3. \A x \in Done : answered'[x] = answered[x]
  BY <1>1, <1>2 DEF Done
<1>4. \A i \in DOMAIN o : ~MatchedAt(o[i])'
  BY <1>o, <1>2 DEF MatchedAt
<1> QED
  BY <1>o, <1>3, <1>4, UnmatchedKeeps

\* Every step keeps the invariant of the roads.
LEMMA RoadStep == RoadInv /\ MergeInv' /\ [MergeNext]_mergeVars => RoadInv'
<1> SUFFICES ASSUME RoadInv, MergeInv', [MergeNext]_mergeVars PROVE RoadInv'
  OBVIOUS
<1>t. MergeTypes
  BY DEF RoadInv, MergeInv
<1>1. CASE UNCHANGED mergeVars
  <2>1. /\ track' = track /\ plan' = plan /\ stretch' = stretch /\ start' = start
        /\ segments' = segments /\ previous' = previous /\ answered' = answered
    BY <1>1 DEF mergeVars
  <2>2. Done' = Done /\ Sending' = Sending /\ Sent' = Sent
    BY <2>1 DEF Done, Sending, Sent
  <2>3. /\ Planned' = Planned /\ (\A a, b : Cut(a, b)' <=> Cut(a, b))
        /\ \A a, b : Adjacent(a, b)' <=> Adjacent(a, b)
    BY <2>1 DEF Planned, Cut, Adjacent
  <2>4. \A x : (MatchedAt(x)' <=> MatchedAt(x)) /\ (OnRoad(x)' <=> OnRoad(x))
    BY <2>1 DEF MatchedAt, OnRoad
  <2>5. \A x, z : Unbroken(x, z)' <=> Unbroken(x, z)
    BY <2>1, <2>3 DEF Unbroken
  <2>6. Runs' = Runs
    BY <2>1, <2>3, <2>4 DEF Runs, RunsOn, CutsIn
  <2>7. ContinuesIfMatched'
    BY <2>1, <2>2, <2>4, <2>5 DEF RoadInv, ContinuesIfMatched, MatchedAt, OnRoad, Unbroken
  <2>8. {x \in Done : OnRoad(x)}' = {x \in Done : OnRoad(x)}
    BY <2>2, <2>4
  <2>9. Good(segments, {x \in Done : OnRoad(x)}, Runs)
    BY DEF RoadInv
  <2>10. Good(segments', {x \in Done : OnRoad(x)}', Runs')
    BY <2>1, <2>6, <2>8, <2>9
  <2>11. \E c \in 0 .. start' : start' = c * Step
    BY <2>1 DEF RoadInv
  <2> QED
    BY <2>7, <2>10, <2>11 DEF RoadInv
<1>o. PICK o : o = NextChunk.owned
  OBVIOUS
<1>u. Unsnapped \in Match /\ ~Unsnapped.matched
  BY DEF Unsnapped, Match
<1>2. ASSUME Sending, NEW answer \in [DOMAIN o -> Matches], Matched(answer, TRUE)
      PROVE  RoadInv'
  <2>1. answer \in [DOMAIN o -> Match]
    BY MatchesAssumption
  <2>2. PICK roads : roads = snapped_track_segments_in(o, answer)
    OBVIOUS
  <2>3. /\ Advance(NextChunk)
        /\ answered' = Recorded(NextChunk, answer)
        /\ segments' = Joined(NextChunk, answer, roads)
        /\ previous'.geometry_continues = (roads # <<>> /\ Last(answer).matched)
    BY <1>o, <1>2, <2>2 DEF Matched
  <2> QED
    BY <1>o, <1>2, <2>1, <2>2, <2>3, DrawnKeeps
<1>3. ASSUME Sending, NEW answer \in [DOMAIN o -> Matches], Matched(answer, FALSE)
      PROVE  RoadInv'
  <2> DEFINE told == [i \in DOMAIN answer |-> Unsnapped]
  <2>1. told \in [DOMAIN o -> Match] /\ \A i \in DOMAIN o : ~told[i].matched
    BY <1>u
  <2>2. /\ Advance(NextChunk)
        /\ answered' = Recorded(NextChunk, told)
        /\ segments' = Joined(NextChunk, answer, <<>>)
        /\ previous'.geometry_continues = FALSE
    BY <1>3 DEF Matched
  <2>3. segments' = segments
    <3>1. segments \in Seq(Seq(Nat))
      BY DEF RoadInv, Good
    <3>2. segments' = segments \o <<>>
      BY <2>2 DEF Joined
    <3> QED
      BY <3>1, <3>2
  <2> HIDE DEF told
  <2> QED
    BY <1>o, <1>3, <2>1, <2>2, <2>3, NothingDrawn
<1>4. ASSUME Sending, OffNetwork PROVE RoadInv'
  <2> DEFINE told == [i \in DOMAIN o |-> Unsnapped]
  <2>1. told \in [DOMAIN o -> Match] /\ \A i \in DOMAIN o : ~told[i].matched
    BY <1>u
  <2>2. /\ Advance(NextChunk)
        /\ answered' = Recorded(NextChunk, told)
        /\ segments' = segments
        /\ previous'.geometry_continues = FALSE
    BY <1>4, <1>o DEF OffNetwork
  <2> HIDE DEF told
  <2> QED
    BY <1>o, <1>4, <2>1, <2>2, NothingDrawn
<1>5. ASSUME Sending, Failed PROVE RoadInv'
  <2>1. /\ Advance(NextChunk) /\ segments' = segments /\ answered' = answered
        /\ previous'.geometry_continues = FALSE
    BY <1>5 DEF Failed
  <2>2. \A i \in DOMAIN o : ~MatchedAt(o[i])'
    <3>1. \A i \in DOMAIN o : o[i] \in DOMAIN track /\ o[i] \notin Done
      BY <1>t, <1>o, <1>5, OwnedComeNext
    <3>2. \A i \in DOMAIN o : answered[o[i]] = NoData
      BY <3>1 DEF RoadInv, MergeInv
    <3> QED
      BY <2>1, <3>2 DEF MatchedAt
  <2> QED
    BY <1>o, <1>5, <2>1, <2>2, UnmatchedKeeps
<1> QED
  BY <1>o, <1>1, <1>2, <1>3, <1>4, <1>5 DEF MergeNext

\* No fix of the plan lies at a cut: what comes before its right fix is its left
\* fix or comes before that.
LEMMA NothingInCut ==
    ASSUME MergeTypes, NEW a, NEW b, Cut(a, b), NEW p \in Planned, p < b
    PROVE  p <= a
<1>1. PICK k \in 1 .. Len(plan) : \E i \in 1 .. Len(plan[k]) :
         /\ i * Step + Overlap < Len(plan[k])
         /\ plan[k][own_from(i * Step)] = a /\ plan[k][own_from(i * Step) + 1] = b
  BY CutIs
<1>2. PICK i \in 1 .. Len(plan[k]) :
         /\ i * Step + Overlap < Len(plan[k])
         /\ plan[k][own_from(i * Step)] = a /\ plan[k][own_from(i * Step) + 1] = b
  BY <1>1
<1> DEFINE f == own_from(i * Step)
<1>3. f \in 1 .. Len(plan[k]) /\ f + 1 \in 1 .. Len(plan[k])
  <2>1. i \in Nat \ {0} /\ Len(plan[k]) \in Nat
    BY DEF MergeTypes, PlanOf
  <2> QED
    BY <1>2, <2>1, ChunkNumbers
<1>4. plan[k][f] = a /\ plan[k][f + 1] = b
  BY <1>2
<1>5. PICK l \in 1 .. Len(plan) : \E j \in 1 .. Len(plan[l]) : p = plan[l][j]
  BY CoveredAreDone
<1>6. PICK j \in 1 .. Len(plan[l]) : p = plan[l][j]
  BY <1>5
<1>7. Len(plan) \in Nat /\ Len(plan[k]) \in Nat /\ Len(plan[l]) \in Nat
  BY DEF MergeTypes, PlanOf
<1> HIDE DEF f
<1>p. Places
  BY PlacesHere
<1>8. /\ plan[l][j] < plan[k][f + 1] <=> l < k \/ (l = k /\ j < f + 1)
      /\ plan[l][j] < plan[k][f] <=> l < k \/ (l = k /\ j < f)
      /\ plan[l][j] = plan[k][f] <=> l = k /\ j = f
      /\ plan[l][j] \in Nat /\ plan[k][f] \in Nat
  BY <1>3, <1>p DEF Places
<1>9. l < k \/ (l = k /\ j < f + 1)
  BY <1>4, <1>6, <1>8
<1>10. l < k \/ (l = k /\ j < f) \/ (l = k /\ j = f)
  BY <1>3, <1>7, <1>9
<1> QED
  BY <1>4, <1>6, <1>8, <1>10

\* A road that nothing interrupts may run on, cut or no cut.
LEMMA OneRoadRunsOn ==
    ASSUME MergeTypes, NEW p \in Planned, NEW q \in Planned, IsOneRoad(p, q)
    PROVE  RunsOn(p, q)
<1>1. /\ \A r \in p + 1 .. q : ~track[r].ghost
      /\ \A r \in p .. q : r \in Planned => MatchedAt(r)
      /\ \A a, b \in p .. q : a \in Planned /\ b \in Planned /\ Adjacent(a, b) =>
            ~answered[a].end /\ ~answered[b].begin
      /\ \A a, b \in CutsIn(p, q) : a = b
  BY DEF IsOneRoad
<1>2. CASE CutsIn(p, q) = {}
  BY <1>1, <1>2 DEF RunsOn
<1>3. ASSUME NEW b \in CutsIn(p, q)
      PROVE  RunsOn(p, q)
  <2>1. CutsIn(p, q) = {b}
    BY <1>1
  <2>2. b \in p + 1 .. q /\ \E a \in Planned : Cut(a, b)
    BY DEF CutsIn
  <2>3. PICK a \in Planned : Cut(a, b)
    BY <2>2
  <2>4. a \in Nat /\ b \in Nat /\ a < b /\ b \in Planned
    BY <2>3, CutIs
  <2>5. p \in Nat /\ q \in Nat
    <3>1. Planned \subseteq DOMAIN track /\ DOMAIN track \subseteq Nat
      BY CoveredAreDone DEF MergeTypes
    <3> QED
      BY <3>1
  <2>6. p < b /\ b <= q
    BY <2>2, <2>4, <2>5
  <2>7. p <= a
    BY <2>3, <2>6, NothingInCut
  <2>8. a \in p .. q /\ b \in p .. q
    BY <2>4, <2>5, <2>6, <2>7
  <2>9. MatchedAt(a) /\ MatchedAt(b)
    BY <1>1, <2>4, <2>8
  <2> QED
    BY <1>1, <2>1, <2>3, <2>4, <2>9 DEF RunsOn
<1> QED
  BY <1>2, <1>3

\* The segments of a run hold the fixes on edges, run on only where they may and are
\* not split where nothing interrupts the road (SnapResult::segments, merge and
\* segments_in), for every track, every length of a chunk and of its even overlap and
\* every answer.
THEOREM SegmentsAreRoads == MergeSpec => []SegmentsAreTheUnbrokenRoads
<1>1. RoadInv => SegmentsAreTheUnbrokenRoads
  <2> SUFFICES ASSUME RoadInv PROVE SegmentsAreTheUnbrokenRoads
    OBVIOUS
  <2> DEFINE X == {p \in Covered : OnRoad(p)}
  <2>1. Covered = Done /\ Good(segments, X, Runs)
    BY CoveredAreDone DEF RoadInv, MergeInv
  <2> HIDE DEF X
  <2>2. /\ segments \in Seq(Seq(Nat)) /\ X \subseteq Nat
        /\ \A k \in 1 .. Len(segments) : /\ Len(segments[k]) # 0
                                         /\ \A i \in 1 .. Len(segments[k]) : segments[k][i] \in X
        /\ \A x \in X : \E k \in 1 .. Len(segments) : \E i \in 1 .. Len(segments[k]) : segments[k][i] = x
        /\ \A k \in 1 .. Len(segments) : \A i, j \in 1 .. Len(segments[k]) :
              i < j => segments[k][i] < segments[k][j]
        /\ \A k, l \in 1 .. Len(segments) : k < l =>
              \A i \in 1 .. Len(segments[k]), j \in 1 .. Len(segments[l]) : segments[k][i] < segments[l][j]
        /\ \A k \in 1 .. Len(segments) : \A i \in 1 .. Len(segments[k]) - 1 :
              <<segments[k][i], segments[k][i + 1]>> \in Runs
        /\ \A k \in 1 .. Len(segments) - 1 :
              <<segments[k][Len(segments[k])], segments[k + 1][1]>> \notin Runs
    BY <2>1 DEF Good
  <2>3. /\ Len(segments) \in Nat /\ DOMAIN segments = 1 .. Len(segments)
        /\ \A k \in 1 .. Len(segments) : /\ segments[k] \in Seq(Nat)
                                         /\ DOMAIN segments[k] = 1 .. Len(segments[k])
                                         /\ Len(segments[k]) \in Nat \ {0}
    <3>1. Len(segments) \in Nat /\ DOMAIN segments = 1 .. Len(segments)
      BY <2>2
    <3>2. \A k \in 1 .. Len(segments) : segments[k] \in Seq(Nat)
      BY <2>2, <3>1
    <3> QED
      BY <2>2, <3>1, <3>2
  <2>4. UNION {ToSet(segments[k]) : k \in DOMAIN segments} = X
    <3> DEFINE U == UNION {ToSet(segments[k]) : k \in DOMAIN segments}
    <3>1. ASSUME NEW x \in U PROVE x \in X
      <4>1. PICK k \in 1 .. Len(segments) : x \in ToSet(segments[k])
        BY <2>3
      <4>2. PICK i \in DOMAIN segments[k] : segments[k][i] = x
        BY <4>1 DEF ToSet
      <4>3. i \in 1 .. Len(segments[k])
        BY <2>3
      <4> QED
        BY <2>2, <4>2, <4>3
    <3>2. ASSUME NEW x \in X PROVE x \in U
      <4>1. PICK k \in 1 .. Len(segments) : \E i \in 1 .. Len(segments[k]) : segments[k][i] = x
        BY <2>2
      <4>2. PICK i \in 1 .. Len(segments[k]) : segments[k][i] = x
        BY <4>1
      <4>3. i \in DOMAIN segments[k] /\ k \in DOMAIN segments
        BY <2>3
      <4>4. x \in ToSet(segments[k])
        BY <4>2, <4>3 DEF ToSet
      <4> QED
        BY <4>3, <4>4
    <3> HIDE DEF U
    <3>3. U = X
      BY <3>1, <3>2
    <3> QED
      BY <3>3 DEF U
  <2>5. ASSUME NEW k \in DOMAIN segments, NEW i \in 1 .. Len(segments[k]) - 1
        PROVE  segments[k][i] < segments[k][i + 1] /\ RunsOn(segments[k][i], segments[k][i + 1])
    <3>1. k \in 1 .. Len(segments) /\ i \in 1 .. Len(segments[k]) /\ i + 1 \in 1 .. Len(segments[k]) /\ i < i + 1
      BY <2>3
    <3>2. segments[k][i] < segments[k][i + 1] /\ <<segments[k][i], segments[k][i + 1]>> \in Runs
      BY <2>2, <3>1
    <3> QED
      BY <3>2 DEF Runs
  <2>6. ASSUME NEW k \in 1 .. Len(segments) - 1
        PROVE  Last(segments[k]) < Head(segments[k + 1]) /\ ~IsOneRoad(Last(segments[k]), Head(segments[k + 1]))
    <3> DEFINE p == segments[k][Len(segments[k])]
               q == segments[k + 1][1]
    <3>1. k \in 1 .. Len(segments) /\ k + 1 \in 1 .. Len(segments) /\ k < k + 1
      BY <2>3
    <3>2. Len(segments[k]) \in 1 .. Len(segments[k]) /\ 1 \in 1 .. Len(segments[k + 1])
      BY <2>3, <3>1
    <3>3. p < q /\ p \in X /\ q \in X /\ <<p, q>> \notin Runs
      BY <2>2, <3>1, <3>2
    <3>4. p \in Nat /\ q \in Nat
      BY <2>2, <3>3
    <3>5. ~RunsOn(p, q)
      <4> HIDE DEF p, q
      <4> QED
        BY <3>3, <3>4 DEF Runs
    <3>6. p \in Planned /\ q \in Planned
      BY <3>3 DEF X, Covered
    <3>7. ~IsOneRoad(p, q)
      <4>1. MergeTypes
        BY DEF RoadInv, MergeInv
      <4> HIDE DEF p, q
      <4> QED
        BY <3>5, <3>6, <4>1, OneRoadRunsOn
    <3>8. Last(segments[k]) = p /\ Head(segments[k + 1]) = q
      BY DEF Last
    <3> QED
      BY <3>3, <3>7, <3>8
  <2> QED
    BY <2>4, <2>5, <2>6 DEF SegmentsAreTheUnbrokenRoads, X
<1>2. MergeInv /\ RoadInv /\ [MergeNext]_mergeVars => MergeInv' /\ RoadInv'
  BY MergeStep, RoadStep
<1> QED
  BY MergeInitKeeps, RoadInit, <1>1, <1>2, PTL DEF MergeSpec

-----------------------------------------------------------------------------
\* The invariant of the scheduler.

\* A scheduler whose results are of the tracks they are kept for.
OwnResults(s) == \A t \in Tracks : s.latest[t] # None => s.latest[t].key.content = t
Sched == {s \in Schedulers : OwnResults(s)}

\* An entry of a queue waits for p, and its entries are of different tracks.
Waiting(q, p) == \E i \in DOMAIN q : q[i].track = p
Distinct(q) == \A i, j \in DOMAIN q : q[i].track = q[j].track => i = j

\* The rows of a scheduler tell what its queue holds and what is in flight.
Rows(s) ==
    /\ \A p \in At : (s.activity[p] = "Queued") <=> Waiting(s.queue, p)
    /\ Distinct(s.queue)
    /\ \A p \in At : s.activity[p] = "InFlight" <=> s.in_flight = p

\* What the workers have told or will tell is of the run in flight: they report
\* progress, and its end last and once.
Ended(ms) == \E i \in DOMAIN ms : ms[i].kind # "Progress"
Channel(s, ms) ==
    /\ \A i \in DOMAIN ms : /\ ms[i].track = s.in_flight
                            /\ ms[i].kind # "Progress" => i = Len(ms)
    /\ Len(s.threads) <= 1
    /\ \A i \in DOMAIN s.threads : s.threads[i].track = s.in_flight
    /\ s.in_flight # Nobody => (s.threads = <<>> <=> Ended(ms))

\* The automatic entries that are shown are of the positions in lit.
Lit(s, lit) ==
    \A i \in DOMAIN s.queue :
        s.queue[i].priority = "Auto" /\ s.queue[i].track \in s.visible
            => s.queue[i].track \in lit

\* The positions whose track was shown at the last frame.
Shows == {p \in DOMAIN entries : entries[p] \in seen}

\* The automatic entries that are visible are of tracks shown at the last frame, and
\* until positions shift rows and channel are right.
IInv ==
    /\ TypeOK
    /\ Lit(snap, Shows)
    /\ ~shifted => Rows(snap) /\ Channel(snap, messages)

-----------------------------------------------------------------------------
\* The queue.

\* A queue without its entry at i: the other entries, and no other of its track
\* where the tracks were distinct.
LEMMA QueueWithout ==
    ASSUME NEW S, NEW q \in Seq(S), NEW i \in DOMAIN q
    PROVE  /\ RemoveAt(q, i) \in Seq(S)
           /\ \A j \in DOMAIN RemoveAt(q, i) :
                 \E k \in DOMAIN q : k # i /\ RemoveAt(q, i)[j] = q[k]
           /\ \A k \in DOMAIN q : k # i =>
                 \E j \in DOMAIN RemoveAt(q, i) : RemoveAt(q, i)[j] = q[k]
           /\ Distinct(q) => Distinct(RemoveAt(q, i))
<1> DEFINE r == RemoveAt(q, i)
           n == Len(q)
           from(j) == IF j < i THEN j ELSE j + 1
<1>1. n \in Nat /\ i \in 1 .. n /\ DOMAIN q = 1 .. n
  OBVIOUS
<1>2. /\ r \in Seq(S) /\ Len(r) = n - 1
      /\ \A j \in 1 .. n - 1 : r[j] = IF j < i THEN q[j] ELSE q[j + 1]
  BY <1>1, RemoveAtIs, Zenon
<1>3. DOMAIN r = 1 .. n - 1
  BY <1>1, <1>2
<1> HIDE DEF r, n
<1>4. \A j \in 1 .. n - 1 : from(j) \in DOMAIN q /\ from(j) # i /\ r[j] = q[from(j)]
  BY <1>1, <1>2
<1>5. \A j, k \in 1 .. n - 1 : from(j) = from(k) => j = k
  BY <1>1
<1> HIDE DEF from
<1>6. ASSUME NEW k \in DOMAIN q, k # i PROVE \E j \in 1 .. n - 1 : r[j] = q[k]
  <2>1. CASE k < i
    <3>1. k \in 1 .. n - 1
      BY <1>1, <2>1
    <3> QED
      BY <1>2, <2>1, <3>1
  <2>2. CASE k > i
    <3>1. k - 1 \in 1 .. n - 1 /\ ~(k - 1 < i) /\ (k - 1) + 1 = k
      BY <1>1, <2>2
    <3>2. r[k - 1] = q[k]
      BY <1>2, <3>1
    <3> QED
      BY <3>1, <3>2
  <2> QED
    BY <1>1, <1>6, <2>1, <2>2
<1>7. Distinct(q) => Distinct(r)
  BY <1>3, <1>4, <1>5 DEF Distinct
<1> QED
  BY <1>2, <1>3, <1>4, <1>6, <1>7, Zenon DEF r

\* What a start leaves of a queue.
LEMMA QueueTracks ==
    ASSUME NEW q \in Seq(Pending), NEW i \in DOMAIN q
    PROVE  /\ RemoveAt(q, i) \in Seq(Pending)
           /\ \A j \in DOMAIN RemoveAt(q, i) : \E k \in DOMAIN q : RemoveAt(q, i)[j] = q[k]
           /\ Distinct(q) =>
                /\ Distinct(RemoveAt(q, i))
                /\ \A p : Waiting(RemoveAt(q, i), p) <=> Waiting(q, p) /\ p # q[i].track
<1> DEFINE r == RemoveAt(q, i)
<1>1. /\ r \in Seq(Pending)
      /\ \A j \in DOMAIN r : \E k \in DOMAIN q : k # i /\ r[j] = q[k]
      /\ \A k \in DOMAIN q : k # i => \E j \in DOMAIN r : r[j] = q[k]
      /\ Distinct(q) => Distinct(r)
  BY QueueWithout
<1> HIDE DEF r
<1>2. ASSUME Distinct(q), NEW p
      PROVE  Waiting(r, p) <=> Waiting(q, p) /\ p # q[i].track
  <2>1. ASSUME Waiting(r, p) PROVE Waiting(q, p) /\ p # q[i].track
    <3>1. PICK j \in DOMAIN r : r[j].track = p
      BY <2>1 DEF Waiting
    <3>2. PICK k \in DOMAIN q : k # i /\ r[j] = q[k]
      BY <1>1
    <3> QED
      BY <1>2, <3>1, <3>2 DEF Waiting, Distinct
  <2>2. ASSUME Waiting(q, p), p # q[i].track PROVE Waiting(r, p)
    BY <1>1, <2>2 DEF Waiting
  <2> QED
    BY <2>1, <2>2
<1> QED
  BY <1>1, <1>2 DEF r

\* What a row may say.
Activities == {"None", "Queued", "InFlight", "Failed", "NothingToSend"}

\* What Start changes.
StartChanges(s, i, connects, x) ==
    LET p == s.queue[i]
        run == s.http \/ connects
    IN /\ x \in Schedulers
       /\ x.queue = RemoveAt(s.queue, i) /\ x.visible = s.visible /\ x.latest = s.latest
       /\ x.activity = [s.activity EXCEPT ![p.track] = IF run THEN "InFlight" ELSE "Failed"]
       /\ x.in_flight = IF run THEN p.track ELSE s.in_flight
       /\ run => \E th \in Thread : /\ th.track = p.track /\ th.priority = p.priority
                                    /\ x.threads = Append(s.threads, th)
       /\ ~run => x.threads = s.threads

\* The fields of a scheduler after a start.
LEMMA StartIs ==
    ASSUME NEW s \in Schedulers, NEW i \in DOMAIN s.queue, NEW connects \in BOOLEAN
    PROVE  StartChanges(s, i, connects, Start(s, i, connects))
<1> DEFINE p == s.queue[i]
           q == RemoveAt(s.queue, i)
<1>1. s.queue \in Seq(Pending) /\ p \in Pending
  BY DEF Schedulers
<1>2. q \in Seq(Pending)
  BY <1>1, QueueTracks
<1>3. p.track \in At /\ p.priority \in Priorities /\ p.key \in Key
  BY <1>1 DEF Pending
<1> DEFINE th == [track |-> p.track, priority |-> p.priority,
                  run |-> [key |-> p.key, server |-> s.server], told |-> FALSE]
<1>4. th \in Thread
  BY <1>3 DEF Thread, Run, Schedulers
<1>5. Start(s, i, connects) =
         IF s.http \/ connects
         THEN [s EXCEPT !.queue = q, !.http = TRUE, !.in_flight = p.track,
                        !.activity = [@ EXCEPT ![p.track] = "InFlight"],
                        !.threads = Append(@, th)]
         ELSE [s EXCEPT !.queue = q, !.activity = [@ EXCEPT ![p.track] = "Failed"],
                        !.refused = TRUE]
  BY DEF Start, Schedulers
<1> DEFINE on == [s.activity EXCEPT ![p.track] = "InFlight"]
           off == [s.activity EXCEPT ![p.track] = "Failed"]
           ths == Append(s.threads, th)
           x == [s EXCEPT !.queue = q, !.http = TRUE, !.in_flight = p.track,
                           !.activity = on, !.threads = ths]
           y == [s EXCEPT !.queue = q, !.activity = off, !.refused = TRUE]
<1>6. th.track = p.track /\ th.priority = p.priority
  OBVIOUS
<1>7. on \in [At -> Activities] /\ off \in [At -> Activities] /\ ths \in Seq(Thread)
  BY <1>3, <1>4 DEF Schedulers, Activities
<1>8. Start(s, i, connects) = IF s.http \/ connects THEN x ELSE y
  BY <1>5
<1> HIDE DEF p, q, th, on, off, ths
<1>9. /\ x \in Schedulers /\ x.queue = q /\ x.visible = s.visible
      /\ x.latest = s.latest /\ x.in_flight = p.track
      /\ x.activity = on /\ x.threads = ths
  BY <1>2, <1>3, <1>7 DEF Schedulers, Activities
<1>10. /\ y \in Schedulers /\ y.queue = q /\ y.visible = s.visible
      /\ y.latest = s.latest /\ y.in_flight = s.in_flight
      /\ y.activity = off /\ y.threads = s.threads
  BY <1>2, <1>3, <1>7 DEF Schedulers, Activities
<1> HIDE DEF x, y
<1>11. CASE s.http \/ connects
  BY <1>4, <1>6, <1>8, <1>9, <1>11 DEF StartChanges, p, q, on, ths
<1>12. CASE ~(s.http \/ connects)
  BY <1>8, <1>10, <1>12 DEF StartChanges, p, q, off
<1> QED
  BY <1>11, <1>12

-----------------------------------------------------------------------------
\* The operations of the scheduler.

\* What an operation of the scheduler does to the runs: it leaves them, or starts one
\* beside none, an automatic one for a position in lit.
Launch(s, x, lit) ==
    \/ x.in_flight = s.in_flight /\ x.threads = s.threads
    \/ /\ s.in_flight = Nobody
       /\ \E th \in Thread : /\ x.in_flight = th.track
                             /\ x.threads = Append(s.threads, th)
                             /\ th.priority = "Auto" => th.track \in lit

\* What every operation of the scheduler keeps, from s to x.
Follows(s, x, lit) ==
    /\ x \in Sched
    /\ x.visible = s.visible
    /\ Rows(s) => Rows(x)
    /\ Lit(s, lit) => Lit(x, lit) /\ Launch(s, x, lit)

\* One operation after the other starts one run at the most.
LEMMA LaunchOn ==
    ASSUME NEW s, NEW x, NEW y, NEW lit, Launch(s, x, lit), Launch(x, y, lit)
    PROVE  Launch(s, y, lit)
<1>1. CASE x.in_flight = s.in_flight /\ x.threads = s.threads
  BY <1>1 DEF Launch
<1>2. CASE ~(x.in_flight = s.in_flight /\ x.threads = s.threads)
  <2>1. PICK th \in Thread : /\ x.in_flight = th.track
                             /\ x.threads = Append(s.threads, th)
                             /\ th.priority = "Auto" => th.track \in lit
                             /\ s.in_flight = Nobody
    BY <1>2 DEF Launch
  <2>2. x.in_flight # Nobody
    BY <2>1 DEF Thread, At, Nobody
  <2>3. y.in_flight = x.in_flight /\ y.threads = x.threads
    BY <2>2 DEF Launch
  <2> QED
    BY <2>1, <2>3 DEF Launch
<1> QED
  BY <1>1, <1>2

\* And what follows from what followed follows.
LEMMA FollowsOn ==
    ASSUME NEW s, NEW x, NEW y, NEW lit, Follows(s, x, lit), Follows(x, y, lit)
    PROVE  Follows(s, y, lit)
BY LaunchOn DEF Follows

\* An operation that changes nothing.
LEMMA FollowsItself ==
    ASSUME NEW s \in Sched, NEW lit
    PROVE  Follows(s, s, lit)
BY DEF Follows, Launch

\* A start follows from a scheduler without a run.
LEMMA StartFollows ==
    ASSUME NEW s \in Sched, s.in_flight = Nobody, NEW i \in DOMAIN s.queue,
           NEW connects \in BOOLEAN, NEW lit,
           s.queue[i].priority = "Auto" => s.queue[i].track \in s.visible
    PROVE  Follows(s, Start(s, i, connects), lit)
<1> DEFINE p == s.queue[i]
           x == Start(s, i, connects)
           run == s.http \/ connects
<1>1. s \in Schedulers /\ OwnResults(s)
  BY DEF Sched
<1>2. /\ x \in Schedulers
      /\ x.queue = RemoveAt(s.queue, i) /\ x.visible = s.visible /\ x.latest = s.latest
      /\ x.activity = [s.activity EXCEPT ![p.track] = IF run THEN "InFlight" ELSE "Failed"]
      /\ x.in_flight = IF run THEN p.track ELSE s.in_flight
      /\ run => \E th \in Thread : /\ th.track = p.track /\ th.priority = p.priority
                                   /\ x.threads = Append(s.threads, th)
      /\ ~run => x.threads = s.threads
  BY <1>1, StartIs DEF StartChanges
<1>3. /\ s.queue \in Seq(Pending) /\ p \in Pending /\ p.track \in At
      /\ s.activity \in [At -> Activities]
  <2>1. s.queue \in Seq(Pending) /\ s.activity \in [At -> Activities]
    BY <1>1 DEF Schedulers, Activities
  <2>2. p \in Pending
    BY <2>1
  <2> QED
    BY <2>1, <2>2 DEF Pending
<1> HIDE DEF x, run
<1>4. /\ \A j \in DOMAIN x.queue : \E k \in DOMAIN s.queue : x.queue[j] = s.queue[k]
      /\ Distinct(s.queue) =>
            /\ Distinct(x.queue)
            /\ \A t : Waiting(x.queue, t) <=> Waiting(s.queue, t) /\ t # p.track
  BY <1>2, <1>3, QueueTracks
<1>5. Waiting(s.queue, p.track) /\ p.priority = "Auto" => p.track \in s.visible
  BY DEF Waiting
<1> HIDE DEF p
<1>6. OwnResults(x)
  BY <1>1, <1>2 DEF OwnResults
<1>7. ASSUME Rows(s) PROVE Rows(x)
  <2>1. Distinct(s.queue)
    BY <1>7 DEF Rows
  <2>2. \A t \in At : t # p.track => x.activity[t] = s.activity[t]
    BY <1>2, <1>3
  <2>3. x.activity[p.track] = IF run THEN "InFlight" ELSE "Failed"
    BY <1>2, <1>3
  <2>4. ASSUME NEW t \in At PROVE (x.activity[t] = "Queued") <=> Waiting(x.queue, t)
    BY <1>4, <1>7, <2>1, <2>2, <2>3 DEF Rows
  <2>5. ASSUME NEW t \in At PROVE x.activity[t] = "InFlight" <=> x.in_flight = t
    <3>1. s.activity[t] # "InFlight"
      BY <1>7 DEF Rows, At, Nobody
    <3>2. Nobody # t
      BY DEF At, Nobody
    <3> QED
      BY <1>2, <2>2, <2>3, <3>1, <3>2
  <2> QED
    BY <1>4, <2>1, <2>4, <2>5 DEF Rows
<1>8. ASSUME Lit(s, lit) PROVE Lit(x, lit) /\ Launch(s, x, lit)
  <2>1. Lit(x, lit)
    BY <1>2, <1>4, <1>8 DEF Lit
  <2>2. p.priority = "Auto" => p.track \in lit
    BY <1>8 DEF Lit, p
  <2> QED
    BY <1>2, <2>1, <2>2 DEF Launch
<1> QED
  BY <1>2, <1>6, <1>7, <1>8 DEF Follows, Sched, x

\* The poke at the end of most operations.
LEMMA StartNextFollows ==
    ASSUME NEW s \in Sched, NEW connects \in BOOLEAN, NEW lit
    PROVE  Follows(s, start_next_if_idle(s, connects), lit)
<1>1. CASE s.in_flight # Nobody \/ next_eligible(s) = {}
  BY <1>1, FollowsItself DEF start_next_if_idle
<1>2. CASE ~(s.in_flight # Nobody \/ next_eligible(s) = {})
  <2> DEFINE i == CHOOSE i \in next_eligible(s) : TRUE
  <2>1. i \in next_eligible(s)
    BY <1>2
  <2>2. start_next_if_idle(s, connects) = Start(s, i, connects)
    BY <1>2 DEF start_next_if_idle
  <2> HIDE DEF i
  <2>3. /\ i \in DOMAIN s.queue
        /\ s.queue[i].priority = "Auto" => s.queue[i].track \in s.visible
    BY <2>1 DEF next_eligible
  <2>4. Follows(s, Start(s, i, connects), lit)
    BY <1>2, <2>3, StartFollows
  <2> QED
    BY <2>2, <2>4
<1> QED
  BY <1>1, <1>2

\* A queue with an entry put at its end.
LEMMA QueueLonger ==
    ASSUME NEW q \in Seq(Pending), NEW e \in Pending
    PROVE  /\ Append(q, e) \in Seq(Pending)
           /\ \A j \in DOMAIN Append(q, e) :
                 \/ Append(q, e)[j] = e
                 \/ \E k \in DOMAIN q : Append(q, e)[j] = q[k]
           /\ \A p : Waiting(Append(q, e), p) <=> Waiting(q, p) \/ p = e.track
           /\ Distinct(q) /\ ~Waiting(q, e.track) => Distinct(Append(q, e))
<1> DEFINE r == Append(q, e)
           n == Len(q)
<1>1. /\ n \in Nat /\ DOMAIN q = 1 .. n /\ r \in Seq(Pending) /\ DOMAIN r = 1 .. n + 1
      /\ r[n + 1] = e /\ \A j \in 1 .. n : r[j] = q[j]
  OBVIOUS
<1> HIDE DEF r, n
<1>2. ASSUME NEW p PROVE Waiting(r, p) <=> Waiting(q, p) \/ p = e.track
  <2>1. ASSUME Waiting(r, p) PROVE Waiting(q, p) \/ p = e.track
    <3>1. PICK j \in 1 .. n + 1 : r[j].track = p
      BY <1>1, <2>1 DEF Waiting
    <3>2. CASE j = n + 1
      BY <1>1, <3>1, <3>2
    <3>3. CASE j \in 1 .. n
      BY <1>1, <3>1, <3>3 DEF Waiting
    <3> QED
      BY <1>1, <3>2, <3>3
  <2>2. n + 1 \in 1 .. n + 1 /\ \A j \in 1 .. n : j \in 1 .. n + 1
    BY <1>1
  <2> QED
    BY <1>1, <2>1, <2>2 DEF Waiting
<1>3. ASSUME Distinct(q), ~Waiting(q, e.track) PROVE Distinct(r)
  <2>1. \A j \in 1 .. n : r[j].track # e.track
    BY <1>1, <1>3 DEF Waiting
  <2>2. \A j, k \in 1 .. n : r[j].track = r[k].track => j = k
    BY <1>1, <1>3 DEF Distinct
  <2>3. \A j \in 1 .. n + 1 : j \in 1 .. n \/ j = n + 1
    BY <1>1
  <2> QED
    BY <1>1, <2>1, <2>2, <2>3 DEF Distinct
<1>4. \A j \in 1 .. n + 1 : r[j] = e \/ \E k \in DOMAIN q : r[j] = q[k]
  <2>1. \A j \in 1 .. n + 1 : j \in 1 .. n \/ j = n + 1
    BY <1>1
  <2> QED
    BY <1>1, <2>1
<1> QED
  BY <1>1, <1>2, <1>3, <1>4 DEF r

\* A queue with an entry put in front of its others.
LEMMA QueuePromoted ==
    ASSUME NEW q \in Seq(Pending), NEW i \in DOMAIN q, NEW e \in Pending,
           e.track = q[i].track
    PROVE  /\ <<e>> \o RemoveAt(q, i) \in Seq(Pending)
           /\ \A j \in DOMAIN (<<e>> \o RemoveAt(q, i)) :
                 \/ (<<e>> \o RemoveAt(q, i))[j] = e
                 \/ \E k \in DOMAIN q : (<<e>> \o RemoveAt(q, i))[j] = q[k]
           /\ Distinct(q) =>
                /\ \A p : Waiting(<<e>> \o RemoveAt(q, i), p) <=> Waiting(q, p)
                /\ Distinct(<<e>> \o RemoveAt(q, i))
<1> DEFINE w == RemoveAt(q, i)
           r == <<e>> \o w
           n == Len(w)
<1>1. /\ w \in Seq(Pending)
      /\ \A j \in DOMAIN w : \E k \in DOMAIN q : w[j] = q[k]
      /\ Distinct(q) => /\ Distinct(w)
                        /\ \A p : Waiting(w, p) <=> Waiting(q, p) /\ p # q[i].track
  BY QueueTracks
<1>2. n \in Nat /\ DOMAIN w = 1 .. n
  BY <1>1
<1>3. /\ r \in Seq(Pending) /\ Len(r) = n + 1 /\ r[1] = e
      /\ \A m \in 1 .. n : r[1 + m] = w[m]
  <2> DEFINE one == <<e>>
  <2>1. one \in Seq(Pending) /\ Len(one) = 1 /\ one[1] = e
    OBVIOUS
  <2> HIDE DEF one, w
  <2>2. /\ one \o w \in Seq(Pending) /\ Len(one \o w) = Len(one) + Len(w)
        /\ \A j \in 1 .. Len(one) : (one \o w)[j] = one[j]
        /\ \A m \in 1 .. Len(w) : (one \o w)[Len(one) + m] = w[m]
    <3>1. one \in Seq(Pending) /\ w \in Seq(Pending)
      BY <1>1, <2>1
    <3> QED
      BY <3>1, ConcatAt
  <2>3. Len(one \o w) = n + 1 /\ (one \o w)[1] = e
    BY <1>2, <2>1, <2>2
  <2> QED
    BY <2>1, <2>2, <2>3 DEF one
<1>4. DOMAIN r = 1 .. n + 1
  BY <1>2, <1>3
<1> HIDE DEF w, r, n
<1>5. ASSUME NEW j \in 1 .. n + 1, j # 1 PROVE j - 1 \in 1 .. n /\ r[j] = w[j - 1]
  <2>1. j - 1 \in 1 .. n /\ 1 + (j - 1) = j
    BY <1>2, <1>5
  <2> QED
    BY <1>3, <2>1
<1>6. ASSUME NEW j \in DOMAIN r, j # 1 PROVE \E k \in DOMAIN q : r[j] = q[k]
  <2>1. j - 1 \in DOMAIN w /\ r[j] = w[j - 1]
    BY <1>2, <1>4, <1>5, <1>6
  <2>2. \E k \in DOMAIN q : w[j - 1] = q[k]
    BY <1>1, <2>1
  <2> QED
    BY <2>1, <2>2
<1>7. ASSUME Distinct(q) PROVE Distinct(r) /\ \A p : Waiting(r, p) <=> Waiting(q, p)
  <2>1. \A m \in 1 .. n : w[m].track # e.track
    BY <1>1, <1>2, <1>7 DEF Waiting
  <2>2. \A j, k \in 1 .. n + 1 : r[j].track = r[k].track => j = k
    <3>1. ASSUME NEW j \in 1 .. n + 1, NEW k \in 1 .. n + 1, j # 1, k # 1,
                 r[j].track = r[k].track
          PROVE  j = k
      <4>1. r[j] = w[j - 1] /\ r[k] = w[k - 1]
        BY <1>5, <3>1
      <4>2. j - 1 \in 1 .. n /\ k - 1 \in 1 .. n
        BY <1>2, <3>1
      <4>3. \A a, b \in 1 .. n : w[a].track = w[b].track => a = b
        BY <1>1, <1>2, <1>7 DEF Distinct
      <4>4. j - 1 = k - 1
        BY <3>1, <4>1, <4>2, <4>3
      <4> QED
        BY <1>2, <4>4
    <3> QED
      BY <1>3, <1>5, <2>1, <3>1
  <2>3. ASSUME NEW p PROVE Waiting(r, p) <=> Waiting(w, p) \/ p = e.track
    <3>1. ASSUME Waiting(w, p) PROVE Waiting(r, p)
      <4>1. PICK m \in 1 .. n : w[m].track = p
        BY <1>2, <3>1 DEF Waiting
      <4>2. 1 + m \in 1 .. n + 1 /\ r[1 + m].track = p
        BY <1>2, <1>3, <4>1
      <4> QED
        BY <1>4, <4>2 DEF Waiting
    <3>2. 1 \in 1 .. n + 1
      BY <1>2
    <3>3. ASSUME Waiting(r, p), p # e.track PROVE Waiting(w, p)
      <4>1. PICK m \in 1 .. n + 1 : r[m].track = p
        BY <1>4, <3>3 DEF Waiting
      <4>2. m # 1
        BY <1>3, <3>3, <4>1
      <4>3. m - 1 \in 1 .. n /\ w[m - 1].track = p
        BY <1>5, <4>1, <4>2
      <4> QED
        BY <1>2, <4>3 DEF Waiting
    <3> QED
      BY <1>3, <1>4, <3>1, <3>2, <3>3 DEF Waiting
  <2>4. Waiting(q, e.track)
    BY DEF Waiting
  <2> QED
    BY <1>1, <1>4, <1>7, <2>2, <2>3, <2>4 DEF Distinct
<1> QED
  BY <1>3, <1>6, <1>7 DEF r, w

\* A new queue and new rows.
Requeue(s, a, q) == [s EXCEPT !.activity = a, !.queue = q]
LEMMA Requeued ==
    ASSUME NEW s \in Sched, NEW q \in Seq(Pending), NEW a \in [At -> Activities]
    PROVE  /\ Requeue(s, a, q) \in Sched
           /\ Requeue(s, a, q).queue = q /\ Requeue(s, a, q).activity = a
           /\ Requeue(s, a, q).visible = s.visible
           /\ Requeue(s, a, q).in_flight = s.in_flight
           /\ Requeue(s, a, q).threads = s.threads
           /\ Requeue(s, a, q).server = s.server /\ Requeue(s, a, q).latest = s.latest
<1> DEFINE x == Requeue(s, a, q)
<1>1. /\ x \in Schedulers /\ x.queue = q /\ x.activity = a /\ x.visible = s.visible
      /\ x.in_flight = s.in_flight /\ x.threads = s.threads
      /\ x.server = s.server /\ x.latest = s.latest
  BY DEF Requeue, Sched, Schedulers, Activities
<1>2. OwnResults(x)
  BY <1>1 DEF Sched, OwnResults
<1> QED
  BY <1>1, <1>2 DEF Sched

\* The types of a scheduler's fields.
LEMMA Fields ==
    ASSUME NEW s \in Sched
    PROVE  /\ s.server \in Servers /\ s.queue \in Seq(Pending) /\ s.visible \in SUBSET At
           /\ s.in_flight \in At \cup {Nobody} /\ s.activity \in [At -> Activities]
           /\ s.cache \in SUBSET Run /\ s.latest \in [Tracks -> Run \cup {None}]
           /\ s.threads \in Seq(Thread)
           /\ \A t \in Tracks : s.latest[t] # None => s.latest[t].key.content = t
BY DEF Sched, Schedulers, OwnResults, Activities

\* A result that a track displays.
Display(s, c, run) == [s EXCEPT !.cache = c, !.latest[run.key.content] = run]
LEMMA Displayed ==
    ASSUME NEW s \in Sched, NEW run \in Run, NEW c \in SUBSET Run
    PROVE  /\ Display(s, c, run) \in Sched
           /\ Display(s, c, run).queue = s.queue
           /\ Display(s, c, run).activity = s.activity
           /\ Display(s, c, run).visible = s.visible
           /\ Display(s, c, run).in_flight = s.in_flight
           /\ Display(s, c, run).threads = s.threads
           /\ Display(s, c, run).server = s.server
<1> DEFINE k == run.key.content
           l == [s.latest EXCEPT ![k] = run]
           x == [s EXCEPT !.cache = c, !.latest = l]
<1>1. s \in Schedulers /\ OwnResults(s)
  BY DEF Sched
<1>2. k \in Tracks
  BY DEF Run, Key
<1>3. s.latest \in [Tracks -> Run \cup {None}]
  BY <1>1 DEF Schedulers
<1>4. l \in [Tracks -> Run \cup {None}]
  BY <1>2, <1>3
<1>5. Display(s, c, run) = x
  BY <1>1 DEF Schedulers, Display
<1>6. \A t \in Tracks : l[t] # None => l[t].key.content = t
  BY <1>1, <1>2, <1>3 DEF OwnResults
<1> HIDE DEF l, k
<1>7. /\ x \in Schedulers /\ x.queue = s.queue /\ x.activity = s.activity
      /\ x.visible = s.visible /\ x.latest = l
      /\ x.in_flight = s.in_flight /\ x.threads = s.threads
      /\ x.server = s.server
  BY <1>1, <1>4 DEF Schedulers
<1>8. x \in Sched
  BY <1>6, <1>7 DEF Sched, OwnResults
<1> HIDE DEF x
<1> QED
  BY <1>5, <1>7, <1>8

\* What keeps the queue and the rows follows.
LEMMA SameQueueFollows ==
    ASSUME NEW s \in Sched, NEW x \in Sched, NEW lit,
           x.queue = s.queue, x.activity = s.activity, x.visible = s.visible,
           x.in_flight = s.in_flight, x.threads = s.threads
    PROVE  Follows(s, x, lit)
BY DEF Follows, Launch, Lit, Rows

\* An entry that is promoted.
LEMMA PromoteFollows ==
    ASSUME NEW s \in Sched, NEW i \in DOMAIN s.queue, NEW connects \in BOOLEAN, NEW lit
    PROVE  Follows(s, promote_to_front(s, i, connects), lit)
<1> DEFINE e == [s.queue[i] EXCEPT !.priority = "Manual"]
           q == <<e>> \o RemoveAt(s.queue, i)
           x == Requeue(s, s.activity, q)
<1>1. s.queue \in Seq(Pending) /\ s.activity \in [At -> Activities]
  BY Fields
<1>2. e \in Pending /\ e.track = s.queue[i].track /\ e.priority = "Manual"
  <2>1. s.queue[i] \in Pending
    BY <1>1
  <2> QED
    BY <2>1 DEF Pending, Priorities
<1> HIDE DEF e
<1>3. /\ q \in Seq(Pending)
      /\ \A j \in DOMAIN q : q[j] = e \/ \E k \in DOMAIN s.queue : q[j] = s.queue[k]
      /\ Distinct(s.queue) => Distinct(q) /\ \A p : Waiting(q, p) <=> Waiting(s.queue, p)
  BY <1>1, <1>2, QueuePromoted
<1>4. promote_to_front(s, i, connects) = start_next_if_idle(x, connects)
  <2>1. x = [s EXCEPT !.queue = q]
    BY DEF Sched, Schedulers, Requeue
  <2> QED
    BY <2>1 DEF promote_to_front, e
<1> HIDE DEF q
<1>5. /\ x \in Sched /\ x.queue = q /\ x.activity = s.activity /\ x.visible = s.visible
      /\ x.in_flight = s.in_flight /\ x.threads = s.threads
  <2>1. q \in Seq(Pending) /\ s.activity \in [At -> Activities]
    BY <1>1, <1>3
  <2> QED
    BY <2>1, Requeued
<1> HIDE DEF x
<1>6. Lit(s, lit) => Lit(x, lit)
  <2> SUFFICES ASSUME Lit(s, lit), NEW j \in DOMAIN q,
                      q[j].priority = "Auto", q[j].track \in s.visible
               PROVE  q[j].track \in lit
    BY <1>5 DEF Lit
  <2>1. q[j] # e
    BY <1>2
  <2>2. PICK k \in DOMAIN s.queue : q[j] = s.queue[k]
    BY <1>3, <2>1
  <2> QED
    BY <2>2 DEF Lit
<1>7. Rows(s) => Rows(x)
  BY <1>3, <1>5 DEF Rows
<1>8. Follows(s, x, lit)
  BY <1>5, <1>6, <1>7 DEF Follows, Launch
<1>9. Follows(x, start_next_if_idle(x, connects), lit)
  BY <1>5, StartNextFollows
<1> QED
  BY <1>4, <1>8, <1>9, FollowsOn

\* A request for the track at p, whatever it finds.
LEMMA RequestFollows ==
    ASSUME NEW s \in Sched, NEW p \in At, NEW t \in Tracks, NEW params \in Costings,
           NEW priority \in Priorities, NEW connects \in BOOLEAN, NEW lit,
           priority = "Auto" /\ p \in s.visible => p \in lit
    PROVE  Follows(s, request_snap(s, p, t, params, priority, connects), lit)
<1> DEFINE key == KeyOf(s, t, params)
           waiting == {i \in DOMAIN s.queue : s.queue[i].track = p}
           y == request_snap(s, p, t, params, priority, connects)
<1>1. /\ s.server \in Servers /\ s.queue \in Seq(Pending)
      /\ s.activity \in [At -> Activities] /\ s.cache \in SUBSET Run
  BY Fields
<1>2. key \in Key /\ key.content = t
  BY <1>1 DEF KeyOf, Key
<1> HIDE DEF key
<1>3. CASE Cached(s, key) # {}
  <2> DEFINE run == CHOOSE run \in Cached(s, key) : TRUE
             x == Display(s, s.cache, run)
  <2>1. run \in Cached(s, key)
    BY <1>3
  <2> HIDE DEF run
  <2>2. run \in Run /\ run.key = key
    BY <1>1, <2>1 DEF Cached
  <2>3. y = [s EXCEPT !.latest[t] = run]
    BY <1>3 DEF request_snap, key, run
  <2>4. y = x
    BY <1>2, <2>2, <2>3 DEF Sched, Schedulers, Display
  <2>5. /\ x \in Sched /\ x.queue = s.queue /\ x.activity = s.activity
        /\ x.visible = s.visible /\ x.in_flight = s.in_flight /\ x.threads = s.threads
    <3>1. run \in Run /\ s.cache \in SUBSET Run
      BY <1>1, <2>2
    <3> QED
      BY <3>1, Displayed
  <2> HIDE DEF x, y
  <2>6. Follows(s, x, lit)
    BY <2>5, SameQueueFollows
  <2> QED
    BY <2>4, <2>6 DEF y
<1>4. CASE Cached(s, key) = {} /\ waiting # {}
  <2>1. CASE priority = "Auto"
    <3>1. y = s
      BY <1>4, <2>1 DEF request_snap, key
    <3> QED
      BY <3>1, FollowsItself
  <2>2. CASE priority # "Auto"
    <3> DEFINE i == CHOOSE i \in waiting : \A j \in waiting : i <= j
    <3>1. y = promote_to_front(s, i, connects)
      BY <1>4, <2>2 DEF request_snap, key
    <3>2. i \in waiting
      <4>1. waiting \in SUBSET Nat
        BY <1>1
      <4>2. \E k \in waiting : \A j \in waiting : k <= j
        BY <1>4, <4>1, LeastNatural
      <4> QED
        BY <4>2
    <3> HIDE DEF i
    <3>3. i \in DOMAIN s.queue
      BY <3>2
    <3> QED
      BY <3>1, <3>3, PromoteFollows
  <2> QED
    BY <2>1, <2>2
<1>5. CASE Cached(s, key) = {} /\ waiting = {} /\ s.activity[p] # "None"
  <2>1. y = s
    BY <1>5 DEF request_snap, key
  <2> QED
    BY <2>1, FollowsItself
<1>6. CASE Cached(s, key) = {} /\ waiting = {} /\ s.activity[p] = "None"
  <2>1. ~Waiting(s.queue, p)
    BY <1>6 DEF Waiting
  <2>2. CASE t \notin Sendable
    <3> DEFINE a == [s.activity EXCEPT ![p] = "NothingToSend"]
               x == Requeue(s, a, s.queue)
    <3>1. y = [s EXCEPT !.activity[p] = "NothingToSend"]
      BY <1>6, <2>2 DEF request_snap, key
    <3>2. y = x
      BY <3>1 DEF Sched, Schedulers, Requeue
    <3>3. a \in [At -> Activities] /\ s.queue \in Seq(Pending)
      BY <1>1 DEF Activities
    <3>4. \A r \in At : r # p => a[r] = s.activity[r]
      BY <1>1
    <3>5. a[p] = "NothingToSend"
      BY <1>1
    <3> HIDE DEF a
    <3>6. /\ x \in Sched /\ x.queue = s.queue /\ x.activity = a /\ x.visible = s.visible
          /\ x.in_flight = s.in_flight /\ x.threads = s.threads
      BY <3>3, Requeued
    <3> HIDE DEF x, y
    <3>7. Rows(s) => Rows(x)
      BY <1>6, <2>1, <3>4, <3>5, <3>6 DEF Rows
    <3>8. Follows(s, x, lit)
      BY <3>6, <3>7 DEF Follows, Launch, Lit
    <3> QED
      BY <3>2, <3>8 DEF y
  <2>3. CASE t \in Sendable
    <3> DEFINE a == [s.activity EXCEPT ![p] = "Queued"]
               e == [track |-> p, priority |-> priority, key |-> key]
               q == Append(s.queue, e)
               x == Requeue(s, a, q)
    <3>1. y = start_next_if_idle(
                 [s EXCEPT !.activity[p] = "Queued", !.queue = Append(@, e)], connects)
      BY <1>6, <2>3 DEF request_snap, key
    <3>2. y = start_next_if_idle(x, connects)
      BY <3>1 DEF Sched, Schedulers, Requeue
    <3>3. e \in Pending /\ e.track = p /\ e.priority = priority
      BY <1>2 DEF Pending
    <3> HIDE DEF e
    <3>4. /\ q \in Seq(Pending)
          /\ \A j \in DOMAIN q : q[j] = e \/ \E k \in DOMAIN s.queue : q[j] = s.queue[k]
          /\ \A r : Waiting(q, r) <=> Waiting(s.queue, r) \/ r = p
          /\ Distinct(s.queue) => Distinct(q)
      BY <1>1, <2>1, <3>3, QueueLonger
    <3>5. a \in [At -> Activities]
      BY <1>1 DEF Activities
    <3>6. \A r \in At : r # p => a[r] = s.activity[r]
      BY <1>1
    <3>7. a[p] = "Queued"
      BY <1>1
    <3> HIDE DEF a, q
    <3>8. /\ x \in Sched /\ x.queue = q /\ x.activity = a /\ x.visible = s.visible
          /\ x.in_flight = s.in_flight /\ x.threads = s.threads
      <4>1. q \in Seq(Pending) /\ a \in [At -> Activities]
        BY <3>4, <3>5
      <4> QED
        BY <4>1, Requeued
    <3> HIDE DEF x, y
    <3>9. Rows(s) => Rows(x)
      BY <1>6, <3>4, <3>6, <3>7, <3>8 DEF Rows
    <3>10. Lit(s, lit) => Lit(x, lit)
      <4> SUFFICES ASSUME Lit(s, lit), NEW j \in DOMAIN q,
                          q[j].priority = "Auto", q[j].track \in s.visible
                   PROVE  q[j].track \in lit
        BY <3>8 DEF Lit
      <4>1. CASE q[j] = e
        BY <3>3, <4>1
      <4>2. CASE q[j] # e
        <5>1. PICK k \in DOMAIN s.queue : q[j] = s.queue[k]
          BY <3>4, <4>2
        <5> QED
          BY <5>1 DEF Lit
      <4> QED
        BY <4>1, <4>2
    <3>11. Follows(s, x, lit)
      BY <3>8, <3>9, <3>10 DEF Follows, Launch
    <3>12. Follows(x, start_next_if_idle(x, connects), lit)
      BY <3>8, StartNextFollows
    <3>13. Follows(s, start_next_if_idle(x, connects), lit)
      BY <3>11, <3>12, FollowsOn
    <3> QED
      BY <3>2, <3>13 DEF y
  <2> QED
    BY <2>2, <2>3
<1> QED
  BY <1>3, <1>4, <1>5, <1>6

\* What set_visibility leaves: what is visible stands, and a start is for a position
\* that does.
LEMMA VisibilityFollows ==
    ASSUME NEW s \in Sched, NEW standing \in SUBSET At, NEW connects \in BOOLEAN,
           NEW lit, standing \subseteq lit
    PROVE  LET x == set_visibility(s, standing, connects)
           IN /\ x \in Sched /\ x.visible \subseteq standing
              /\ Rows(s) => Rows(x)
              /\ Lit(x, lit) /\ Launch(s, x, lit)
<1> DEFINE v == {p \in standing : \E i \in DOMAIN s.queue : s.queue[i].track = p}
           x == set_visibility(s, standing, connects)
<1>1. v \subseteq standing
  OBVIOUS
<1>2. x = IF v = s.visible THEN s
          ELSE start_next_if_idle([s EXCEPT !.visible = v], connects)
  BY DEF set_visibility
<1> HIDE DEF v, x
<1>3. CASE v = s.visible
  BY <1>1, <1>2, <1>3 DEF Lit, Launch, x
<1>4. CASE v # s.visible
  <2> DEFINE y == [s EXCEPT !.visible = v]
  <2>1. /\ y \in Sched /\ y.queue = s.queue /\ y.activity = s.activity /\ y.visible = v
        /\ y.in_flight = s.in_flight /\ y.threads = s.threads
    <3>1. /\ y \in Schedulers /\ y.queue = s.queue /\ y.activity = s.activity
          /\ y.visible = v /\ y.latest = s.latest
          /\ y.in_flight = s.in_flight /\ y.threads = s.threads
      BY <1>1 DEF Sched, Schedulers
    <3> HIDE DEF y
    <3> QED
      BY <3>1 DEF Sched, OwnResults
  <2>2. x = start_next_if_idle(y, connects)
    BY <1>2, <1>4
  <2> HIDE DEF y
  <2>3. Follows(y, x, lit)
    BY <2>1, <2>2, StartNextFollows
  <2>4. Lit(y, lit)
    BY <1>1, <2>1 DEF Lit
  <2>5. Rows(s) => Rows(y)
    BY <2>1 DEF Rows
  <2> QED
    BY <1>1, <2>1, <2>3, <2>4, <2>5 DEF Follows, Launch, x
<1> QED
  BY <1>3, <1>4

\* A result that comes in.
LEMMA StoreFollows ==
    ASSUME NEW s \in Sched, NEW run \in Run
    PROVE  /\ Store(s, run) \in Sched /\ Store(s, run).queue = s.queue
           /\ Store(s, run).activity = s.activity /\ Store(s, run).visible = s.visible
           /\ Store(s, run).in_flight = s.in_flight /\ Store(s, run).threads = s.threads
<1> DEFINE c == (s.cache \ Cached(s, run.key)) \cup {run}
<1>1. c \in SUBSET Run
  BY Fields
<1>2. Store(s, run) = Display(s, c, run)
  BY DEF Store, Display, Sched, Schedulers
<1> HIDE DEF c
<1> QED
  BY <1>1, <1>2, Displayed

\* A stored run that is restored.
LEMMA RestoreFollows ==
    ASSUME NEW s \in Sched, NEW p \in At, NEW run \in Run, NEW lit
    PROVE  /\ Follows(s, restore_run(s, p, run), lit)
           /\ restore_run(s, p, run).in_flight = s.in_flight
           /\ restore_run(s, p, run).threads = s.threads
<1> DEFINE auto == {i \in DOMAIN s.queue : s.queue[i].track = p
                                           /\ s.queue[i].priority = "Auto"}
           rest == IF auto = {} THEN s
                   ELSE [s EXCEPT !.queue = RemoveAt(@, CHOOSE i \in auto : TRUE),
                                  !.activity[p] = "None"]
           x == restore_run(s, p, run)
           Goes(y) == /\ Follows(s, y, lit)
                      /\ y.in_flight = s.in_flight /\ y.threads = s.threads
<1>1. x = IF s.latest[run.key.content] # None THEN rest ELSE Store(rest, run)
  BY DEF restore_run
<1>2. Goes(rest)
  <2>1. CASE auto = {}
    BY <2>1, FollowsItself
  <2>2. CASE auto # {}
    <3> DEFINE i == CHOOSE i \in auto : TRUE
               q == RemoveAt(s.queue, i)
               a == [s.activity EXCEPT ![p] = "None"]
               y == Requeue(s, a, q)
    <3>1. i \in auto
      BY <2>2
    <3>2. rest = y
      BY <2>2 DEF Requeue, Sched, Schedulers
    <3> HIDE DEF i
    <3>3. s.queue \in Seq(Pending) /\ s.activity \in [At -> Activities]
      BY Fields
    <3>4. i \in DOMAIN s.queue /\ s.queue[i].track = p
      BY <3>1
    <3>5. /\ q \in Seq(Pending)
          /\ \A j \in DOMAIN q : \E k \in DOMAIN s.queue : q[j] = s.queue[k]
          /\ Distinct(s.queue) =>
                /\ Distinct(q)
                /\ \A t : Waiting(q, t) <=> Waiting(s.queue, t) /\ t # s.queue[i].track
      BY <3>3, <3>4, QueueTracks
    <3>6. a \in [At -> Activities] /\ a[p] = "None"
      BY <3>3 DEF Activities
    <3>7. \A t \in At : t # p => a[t] = s.activity[t]
      BY <3>3
    <3> HIDE DEF a, q, auto, rest
    <3>8. /\ y \in Sched /\ y.queue = q /\ y.activity = a /\ y.visible = s.visible
          /\ y.in_flight = s.in_flight /\ y.threads = s.threads
      <4>1. q \in Seq(Pending) /\ a \in [At -> Activities]
        BY <3>5, <3>6
      <4> QED
        BY <4>1, Requeued
    <3> HIDE DEF y
    <3>9. Rows(s) => Rows(y)
      <4> SUFFICES ASSUME Rows(s) PROVE Rows(y)
        OBVIOUS
      <4>1. Distinct(q) /\ \A t : Waiting(q, t) <=> Waiting(s.queue, t) /\ t # p
        BY <3>4, <3>5 DEF Rows
      <4>2. s.activity[p] = "Queued"
        BY <3>4 DEF Rows, Waiting
      <4> QED
        BY <3>6, <3>7, <3>8, <4>1, <4>2 DEF Rows
    <3>10. Lit(s, lit) => Lit(y, lit)
      BY <3>5, <3>8 DEF Lit
    <3>11. Goes(y)
      BY <3>8, <3>9, <3>10 DEF Follows, Launch
    <3> QED
      BY <3>2, <3>11
  <2> QED
    BY <2>1, <2>2
<1> HIDE DEF rest
<1>3. rest \in Sched
  BY <1>2 DEF Follows
<1>4. Goes(Store(rest, run))
  <2> DEFINE z == Store(rest, run)
  <2>1. /\ z \in Sched /\ z.queue = rest.queue /\ z.activity = rest.activity
        /\ z.visible = rest.visible /\ z.in_flight = rest.in_flight
        /\ z.threads = rest.threads
    BY <1>3, StoreFollows
  <2> HIDE DEF z
  <2>2. Follows(rest, z, lit)
    BY <1>3, <2>1, SameQueueFollows
  <2>3. Follows(s, z, lit)
    BY <1>2, <2>2, FollowsOn
  <2> QED
    BY <1>2, <2>1, <2>3 DEF z
<1> QED
  BY <1>1, <1>2, <1>4

\* What reset_track_states leaves.
LEMMA ResetLeaves ==
    ASSUME NEW s \in Sched, NEW lit
    PROVE  /\ reset_track_states(s) \in Sched /\ Rows(reset_track_states(s))
           /\ reset_track_states(s).queue = <<>> /\ Lit(reset_track_states(s), lit)
           /\ reset_track_states(s).visible = s.visible
           /\ reset_track_states(s).in_flight = Nobody
           /\ reset_track_states(s).threads = s.threads
<1> DEFINE x == reset_track_states(s)
           a == [p \in At |-> "None"]
           none == <<>>
<1>a. a \in [At -> Activities] /\ \A p \in At : a[p] = "None"
  BY DEF Activities
<1>b. none \in Seq(Pending)
  OBVIOUS
<1>c. x = [s EXCEPT !.queue = none, !.activity = a, !.in_flight = Nobody]
  BY DEF reset_track_states
<1> HIDE DEF x, a, none
<1>1. /\ x \in Schedulers /\ x.queue = none /\ x.activity = a
      /\ x.in_flight = Nobody /\ x.latest = s.latest /\ x.visible = s.visible
      /\ x.threads = s.threads
  BY <1>a, <1>b, <1>c DEF Sched, Schedulers, Activities
<1>2. x \in Sched
  BY <1>1 DEF Sched, OwnResults
<1>3. Rows(x)
  BY <1>a, <1>1 DEF Rows, Waiting, Distinct, At, Nobody, none
<1> QED
  BY <1>1, <1>2, <1>3 DEF Lit, x, none

\* One message changes a row, the results and what is in flight.
LEMMA ApplyLeaves ==
    ASSUME NEW s \in Sched, NEW m \in Message
    PROVE  /\ Apply(s, m) \in Sched /\ Apply(s, m).queue = s.queue
           /\ Apply(s, m).visible = s.visible /\ Apply(s, m).threads = s.threads
           /\ Rows(s) /\ m.track = s.in_flight =>
                /\ m.kind = "Progress" => Apply(s, m) = s
                /\ m.kind # "Progress" => /\ Rows(Apply(s, m))
                                          /\ Apply(s, m).in_flight = Nobody
<1> DEFINE p == m.track
           idle == IF s.in_flight = m.track THEN Nobody ELSE s.in_flight
           x == Apply(s, m)
<1>1. p \in At /\ m.run \in Run /\ m.kind \in {"Progress", "Done", "Failed"}
  BY DEF Message
<1>2. s.in_flight \in At \cup {Nobody} /\ s.activity \in [At -> Activities]
  BY Fields
<1>3. idle \in At \cup {Nobody}
  BY <1>2
<1> DEFINE Out(y, a, f) == [y EXCEPT !.activity = a, !.in_flight = f]
<1>4. ASSUME NEW y \in Sched, NEW a \in [At -> Activities], NEW f \in At \cup {Nobody}
      PROVE  /\ Out(y, a, f) \in Sched /\ Out(y, a, f).queue = y.queue
             /\ Out(y, a, f).visible = y.visible /\ Out(y, a, f).threads = y.threads
             /\ Out(y, a, f).activity = a /\ Out(y, a, f).in_flight = f
  <2> DEFINE z == Out(y, a, f)
  <2>1. /\ z \in Schedulers /\ z.queue = y.queue /\ z.latest = y.latest
        /\ z.visible = y.visible /\ z.threads = y.threads
        /\ z.activity = a /\ z.in_flight = f
    BY DEF Sched, Schedulers, Activities
  <2> HIDE DEF z
  <2>2. z \in Sched
    BY <2>1 DEF Sched, OwnResults
  <2> QED
    BY <2>1, <2>2 DEF z
<1> DEFINE set(w) == [s.activity EXCEPT ![p] = w]
<1>5. \A w \in Activities : /\ set(w) \in [At -> Activities] /\ set(w)[p] = w
                            /\ \A r \in At : r # p => set(w)[r] = s.activity[r]
  BY <1>1, <1>2
<1>6. s.activity[p] = "InFlight" => set("InFlight") = s.activity
  BY <1>1, <1>2
<1>7. /\ Store(s, m.run) \in Sched /\ Store(s, m.run).queue = s.queue
      /\ Store(s, m.run).activity = s.activity /\ Store(s, m.run).visible = s.visible
      /\ Store(s, m.run).in_flight = s.in_flight /\ Store(s, m.run).threads = s.threads
  BY <1>1, StoreFollows
<1>8. m.kind = "Progress" =>
         x = IF s.activity[p] = "None" THEN s ELSE Out(s, set("InFlight"), s.in_flight)
  BY DEF Apply, Sched, Schedulers
<1>9. m.kind = "Done" => x = Out(Store(s, m.run), set("None"), idle)
  <2>1. Store(s, m.run) \in Schedulers /\ Store(s, m.run).activity = s.activity
    BY <1>7 DEF Sched
  <2>2. m.kind = "Done" => x = [Store(s, m.run) EXCEPT !.activity[m.track] = "None",
                                                         !.in_flight = idle]
    BY DEF Apply
  <2> QED
    BY <2>1, <2>2 DEF Schedulers
<1>10. m.kind = "Failed" =>
          x = Out(s, IF s.activity[p] = "None" THEN s.activity ELSE set("Failed"), idle)
  <2>1. m.kind = "Failed" =>
           x = [(IF s.activity[p] = "None" THEN s
                 ELSE [s EXCEPT !.activity[m.track] = "Failed"]) EXCEPT !.in_flight = idle]
    BY DEF Apply
  <2>2. s \in Schedulers
    BY DEF Sched
  <2> QED
    BY <2>1, <2>2 DEF Schedulers
<1>11. "None" \in Activities /\ "Failed" \in Activities /\ "InFlight" \in Activities
  BY DEF Activities
<1>12. Nobody \in At \cup {Nobody}
  OBVIOUS
<1> HIDE DEF x, Out, set
<1>13. /\ x \in Sched /\ x.queue = s.queue
       /\ x.visible = s.visible /\ x.threads = s.threads
  <2>1. CASE m.kind = "Progress"
    <3>1. set("InFlight") \in [At -> Activities]
      BY <1>5, <1>11
    <3>2. s.in_flight \in At \cup {Nobody}
      BY <1>2
    <3> QED
      BY <1>4, <1>8, <2>1, <3>1, <3>2
  <2>2. CASE m.kind = "Done"
    <3>1. /\ Store(s, m.run) \in Sched /\ set("None") \in [At -> Activities]
          /\ idle \in At \cup {Nobody}
      BY <1>3, <1>5, <1>7, <1>11
    <3> HIDE DEF idle
    <3> QED
      BY <1>4, <1>7, <1>9, <2>2, <3>1
  <2>3. CASE m.kind = "Failed"
    <3>1. (IF s.activity[p] = "None" THEN s.activity ELSE set("Failed"))
             \in [At -> Activities]
      BY <1>2, <1>5, <1>11
    <3> HIDE DEF idle
    <3> QED
      BY <1>3, <1>4, <1>10, <2>3, <3>1
  <2> QED
    BY <1>1, <2>1, <2>2, <2>3
<1>14. ASSUME Rows(s), p = s.in_flight, m.kind = "Progress" PROVE x = s
  <2>1. s.activity[p] = "InFlight"
    BY <1>1, <1>14 DEF Rows
  <2>2. x = Out(s, s.activity, s.in_flight)
    BY <1>6, <1>8, <1>14, <2>1
  <2> QED
    BY <2>2 DEF Out, Sched, Schedulers
<1>15. ASSUME Rows(s), p = s.in_flight, m.kind # "Progress"
       PROVE  Rows(x) /\ x.in_flight = Nobody
  <2>1. s.activity[p] = "InFlight" /\ idle = Nobody
    BY <1>1, <1>15 DEF Rows
  <2>2. \E w \in {"None", "Failed"} : x.activity = set(w) /\ x.in_flight = Nobody
    <3>1. CASE m.kind = "Done"
      <4>1. x = Out(Store(s, m.run), set("None"), Nobody)
        BY <1>9, <2>1, <3>1
      <4>2. Store(s, m.run) \in Sched /\ set("None") \in [At -> Activities]
        BY <1>5, <1>7, <1>11
      <4> QED
        BY <1>4, <1>12, <4>1, <4>2
    <3>2. CASE m.kind = "Failed"
      <4>1. x = Out(s, set("Failed"), Nobody)
        BY <1>10, <2>1, <3>2
      <4>2. set("Failed") \in [At -> Activities]
        BY <1>5, <1>11
      <4> QED
        BY <1>4, <1>12, <4>1, <4>2
    <3> QED
      BY <1>1, <1>15, <3>1, <3>2
  <2>3. PICK w \in {"None", "Failed"} : x.activity = set(w) /\ x.in_flight = Nobody
    BY <2>2
  <2>4. /\ x.activity[p] = w
        /\ \A r \in At : r # p => x.activity[r] = s.activity[r]
    BY <1>5, <1>11, <2>3
  <2>5. \A r \in At : r # Nobody
    BY DEF At, Nobody
  <2>6. \A r \in At : (x.activity[r] = "Queued") <=> Waiting(x.queue, r)
    BY <1>1, <1>13, <1>15, <2>1, <2>4 DEF Rows
  <2>7. \A r \in At : x.activity[r] = "InFlight" <=> x.in_flight = r
    BY <1>1, <1>15, <2>1, <2>3, <2>4, <2>5 DEF Rows
  <2> QED
    BY <1>13, <1>15, <2>3, <2>6, <2>7 DEF Rows
<1> QED
  BY <1>13, <1>14, <1>15 DEF x

-----------------------------------------------------------------------------
\* The poll and the loops over the tracks.

\* The recursion of a fold of Apply.
ApplyEq(f, s, ms) ==
    f = [t \in SUBSET DOMAIN ms |->
            IF t = {} THEN s ELSE Apply(f[t \ {Max(t)}], ms[Max(t)])]

\* The scheduler once the messages are applied, and a set of schedulers each keeps.
Applied(s, ms) == FoldLeft(Apply, s, ms)
KeptBy(D, ms) ==
    \A x \in D, i \in DOMAIN ms : Apply(x, ms[i]) \in D

\* The messages of a poll are applied one after the other.
LEMMA ApplyFold ==
    ASSUME NEW D, NEW s \in D, NEW ms \in Seq(Message),
           KeptBy(D, ms)
    PROVE  \E g \in [0 .. Len(ms) -> D] :
              /\ g[0] = s
              /\ \A i \in 1 .. Len(ms) : g[i] = Apply(g[i - 1], ms[i])
              /\ Applied(s, ms) = g[Len(ms)]
<1> DEFINE n == Len(ms)
           Op(x, i) == Apply(x, ms[i])
           step == [i \in 1 .. n |-> [x \in D |-> Op(x, i)]]
           f == CHOOSE h : ApplyEq(h, s, ms)
<1>1. n \in Nat /\ DOMAIN ms = 1 .. n
  OBVIOUS
<1>2. \A x \in D, i \in 1 .. n : Op(x, i) \in D
  BY <1>1 DEF KeptBy
<1>3. \A h : ApplyEq(h, s, ms) <=>
         h = [t \in SUBSET (1 .. n) |->
                 IF t = {} THEN s ELSE Op(h[t \ {Max(t)}], Max(t))]
  BY <1>1 DEF ApplyEq
<1>4. Applied(s, ms) = f[1 .. n]
  BY <1>1 DEF Applied, FoldLeft, MapThenFoldSet, ApplyEq
<1> HIDE DEF Op, n, f
<1>5. step \in [1 .. n -> [D -> D]] /\ \A i \in 1 .. n, x \in D : step[i][x] = Op(x, i)
  BY <1>2
<1> HIDE DEF step
<1>6. \E h : ApplyEq(h, s, ms)
  <2>1. PICK h : FoldSolution(h, n, D, s, step)
    BY <1>1, <1>5, FoldRecursion
  <2>2. /\ h \in [SUBSET (1 .. n) -> D]
        /\ \A t \in SUBSET (1 .. n) :
              h[t] = IF t = {} THEN s ELSE step[Max(t)][h[t \ {Max(t)}]]
    BY <2>1 DEF FoldSolution
  <2>3. \A t \in SUBSET (1 .. n) :
           h[t] = IF t = {} THEN s ELSE Op(h[t \ {Max(t)}], Max(t))
    BY <1>1, <1>5, <2>2, LastOff
  <2>4. h = [t \in SUBSET (1 .. n) |->
                IF t = {} THEN s ELSE Op(h[t \ {Max(t)}], Max(t))]
    BY <2>2, <2>3
  <2> QED
    BY <1>3, <2>4
<1>7. f = [t \in SUBSET (1 .. n) |->
              IF t = {} THEN s ELSE Op(f[t \ {Max(t)}], Max(t))]
  BY <1>3, <1>6 DEF f
<1>8. FoldFollows(f, n, D, s, step)
  <2>1. \A t \in SUBSET (1 .. n) : f[t] = IF t = {} THEN s ELSE Op(f[t \ {Max(t)}], Max(t))
    BY <1>7
  <2>2. ASSUME NEW t \in SUBSET (1 .. n), t # {}, f[t \ {Max(t)}] \in D
        PROVE  f[t] = step[Max(t)][f[t \ {Max(t)}]]
    <3>1. Max(t) \in 1 .. n
      BY <1>1, <2>2, LastOff
    <3> QED
      BY <1>5, <2>1, <2>2, <3>1
  <2> QED
    BY <2>1, <2>2 DEF FoldFollows
<1>9. PICK g : Running(g, n, D, s, step) /\ f[1 .. n] = g[n]
  BY <1>1, <1>5, <1>8, FoldReaches
<1>10. /\ g \in [0 .. n -> D] /\ g[0] = s
       /\ \A i \in 1 .. n : g[i] = step[i][g[i - 1]]
  BY <1>9 DEF Running
<1>11. ASSUME NEW i \in 1 .. n PROVE g[i] = Apply(g[i - 1], ms[i])
  <2>1. g[i - 1] \in D
    BY <1>1, <1>10
  <2> QED
    BY <1>5, <1>10, <2>1 DEF Op
<1> QED
  BY <1>4, <1>9, <1>10, <1>11 DEF n

\* Positions are somewhere, and entries, threads and messages are of one.
LEMMA Somewhere ==
    /\ \A p \in At : p # Nobody
    /\ \A q \in Seq(Pending) : \A i \in DOMAIN q : q[i].track \in At
    /\ \A q \in Seq(Thread) : \A i \in DOMAIN q : q[i].track \in At
    /\ \A q \in Seq(Message) : \A i \in DOMAIN q : q[i].track \in At
<1>1. \A p \in At : p # Nobody
  BY DEF At, Nobody
<1>2. ASSUME NEW q \in Seq(Pending), NEW i \in DOMAIN q PROVE q[i].track \in At
  <2>1. q[i] \in Pending
    OBVIOUS
  <2> QED
    BY <2>1 DEF Pending
<1>3. ASSUME NEW q \in Seq(Thread), NEW i \in DOMAIN q PROVE q[i].track \in At
  <2>1. q[i] \in Thread
    OBVIOUS
  <2> QED
    BY <2>1 DEF Thread
<1>4. ASSUME NEW q \in Seq(Message), NEW i \in DOMAIN q PROVE q[i].track \in At
  <2>1. q[i] \in Message
    OBVIOUS
  <2> QED
    BY <2>1 DEF Message
<1> QED
  BY <1>1, <1>2, <1>3, <1>4

\* What keeps to the runs, or starts one beside none, keeps to the messages.
LEMMA ChannelOn ==
    ASSUME NEW s \in Sched, NEW x \in Sched, NEW ms \in Seq(Message), NEW lit,
           Channel(s, ms), Launch(s, x, lit)
    PROVE  Channel(x, ms)
<1>1. CASE x.in_flight = s.in_flight /\ x.threads = s.threads
  BY <1>1 DEF Channel
<1>2. CASE ~(x.in_flight = s.in_flight /\ x.threads = s.threads)
  <2>1. PICK th \in Thread : /\ x.in_flight = th.track
                             /\ x.threads = Append(s.threads, th)
                             /\ s.in_flight = Nobody
    BY <1>2 DEF Launch
  <2>2. s.threads \in Seq(Thread)
    BY Fields
  <2>3. \A i \in DOMAIN s.threads : s.threads[i].track # Nobody
    BY <2>2, Somewhere
  <2>4. s.threads = <<>>
    <3>1. DOMAIN s.threads = {}
      BY <2>1, <2>3 DEF Channel
    <3>2. Len(s.threads) = 0
      <4>1. Len(s.threads) \in Nat /\ DOMAIN s.threads = 1 .. Len(s.threads)
        BY <2>2
      <4>2. Len(s.threads) # 0 => 1 \in 1 .. Len(s.threads)
        BY <4>1
      <4> QED
        BY <3>1, <4>1, <4>2
    <3> QED
      BY <2>2, <3>2
  <2>5. DOMAIN ms = {}
    <3>1. \A i \in DOMAIN ms : ms[i].track # Nobody
      BY Somewhere
    <3> QED
      BY <2>1, <3>1 DEF Channel
  <2>6. x.threads = <<th>>
    BY <2>1, <2>4
  <2> QED
    BY <2>1, <2>5, <2>6 DEF Channel, Ended
<1> QED
  BY <1>1, <1>2

\* What a poll leaves, and the scheduler y its start is from.
LEMMA PollFollows ==
    ASSUME NEW s \in Sched, NEW ms \in Seq(Message), NEW connects \in BOOLEAN, NEW lit
    PROVE  LET x == poll(s, ms, connects)
           IN /\ x \in Sched /\ x.visible = s.visible
              /\ Lit(s, lit) => /\ Lit(x, lit)
                                /\ \E y \in Sched : /\ y.threads = s.threads
                                                    /\ Launch(y, x, lit)
              /\ Rows(s) /\ Channel(s, ms) => Rows(x) /\ Channel(x, <<>>)
<1> DEFINE y == Applied(s, ms)
           n == Len(ms)
           x == poll(s, ms, connects)
           D == {z \in Sched : /\ z.queue = s.queue /\ z.visible = s.visible
                               /\ z.threads = s.threads}
<1>1. n \in Nat /\ DOMAIN ms = 1 .. n /\ \A i \in 1 .. n : ms[i] \in Message
  OBVIOUS
<1>2. s \in D /\ \A z \in D, i \in DOMAIN ms : Apply(z, ms[i]) \in D
  <2>1. ASSUME NEW z \in D, NEW i \in DOMAIN ms PROVE Apply(z, ms[i]) \in D
    <3>1. z \in Sched /\ ms[i] \in Message
      BY <1>1
    <3>2. /\ Apply(z, ms[i]) \in Sched /\ Apply(z, ms[i]).queue = z.queue
          /\ Apply(z, ms[i]).visible = z.visible /\ Apply(z, ms[i]).threads = z.threads
      BY <3>1, ApplyLeaves
    <3> QED
      BY <3>2
  <2> QED
    BY <2>1
<1> HIDE DEF D
<1>3. PICK g \in [0 .. n -> D] :
         /\ g[0] = s
         /\ \A i \in 1 .. n : g[i] = Apply(g[i - 1], ms[i])
         /\ y = g[n]
  <2>1. s \in D
    BY <1>2
  <2>2. KeptBy(D, ms)
    BY <1>2 DEF KeptBy
  <2> QED
    BY <2>1, <2>2, ApplyFold
<1>4. x = IF ms = <<>> THEN y ELSE start_next_if_idle(y, connects)
  BY DEF poll, Applied
<1>5. y \in D
  BY <1>1, <1>3
<1> HIDE DEF y, n, x
<1>6. y \in Sched /\ y.queue = s.queue /\ y.visible = s.visible /\ y.threads = s.threads
  BY <1>5 DEF D
<1>7. Follows(y, x, lit)
  BY <1>4, <1>6, FollowsItself, StartNextFollows
<1>8. ASSUME Lit(s, lit)
      PROVE  Lit(x, lit) /\ Launch(y, x, lit)
  BY <1>6, <1>7, <1>8 DEF Lit, Follows
<1>a. ASSUME Rows(y), Channel(y, <<>>) PROVE Rows(x) /\ Channel(x, <<>>)
  <2>1. Follows(y, x, At)
    BY <1>4, <1>6, FollowsItself, StartNextFollows
  <2>2. Lit(y, At)
    <3>1. y.queue \in Seq(Pending)
      BY <1>6, Fields
    <3> QED
      BY <3>1, Somewhere DEF Lit
  <2>3. x \in Sched /\ Launch(y, x, At) /\ Rows(x)
    BY <1>a, <2>1, <2>2 DEF Follows
  <2>4. <<>> \in Seq(Message)
    OBVIOUS
  <2> QED
    BY <1>6, <1>a, <2>3, <2>4, ChannelOn
<1>9. ASSUME Rows(s), Channel(s, ms) PROVE Rows(x) /\ Channel(x, <<>>)
  <2>1. \A i \in 1 .. n : ms[i].track = s.in_flight /\ (ms[i].kind # "Progress" => i = n)
    BY <1>1, <1>9, Zenon DEF Channel, n
  <2>2. \A i \in 1 .. n : Apply(s, ms[i]) = s \/ i = n
    BY <1>1, <1>9, <2>1, ApplyLeaves
  <2> DEFINE S == {m \in Nat : m < n => g[m] = s}
  <2>3. 0 \in S
    BY <1>3
  <2>4. ASSUME NEW m \in Nat, m \in S PROVE m + 1 \in S
    <3> SUFFICES ASSUME m + 1 < n PROVE g[m + 1] = s
      OBVIOUS
    <3>1. m + 1 \in 1 .. n /\ (m + 1) - 1 = m /\ m + 1 # n /\ g[m] = s
      BY <1>1, <2>4
    <3>2. g[m + 1] = Apply(g[m], ms[m + 1])
      BY <1>3, <3>1
    <3> QED
      BY <2>2, <3>1, <3>2
  <2> HIDE DEF S
  <2>5. Nat \subseteq S
    BY <2>3, <2>4, Induction
  <2>6. n # 0 => y = Apply(s, ms[n])
    <3> SUFFICES ASSUME n # 0 PROVE y = Apply(s, ms[n])
      OBVIOUS
    <3>1. n - 1 \in S /\ n - 1 < n /\ n \in 1 .. n
      BY <1>1, <2>5
    <3>2. g[n - 1] = s
      BY <3>1 DEF S
    <3> QED
      BY <1>3, <3>1, <3>2
  <2>7. n # 0 => s.in_flight # Nobody
    <3>1. n # 0 => n \in 1 .. n
      BY <1>1
    <3>2. n # 0 => ms[n].track \in At
      BY <1>1, <3>1 DEF Message
    <3> QED
      BY <2>1, <3>1, <3>2 DEF At, Nobody
  <2>8. CASE Ended(ms)
    <3>1. n # 0 /\ ms[n].kind # "Progress" /\ n \in 1 .. n
      BY <1>1, <2>1, <2>8 DEF Ended
    <3>2. Rows(y) /\ y.in_flight = Nobody
      BY <1>1, <1>9, <2>1, <2>6, <3>1, ApplyLeaves
    <3>3. s.threads = <<>>
      BY <1>9, <2>7, <2>8, <3>1 DEF Channel
    <3>4. Channel(y, <<>>)
      BY <1>6, <3>2, <3>3 DEF Channel
    <3> QED
      BY <1>a, <3>2, <3>4
  <2>9. CASE ~Ended(ms)
    <3>1. y = s
      <4>1. CASE n = 0
        BY <1>3, <4>1
      <4>2. CASE n # 0
        <5>0. n \in 1 .. n
          BY <1>1, <4>2
        <5>1. n \in 1 .. n /\ ms[n].kind = "Progress" /\ ms[n] \in Message
          BY <1>1, <2>9, <5>0 DEF Ended
        <5> QED
          BY <1>9, <2>1, <2>6, <4>2, <5>1, ApplyLeaves
      <4> QED
        BY <4>1, <4>2
    <3>2. Channel(y, <<>>)
      BY <1>9, <2>9, <3>1 DEF Channel, Ended
    <3> QED
      BY <1>9, <1>a, <3>1, <3>2
  <2> QED
    BY <2>8, <2>9, Zenon
<1> QED
  BY <1>6, <1>7, <1>8, <1>9 DEF Follows, x

\* One turn of queue_auto_snaps, and the recursion of its fold.
AutoTurn(s, p, window, connects) ==
    IF s.latest[window[p]] # None THEN s
    ELSE request_snap(s, p, window[p], costing[window[p]], "Auto", connects)
InOrder(window) == [p \in DOMAIN window |-> p]
AutoEq(f, s, window, connects) ==
    f = [t \in SUBSET DOMAIN InOrder(window) |->
            IF t = {} THEN s
            ELSE AutoTurn(f[t \ {Max(t)}], InOrder(window)[Max(t)], window, connects)]

\* A sweep follows from where it starts: what is visible may be started.
LEMMA SweepFollows ==
    ASSUME NEW s \in Sched, NEW window \in Seq(Tracks), Len(window) <= Positions,
           costing \in [Tracks -> Costings], NEW connects \in BOOLEAN, NEW lit,
           s.visible \subseteq lit
    PROVE  Follows(s, queue_auto_snaps(s, window, connects), lit)
<1> DEFINE n == Len(window)
           D == {x \in Sched : Follows(s, x, lit)}
           Op(x, i) == AutoTurn(x, InOrder(window)[i], window, connects)
           step == [i \in 1 .. n |-> [x \in D |-> Op(x, i)]]
           f == CHOOSE h : AutoEq(h, s, window, connects)
<1>1. n \in Nat /\ DOMAIN window = 1 .. n
  OBVIOUS
<1>p. DOMAIN InOrder(window) = 1 .. n /\ \A p \in 1 .. n : InOrder(window)[p] = p
  BY <1>1 DEF InOrder
<1>2. ASSUME NEW x \in D, NEW p \in 1 .. n PROVE Op(x, p) \in D
  <2>1. x \in Sched /\ Follows(s, x, lit) /\ x.visible = s.visible
    BY DEF Follows
  <2>2. p \in At /\ window[p] \in Tracks /\ costing[window[p]] \in Costings
    BY <1>1, BoundsAssumption DEF At
  <2>3. "Auto" \in Priorities
    BY DEF Priorities
  <2>4. "Auto" = "Auto" /\ p \in x.visible => p \in lit
    BY <2>1
  <2>5. Follows(x, request_snap(x, p, window[p], costing[window[p]], "Auto", connects), lit)
    BY <2>1, <2>2, <2>3, <2>4, RequestFollows
  <2>6. Follows(x, Op(x, p), lit)
    BY <1>p, <2>1, <2>5, FollowsItself DEF AutoTurn
  <2> HIDE DEF Op
  <2>7. Follows(s, Op(x, p), lit)
    BY <2>1, <2>6, FollowsOn
  <2> QED
    BY <2>7 DEF Follows
<1>3. \A h : AutoEq(h, s, window, connects) <=>
         h = [t \in SUBSET (1 .. n) |->
                 IF t = {} THEN s ELSE Op(h[t \ {Max(t)}], Max(t))]
  BY <1>p DEF AutoEq
<1>4. queue_auto_snaps(s, window, connects) = f[1 .. n]
  BY <1>p DEF queue_auto_snaps, FoldLeft, MapThenFoldSet, AutoEq, AutoTurn, InOrder
<1>s. s \in D
  BY FollowsItself
<1> HIDE DEF Op, n, f, D
<1>5. step \in [1 .. n -> [D -> D]] /\ \A i \in 1 .. n, x \in D : step[i][x] = Op(x, i)
  BY <1>2
<1> HIDE DEF step
<1>6. \E h : AutoEq(h, s, window, connects)
  <2>1. PICK h : FoldSolution(h, n, D, s, step)
    BY <1>1, <1>5, <1>s, FoldRecursion
  <2>2. /\ h \in [SUBSET (1 .. n) -> D]
        /\ \A t \in SUBSET (1 .. n) :
              h[t] = IF t = {} THEN s ELSE step[Max(t)][h[t \ {Max(t)}]]
    BY <2>1 DEF FoldSolution
  <2>3. \A t \in SUBSET (1 .. n) :
           h[t] = IF t = {} THEN s ELSE Op(h[t \ {Max(t)}], Max(t))
    BY <1>1, <1>5, <2>2, LastOff
  <2>4. h = [t \in SUBSET (1 .. n) |->
                IF t = {} THEN s ELSE Op(h[t \ {Max(t)}], Max(t))]
    BY <2>2, <2>3
  <2> QED
    BY <1>3, <2>4
<1>7. f = [t \in SUBSET (1 .. n) |->
              IF t = {} THEN s ELSE Op(f[t \ {Max(t)}], Max(t))]
  BY <1>3, <1>6 DEF f
<1>8. FoldFollows(f, n, D, s, step)
  <2>1. \A t \in SUBSET (1 .. n) : f[t] = IF t = {} THEN s ELSE Op(f[t \ {Max(t)}], Max(t))
    BY <1>7
  <2>2. ASSUME NEW t \in SUBSET (1 .. n), t # {}, f[t \ {Max(t)}] \in D
        PROVE  f[t] = step[Max(t)][f[t \ {Max(t)}]]
    <3>1. Max(t) \in 1 .. n
      BY <1>1, <2>2, LastOff
    <3> QED
      BY <1>5, <2>1, <2>2, <3>1
  <2> QED
    BY <2>1, <2>2 DEF FoldFollows
<1>n. n \in Nat
  BY <1>1
<1>m. step \in [1 .. n -> [D -> D]]
  BY <1>5
<1>9. PICK g : Running(g, n, D, s, step) /\ f[1 .. n] = g[n]
  BY <1>m, <1>n, <1>8, <1>s, FoldReaches
<1>10. f[1 .. n] \in D
  BY <1>1, <1>9 DEF Running
<1> QED
  BY <1>4, <1>10 DEF D

\* One turn of run_snap_request, for the tracks at asked, and its recursion.
AskTurn(s, p, asked, chosen, connects) ==
    IF p \notin asked THEN s
    ELSE request_snap(s, p, entries[p], chosen[entries[p]], "Manual", connects)
AskEq(f, s, asked, chosen, connects) ==
    f = [t \in SUBSET DOMAIN InOrder(entries) |->
            IF t = {} THEN s
            ELSE AskTurn(f[t \ {Max(t)}], InOrder(entries)[Max(t)], asked, chosen, connects)]

\* What run_snap_request changes follows, whatever was asked for.
LEMMA AskFollows ==
    ASSUME snap \in Sched, entries \in Seq(Tracks), Len(entries) <= Positions,
           costing \in [Tracks -> Costings], NEW request \in Request,
           NEW connects \in BOOLEAN, NEW lit, run_snap_request(request, connects)
    PROVE  costing' \in [Tracks -> Costings] /\ Follows(snap, snap', lit)
<1> DEFINE asked == request.tracks \cap DOMAIN entries
           chosen == IF request.choice = None THEN costing
                     ELSE [t \in Tracks |-> IF \E p \in asked : entries[p] = t
                                            THEN request.choice ELSE costing[t]]
           again == IF request.choice = None THEN {}
                    ELSE {KeyOf(snap, entries[p], request.choice) : p \in asked}
           s == [snap EXCEPT !.cache = {run \in @ : run.key \notin again}]
           n == Len(entries)
           D == {x \in Sched : Follows(snap, x, lit)}
           Op(x, i) == AskTurn(x, InOrder(entries)[i], asked, chosen, connects)
           step == [i \in 1 .. n |-> [x \in D |-> Op(x, i)]]
           f == CHOOSE h : AskEq(h, s, asked, chosen, connects)
<1>1. n \in Nat /\ DOMAIN entries = 1 .. n
  OBVIOUS
<1>p. DOMAIN InOrder(entries) = 1 .. n /\ \A p \in 1 .. n : InOrder(entries)[p] = p
  BY <1>1 DEF InOrder
<1>c. costing' = chosen /\ chosen \in [Tracks -> Costings]
  <2>1. request.choice \in Costings \cup {None}
    BY DEF Request
  <2> QED
    BY <2>1 DEF run_snap_request
<1>4. snap' = f[1 .. n]
  BY <1>p DEF run_snap_request, FoldLeft, MapThenFoldSet, AskEq, AskTurn, InOrder
<1> HIDE DEF chosen, asked
<1>s. s \in D
  <2> DEFINE c == {run \in snap.cache : run.key \notin again}
             y == [snap EXCEPT !.cache = c]
  <2>1. c \in SUBSET Run
    BY Fields
  <2> HIDE DEF c
  <2>2. /\ y \in Schedulers /\ y.queue = snap.queue /\ y.activity = snap.activity
        /\ y.visible = snap.visible /\ y.in_flight = snap.in_flight
        /\ y.threads = snap.threads /\ y.latest = snap.latest
    BY <2>1 DEF Sched, Schedulers
  <2>3. s = y
    BY DEF c
  <2> HIDE DEF y, s
  <2>4. y \in Sched
    BY <2>2 DEF Sched, OwnResults
  <2>5. Follows(snap, y, lit)
    BY <2>2, <2>4, SameQueueFollows
  <2> QED
    BY <2>3, <2>4, <2>5
<1> HIDE DEF s
<1>2. ASSUME NEW x \in D, NEW p \in 1 .. n PROVE Op(x, p) \in D
  <2>1. x \in Sched /\ Follows(snap, x, lit)
    OBVIOUS
  <2>2. p \in At /\ entries[p] \in Tracks /\ chosen[entries[p]] \in Costings
    BY <1>1, <1>c, BoundsAssumption DEF At
  <2>3. "Manual" \in Priorities
    BY DEF Priorities
  <2>4. "Manual" = "Auto" /\ p \in x.visible => p \in lit
    OBVIOUS
  <2>5. Follows(x, request_snap(x, p, entries[p], chosen[entries[p]], "Manual", connects), lit)
    BY <2>1, <2>2, <2>3, <2>4, RequestFollows
  <2>6. Follows(x, Op(x, p), lit)
    BY <1>p, <2>1, <2>5, FollowsItself DEF AskTurn
  <2> HIDE DEF Op
  <2>7. Follows(snap, Op(x, p), lit)
    BY <2>1, <2>6, FollowsOn
  <2> QED
    BY <2>7 DEF Follows
<1>3. \A h : AskEq(h, s, asked, chosen, connects) <=>
         h = [t \in SUBSET (1 .. n) |->
                 IF t = {} THEN s ELSE Op(h[t \ {Max(t)}], Max(t))]
  BY <1>p DEF AskEq
<1> HIDE DEF Op, n, f, D
<1>5. step \in [1 .. n -> [D -> D]] /\ \A i \in 1 .. n, x \in D : step[i][x] = Op(x, i)
  BY <1>2
<1> HIDE DEF step
<1>6. \E h : AskEq(h, s, asked, chosen, connects)
  <2>1. PICK h : FoldSolution(h, n, D, s, step)
    BY <1>1, <1>5, <1>s, FoldRecursion
  <2>2. /\ h \in [SUBSET (1 .. n) -> D]
        /\ \A t \in SUBSET (1 .. n) :
              h[t] = IF t = {} THEN s ELSE step[Max(t)][h[t \ {Max(t)}]]
    BY <2>1 DEF FoldSolution
  <2>3. \A t \in SUBSET (1 .. n) :
           h[t] = IF t = {} THEN s ELSE Op(h[t \ {Max(t)}], Max(t))
    BY <1>1, <1>5, <2>2, LastOff
  <2>4. h = [t \in SUBSET (1 .. n) |->
                IF t = {} THEN s ELSE Op(h[t \ {Max(t)}], Max(t))]
    BY <2>2, <2>3
  <2> QED
    BY <1>3, <2>4
<1>7. f = [t \in SUBSET (1 .. n) |->
              IF t = {} THEN s ELSE Op(f[t \ {Max(t)}], Max(t))]
  BY <1>3, <1>6 DEF f
<1>8. FoldFollows(f, n, D, s, step)
  <2>1. \A t \in SUBSET (1 .. n) : f[t] = IF t = {} THEN s ELSE Op(f[t \ {Max(t)}], Max(t))
    BY <1>7
  <2>2. ASSUME NEW t \in SUBSET (1 .. n), t # {}, f[t \ {Max(t)}] \in D
        PROVE  f[t] = step[Max(t)][f[t \ {Max(t)}]]
    <3>1. Max(t) \in 1 .. n
      BY <1>1, <2>2, LastOff
    <3> QED
      BY <1>5, <2>1, <2>2, <3>1
  <2> QED
    BY <2>1, <2>2 DEF FoldFollows
<1>n. n \in Nat
  BY <1>1
<1>m. step \in [1 .. n -> [D -> D]]
  BY <1>5
<1>9. PICK g : Running(g, n, D, s, step) /\ f[1 .. n] = g[n]
  <2> HIDE DEF again
  <2> QED
    BY ONLY <1>m, <1>n, <1>8, <1>s, FoldReaches
<1>10. f[1 .. n] \in D
  BY <1>1, <1>9 DEF Running
<1> QED
  BY <1>4, <1>10, <1>c DEF D

-----------------------------------------------------------------------------
\* The steps.

\* A sequence without members is the empty one.
LEMMA NoMembers ==
    ASSUME NEW S, NEW q \in Seq(S), DOMAIN q = {}
    PROVE  q = <<>>
<1>1. Len(q) \in Nat /\ DOMAIN q = 1 .. Len(q)
  OBVIOUS
<1>2. Len(q) # 0 => 1 \in 1 .. Len(q)
  BY <1>1
<1>3. Len(q) = 0
  BY <1>1, <1>2
<1> QED
  BY <1>3

\* Without a run in flight there is no thread and no message; with one there is one
\* that has not been taken over.
LEMMA UnfinishedIs ==
    ASSUME NEW s \in Sched, NEW ms \in Seq(Message), Channel(s, ms)
    PROVE  /\ Unfinished(s, ms) = IF s.in_flight = Nobody THEN 0 ELSE 1
           /\ s.in_flight = Nobody => s.threads = <<>> /\ ms = <<>>
<1> DEFINE n == Len(ms)
           E == {i \in DOMAIN ms : ms[i].kind # "Progress"}
<1>1. n \in Nat /\ DOMAIN ms = 1 .. n /\ \A i \in 1 .. n : ms[i].track \in At
  BY Somewhere
<1>2. s.threads \in Seq(Thread) /\ Len(s.threads) \in Nat
  <2>1. s.threads \in Seq(Thread)
    BY Fields
  <2> QED
    BY <2>1
<1>3. \A i \in DOMAIN s.threads : s.threads[i].track \in At
  BY <1>2, Somewhere
<1>4. Unfinished(s, ms) = Len(s.threads) + Cardinality(E)
  BY DEF Unfinished
<1>5. E = {} => Cardinality(E) = 0
  BY FS_EmptySet
<1>6. CASE s.in_flight = Nobody
  <2>1. DOMAIN s.threads = {} /\ DOMAIN ms = {}
    BY <1>1, <1>3, <1>6, Somewhere DEF Channel
  <2>2. s.threads = <<>> /\ ms = <<>>
    BY <1>2, <2>1, NoMembers
  <2>3. Len(s.threads) = 0
    BY <2>2
  <2> QED
    BY <1>4, <1>5, <1>6, <2>1, <2>2, <2>3
<1>7. CASE s.in_flight # Nobody
  <2>1. CASE Ended(ms)
    <3>1. s.threads = <<>>
      BY <1>7, <2>1 DEF Channel
    <3>2. PICK i \in DOMAIN ms : ms[i].kind # "Progress"
      BY <2>1 DEF Ended
    <3>3. E = {i}
      BY <3>2 DEF Channel
    <3>4. Cardinality(E) = 1
      BY <3>3, FS_Singleton
    <3>5. Len(s.threads) = 0
      BY <3>1
    <3> QED
      BY <1>4, <1>7, <3>4, <3>5
  <2>2. CASE ~Ended(ms)
    <3>1. E = {}
      BY <2>2 DEF Ended
    <3>2. s.threads # <<>> /\ Len(s.threads) <= 1
      BY <1>7, <2>2 DEF Channel
    <3>3. Len(s.threads) # 0
      BY <1>2, <3>2
    <3>4. Len(s.threads) = 1
      <4> DEFINE l == Len(s.threads)
      <4>1. l \in Nat /\ l <= 1 /\ l # 0
        BY <1>2, <3>2, <3>3
      <4> HIDE DEF l
      <4>2. l = 1
        BY <4>1
      <4> QED
        BY <4>2 DEF l
    <3> QED
      BY <1>4, <1>5, <1>7, <3>1, <3>4
  <2> QED
    BY <2>1, <2>2
<1> QED
  BY <1>6, <1>7

\* What a frame may find arrived.
LoadOk(load) ==
    \/ load = NoLoad
    \/ /\ left # 0 /\ load.at \in At /\ load.of \in Tracks
       /\ load.at <= Len(entries) + 1 /\ load # NoLoad

\* The window of a frame: it keeps what it does not replace.
LEMMA PlaceIs ==
    ASSUME entries \in Seq(Tracks), Len(entries) <= Positions, NEW load, LoadOk(load)
    PROVE  /\ Place(load) \in Seq(Tracks) /\ Len(Place(load)) <= Positions
           /\ load.at \notin DOMAIN entries =>
                 \A p \in DOMAIN entries : /\ p \in DOMAIN Place(load)
                                           /\ Place(load)[p] = entries[p]
<1> DEFINE n == Len(entries)
<1>1. n \in Nat /\ DOMAIN entries = 1 .. n /\ Positions \in Nat
  BY BoundsAssumption
<1>2. CASE load.at = Nobody
  BY <1>2 DEF Place
<1>3. CASE load.at # Nobody
  <2>1. load.at \in 1 .. Positions /\ load.of \in Tracks /\ load.at <= n + 1
    BY <1>3 DEF LoadOk, NoLoad, At
  <2>2. CASE load.at > n
    <3>1. Place(load) = Append(entries, load.of)
      BY <1>3, <2>2 DEF Place
    <3>2. n + 1 <= Positions
      BY <1>1, <2>1, <2>2
    <3> QED
      BY <1>1, <2>1, <3>1, <3>2
  <2>3. CASE ~(load.at > n)
    <3>1. Place(load) = [entries EXCEPT ![load.at] = load.of]
      BY <1>3, <2>3 DEF Place
    <3>2. load.at \in DOMAIN entries
      BY <1>1, <2>1, <2>3
    <3> QED
      BY <2>1, <3>1, <3>2
  <2> QED
    BY <2>2, <2>3
<1> QED
  BY <1>2, <1>3

\* The automatic runs a step starts are of positions in lit.
StartsIn(lit) ==
    \/ Len(snap'.threads) <= Len(snap.threads)
    \/ \E th \in Thread : /\ snap'.threads = Append(snap.threads, th)
                          /\ th.priority = "Auto" => th.track \in lit

\* A frame puts the scheduler's operations one after the other: one start at the most.
LEMMA FrameSnap ==
    ASSUME IInv, NEW load, LoadOk(load), NEW found \in SUBSET Tracks, NEW run,
           run # None => run \in Run, NEW connects \in BOOLEAN,
           FrameWith(load, found, run, connects)
    PROVE  /\ snap' \in Sched /\ Lit(snap', Shows')
           /\ StartsIn({p \in DOMAIN entries' : entries'[p] \in shown \cup seen})
           /\ ~shifted' => Rows(snap') /\ Channel(snap', messages')
<1> DEFINE window == Place(load)
           replaces == load.at \in DOMAIN entries
           swept == settings.auto_snap /\ consent_granted /\ (sweep \/ load # NoLoad)
           loaded == IF replaces THEN reset_track_states(snap) ELSE snap
           home == {p \in DOMAIN window : run # None /\ window[p] = run.key.content}
           restored == IF home = {} THEN loaded
                       ELSE restore_run(loaded, CHOOSE p \in home : TRUE, run)
           polled == poll(restored, messages, connects)
           standing == Standing(window)
           lit == set_visibility(polled, standing, connects)
           both == {p \in DOMAIN window : window[p] \in shown \cup seen}
<1>1. /\ entries' = window /\ messages' = <<>> /\ seen' = shown
      /\ snap' = IF swept THEN queue_auto_snaps(lit, window, connects) ELSE lit
      /\ shifted' = (shifted \/ (replaces /\ Unfinished(snap, messages) > 0))
  BY DEF FrameWith
<1>2. /\ snap \in Sched /\ entries \in Seq(Tracks) /\ Len(entries) <= Positions
      /\ messages \in Seq(Message) /\ costing \in [Tracks -> Costings]
      /\ Lit(snap, Shows)
  BY DEF IInv, TypeOK, Sched, OwnResults
<1>3. /\ window \in Seq(Tracks) /\ Len(window) <= Positions
      /\ ~replaces => \A p \in DOMAIN entries : /\ p \in DOMAIN window
                                                /\ window[p] = entries[p]
  BY <1>2, PlaceIs
<1> HIDE DEF window, swept, replaces
<1>4. /\ standing \in SUBSET At /\ standing \subseteq both
      /\ standing = {p \in DOMAIN window : window[p] \in shown}
  <2>1. DOMAIN window \subseteq At
    BY <1>3, BoundsAssumption DEF At
  <2> QED
    BY <2>1 DEF Standing
<1>5. /\ loaded \in Sched /\ Lit(loaded, both) /\ loaded.threads = snap.threads
      /\ ~shifted' => Rows(loaded) /\ Channel(loaded, messages)
  <2>1. CASE replaces
    <3>1. /\ loaded \in Sched /\ Lit(loaded, both) /\ loaded.threads = snap.threads
          /\ loaded.in_flight = Nobody /\ Rows(loaded)
      BY <1>2, <2>1, ResetLeaves
    <3>2. ASSUME ~shifted' PROVE Channel(loaded, messages)
      <4>1. Channel(snap, messages) /\ ~(Unfinished(snap, messages) > 0)
        BY <1>1, <2>1, <3>2 DEF IInv
      <4>2. snap.in_flight = Nobody
        BY <1>2, <4>1, UnfinishedIs
      <4>3. snap.threads = <<>> /\ messages = <<>>
        BY <1>2, <4>1, <4>2, UnfinishedIs
      <4> QED
        BY <3>1, <4>3 DEF Channel, Ended
    <3> QED
      BY <3>1, <3>2
  <2>2. CASE ~replaces
    <3>1. loaded = snap
      BY <2>2
    <3>2. Lit(snap, both)
      BY <1>2, <1>3, <2>2 DEF Lit, Shows
    <3>3. ~shifted' => Rows(snap) /\ Channel(snap, messages)
      BY <1>1 DEF IInv
    <3> QED
      BY <1>2, <3>1, <3>2, <3>3
  <2> QED
    BY <2>1, <2>2
<1> HIDE DEF loaded, both
<1>6. /\ restored \in Sched /\ Lit(restored, both) /\ restored.threads = snap.threads
      /\ ~shifted' => Rows(restored) /\ Channel(restored, messages)
  <2>1. CASE home = {}
    BY <1>5, <2>1
  <2>2. CASE home # {}
    <3> DEFINE p == CHOOSE p \in home : TRUE
    <3>1. p \in home
      BY <2>2
    <3>2. restored = restore_run(loaded, p, run)
      BY <2>2
    <3> HIDE DEF p, restored
    <3>3. p \in At /\ run \in Run
      BY <1>3, <3>1, BoundsAssumption DEF At
    <3>4. /\ Follows(loaded, restored, both)
          /\ restored.in_flight = loaded.in_flight /\ restored.threads = loaded.threads
      BY <1>5, <3>2, <3>3, RestoreFollows
    <3>5. Channel(loaded, messages) => Channel(restored, messages)
      BY <3>4 DEF Channel
    <3> QED
      BY <1>5, <3>4, <3>5 DEF Follows
  <2> QED
    BY <2>1, <2>2
<1> HIDE DEF restored
<1>7. /\ polled \in Sched /\ Lit(polled, both)
      /\ \E y \in Sched : y.threads = snap.threads /\ Launch(y, polled, both)
      /\ ~shifted' => Rows(polled) /\ Channel(polled, <<>>)
  <2>1. restored \in Sched /\ messages \in Seq(Message)
    BY <1>2, <1>6
  <2>2. /\ polled \in Sched
        /\ Lit(restored, both) =>
              /\ Lit(polled, both)
              /\ \E y \in Sched : y.threads = restored.threads /\ Launch(y, polled, both)
        /\ Rows(restored) /\ Channel(restored, messages)
              => Rows(polled) /\ Channel(polled, <<>>)
    BY <2>1, PollFollows
  <2> QED
    BY <1>6, <2>2
<1> HIDE DEF polled, standing
<1>8. /\ lit \in Sched /\ lit.visible \subseteq standing
      /\ Rows(polled) => Rows(lit)
      /\ Lit(lit, both) /\ Launch(polled, lit, both) /\ Lit(lit, standing)
  <2>1. \A out : standing \subseteq out =>
           /\ lit \in Sched /\ lit.visible \subseteq standing
           /\ Rows(polled) => Rows(lit)
           /\ Lit(lit, out) /\ Launch(polled, lit, out)
    BY <1>4, <1>7, VisibilityFollows
  <2> QED
    BY <1>4, <2>1
<1> HIDE DEF lit
<1>9. /\ snap' \in Sched /\ (Rows(lit) => Rows(snap'))
      /\ Launch(lit, snap', both) /\ Lit(snap', standing)
  <2>1. CASE swept
    <3>1. snap' = queue_auto_snaps(lit, window, connects)
      BY <1>1, <2>1
    <3>2. \A out : standing \subseteq out => Follows(lit, snap', out)
      BY <1>2, <1>3, <1>8, <3>1, SweepFollows
    <3>3. Follows(lit, snap', both) /\ Follows(lit, snap', standing)
      BY <1>4, <3>2
    <3> QED
      BY <1>8, <3>3 DEF Follows
  <2>2. CASE ~swept
    <3>1. snap' = lit
      BY <1>1, <2>2
    <3> QED
      BY <1>8, <3>1 DEF Launch
  <2> QED
    BY <2>1, <2>2
<1>10. Lit(snap', Shows')
  <2>1. standing = Shows'
    BY <1>1, <1>4 DEF Shows
  <2> QED
    BY <1>9, <2>1
<1>11. StartsIn(both)
  <2>1. PICK y \in Sched : y.threads = snap.threads /\ Launch(y, polled, both)
    BY <1>7
  <2>2. Launch(y, lit, both)
    BY <1>8, <2>1, LaunchOn
  <2>3. Launch(y, snap', both)
    BY <1>9, <2>2, LaunchOn
  <2> QED
    BY <2>1, <2>3 DEF Launch, StartsIn
<1>12. ASSUME ~shifted' PROVE Rows(snap') /\ Channel(snap', messages')
  <2>1. Channel(polled, <<>>) /\ Rows(polled) /\ <<>> \in Seq(Message)
    BY <1>7, <1>12
  <2>2. Channel(lit, <<>>)
    BY <1>7, <1>8, <2>1, ChannelOn
  <2>3. Channel(snap', <<>>)
    BY <1>8, <1>9, <2>1, <2>2, ChannelOn
  <2> QED
    BY <1>1, <1>8, <1>9, <2>1, <2>3
<1> QED
  BY <1>1, <1>9, <1>10, <1>11, <1>12 DEF both

\* The positions of a window whose track is shown, or was at the last frame.
Showing(window) == {p \in DOMAIN window : window[p] \in shown \cup seen}

\* What each step keeps, beside the types.
Sound ==
    /\ snap \in Sched
    /\ Lit(snap, Shows)
    /\ ~shifted => Rows(snap) /\ Channel(snap, messages)

\* The types of everything but the scheduler.
Types ==
    /\ entries \in Seq(Tracks) /\ Len(entries) <= Positions
    /\ shown \subseteq Tracks /\ seen \subseteq Tracks /\ restoring \subseteq Tracks
    /\ costing \in [Tracks -> Costings]
    /\ messages \in Seq(Message)
    /\ settings \in [auto_snap : BOOLEAN, consent_host : Servers \cup {None},
                     prompt : BOOLEAN]
    /\ parked \in Request
    /\ sweep \in BOOLEAN /\ shifted \in BOOLEAN
    /\ left \in 0 .. Actions

\* The invariant is the types and what the steps keep.
LEMMA IInvIs == IInv <=> Types /\ Sound
BY DEF IInv, TypeOK, Types, Sound, Sched, OwnResults

\* A position of the window is one of At.
LEMMA InWindow ==
    ASSUME NEW window \in Seq(Tracks), Len(window) <= Positions
    PROVE  DOMAIN window \subseteq At
BY BoundsAssumption DEF At

\* A frame, whatever it finds.
LEMMA FrameKeeps ==
    ASSUME IInv, NEW load, LoadOk(load), NEW found \in SUBSET Tracks, NEW run,
           run # None => run \in Run, NEW connects \in BOOLEAN,
           FrameWith(load, found, run, connects)
    PROVE  IInv' /\ StartsIn(Showing(entries'))
<1>1. Types /\ Sound
  BY IInvIs
<1>2. /\ snap' \in Sched /\ Lit(snap', Shows')
      /\ StartsIn({p \in DOMAIN entries' : entries'[p] \in shown \cup seen})
      /\ ~shifted' => Rows(snap') /\ Channel(snap', messages')
  BY FrameSnap
<1>3. Types'
  <2> USE <1>1 DEF Types
  <2>1. entries' \in Seq(Tracks) /\ Len(entries') <= Positions
    BY PlaceIs DEF FrameWith
  <2>2. restoring' \subseteq Tracks
    <3>1. load # NoLoad => load.of \in Tracks
      BY DEF LoadOk
    <3> QED
      BY <3>1 DEF FrameWith
  <2>3. left' \in 0 .. Actions
    <3>1. left' = IF load = NoLoad THEN left ELSE left - 1
      BY DEF FrameWith
    <3>2. load # NoLoad => left # 0
      BY DEF LoadOk
    <3> QED
      BY <3>1, <3>2, BoundsAssumption
  <2>4. settings' \in [auto_snap : BOOLEAN, consent_host : Servers \cup {None},
                       prompt : BOOLEAN]
    BY DEF FrameWith
  <2>5. messages' \in Seq(Message)
    BY DEF FrameWith
  <2>6. /\ shown' = shown /\ seen' = shown /\ costing' = costing /\ parked' = parked
        /\ sweep' = FALSE /\ shifted' \in BOOLEAN
    BY DEF FrameWith
  <2> QED
    BY <2>1, <2>2, <2>3, <2>4, <2>5, <2>6
<1>4. Sound'
  BY <1>2 DEF Sound
<1>5. StartsIn(Showing(entries'))
  BY <1>2 DEF Showing
<1>6. IInv'
  BY <1>3, <1>4, IInvIs, PTL
<1> QED
  BY <1>5, <1>6

\* A request that is run.
LEMMA RunKeeps ==
    ASSUME IInv, NEW request \in Request, NEW connects \in BOOLEAN,
           run_snap_request(request, connects),
           UNCHANGED <<entries, shown, messages, seen, shifted>>
    PROVE  /\ costing' \in [Tracks -> Costings] /\ Sound'
           /\ StartsIn(Showing(entries'))
<1>1. Types /\ Sound
  BY IInvIs
<1>2. costing' \in [Tracks -> Costings] /\ Follows(snap, snap', Shows)
  <2>1. /\ snap \in Sched /\ entries \in Seq(Tracks) /\ Len(entries) <= Positions
        /\ costing \in [Tracks -> Costings]
    BY <1>1 DEF Types, Sound
  <2> QED
    BY <2>1, AskFollows
<1>3. Lit(snap', Shows) /\ Launch(snap, snap', Shows) /\ snap' \in Sched
  BY <1>1, <1>2 DEF Follows, Sound
<1>4. ASSUME ~shifted' PROVE Rows(snap') /\ Channel(snap', messages')
  <2>1. Rows(snap) /\ Channel(snap, messages) /\ snap \in Sched /\ messages \in Seq(Message)
    BY <1>1, <1>4 DEF Sound, Types
  <2>2. Channel(snap', messages)
    BY <1>3, <2>1, ChannelOn
  <2> QED
    BY <1>2, <2>1, <2>2 DEF Follows
<1>5. Shows' = Shows /\ Shows \subseteq Showing(entries')
  BY DEF Shows, Showing
<1>6. StartsIn(Showing(entries'))
  <2>1. CASE snap'.threads = snap.threads
    <3>1. Len(snap.threads) \in Nat
      <4>1. snap.threads \in Seq(Thread)
        BY <1>1, Fields DEF Sound
      <4> QED
        BY <4>1
    <3> QED
      BY <2>1, <3>1 DEF StartsIn
  <2>2. CASE snap'.threads # snap.threads
    BY <1>3, <1>5, <2>2 DEF Launch, StartsIn
  <2> QED
    BY <2>1, <2>2
<1> QED
  BY <1>2, <1>3, <1>4, <1>5, <1>6 DEF Sound

\* What does not touch the threads starts nothing.
LEMMA NothingStarts ==
    ASSUME snap \in Sched, snap'.threads = snap.threads, NEW lit
    PROVE  StartsIn(lit)
<1>1. snap.threads \in Seq(Thread)
  BY Fields
<1>2. Len(snap.threads) \in Nat
  BY <1>1
<1> QED
  BY <1>2 DEF StartsIn

\* A request, parked or run.
LEMMA AskKeeps ==
    ASSUME IInv, NEW request \in Request, Ask(request)
    PROVE  IInv' /\ StartsIn(Showing(entries'))
<1>1. Types /\ Sound
  BY IInvIs
<1>2. left' \in 0 .. Actions
  <2>1. left \in 0 .. Actions /\ left > 0 /\ left' = left - 1
    BY <1>1 DEF Ask, Acts, Types
  <2> QED
    BY <2>1, BoundsAssumption
<1>3. UNCHANGED <<entries, shown, messages, restoring, sweep, seen, shifted>>
  BY DEF Ask
<1>4. CASE consent_granted
  <2>1. PICK connects \in BOOLEAN : run_snap_request(request, connects)
    BY <1>4 DEF Ask
  <2>2. /\ costing' \in [Tracks -> Costings] /\ Sound'
        /\ StartsIn(Showing(entries'))
    BY <1>3, <2>1, RunKeeps
  <2>3. UNCHANGED <<settings, parked>>
    BY <1>4 DEF Ask
  <2>4. Types'
    BY <1>1, <1>2, <1>3, <2>2, <2>3 DEF Types
  <2>5. IInv'
    BY <2>2, <2>4, IInvIs, PTL
  <2> QED
    BY <2>2, <2>5
<1>5. CASE ~consent_granted
  <2>1. /\ parked' = request /\ settings' = [settings EXCEPT !.prompt = TRUE]
        /\ snap' = snap /\ costing' = costing
    BY <1>5 DEF Ask
  <2>2. Types'
    BY <1>1, <1>2, <1>3, <2>1 DEF Types
  <2>3. Sound'
    BY <1>1, <1>3, <2>1 DEF Sound, Shows
  <2>4. StartsIn(Showing(entries'))
    BY <1>1, <2>1, NothingStarts DEF Sound
  <2>5. IInv'
    BY <2>2, <2>3, IInvIs, PTL
  <2> QED
    BY <2>4, <2>5
<1> QED
  BY <1>4, <1>5

\* Consent, and the parked request after it.
LEMMA AcceptKeeps ==
    ASSUME IInv, AcceptConsent
    PROVE  IInv' /\ StartsIn(Showing(entries'))
<1>1. Types /\ Sound
  BY IInvIs
<1>2. PICK connects \in BOOLEAN : run_snap_request(parked, connects)
  BY DEF AcceptConsent
<1>3. UNCHANGED <<entries, shown, messages, seen, shifted>>
  BY DEF AcceptConsent
<1>4. parked \in Request
  BY <1>1 DEF Types
<1>5. /\ costing' \in [Tracks -> Costings] /\ Sound' /\ StartsIn(Showing(entries'))
  BY <1>2, <1>3, <1>4, RunKeeps
<1>6. settings' \in [auto_snap : BOOLEAN, consent_host : Servers \cup {None},
                     prompt : BOOLEAN]
  <2>1. snap.server \in Servers
    BY <1>1, Fields DEF Sound
  <2> QED
    BY <1>1, <2>1 DEF AcceptConsent, Types
<1>7. parked' \in Request
  BY DEF AcceptConsent, Nothing, Request
<1>8. Types'
  BY <1>1, <1>3, <1>5, <1>6, <1>7 DEF AcceptConsent, Types
<1>9. IInv'
  BY <1>5, <1>8, IInvIs, PTL
<1> QED
  BY <1>5, <1>9

\* The actions of the user that leave the scheduler alone.
LEMMA UserKeeps ==
    ASSUME IInv,
           \/ DeclineConsent
           \/ \E auto \in BOOLEAN : ChooseAutomatic(auto)
           \/ \E t \in Tracks : Toggle(t)
           \/ UNCHANGED vars
    PROVE  IInv' /\ StartsIn(Showing(entries'))
<1>1. Types /\ Sound
  BY IInvIs
<1>2. UNCHANGED <<entries, snap, messages, seen, shifted>>
  BY DEF DeclineConsent, ChooseAutomatic, Toggle, vars
<1>3. Types'
  <2>1. left > 0 /\ left' = left - 1 => left' \in 0 .. Actions
    BY <1>1, BoundsAssumption DEF Types
  <2>2. Nothing \in Request
    BY DEF Nothing, Request
  <2>3. CASE DeclineConsent
    BY <1>1, <2>2, <2>3 DEF DeclineConsent, Types
  <2>4. ASSUME NEW auto \in BOOLEAN, ChooseAutomatic(auto) PROVE Types'
    BY <1>1, <2>1, <2>4 DEF ChooseAutomatic, Acts, Types
  <2>5. ASSUME NEW t \in Tracks, Toggle(t) PROVE Types'
    BY <1>1, <2>1, <2>5 DEF Toggle, Acts, Types
  <2>6. CASE UNCHANGED vars
    BY <1>1, <2>6 DEF vars, Types
  <2> QED
    BY <2>3, <2>4, <2>5, <2>6
<1>4. Sound'
  BY <1>1, <1>2 DEF Sound, Shows
<1>5. StartsIn(Showing(entries'))
  BY <1>1, <1>2, NothingStarts DEF Sound
<1>6. IInv'
  BY <1>3, <1>4, IInvIs, PTL
<1> QED
  BY <1>5, <1>6

\* A change of the server.
LEMMA ServerKeeps ==
    ASSUME IInv, NEW server \in Servers, set_server_url(server)
    PROVE  IInv' /\ StartsIn(Showing(entries'))
<1>1. Types /\ Sound
  BY IInvIs
<1>2. /\ snap' \in Sched /\ snap'.queue = snap.queue /\ snap'.activity = snap.activity
      /\ snap'.visible = snap.visible /\ snap'.in_flight = snap.in_flight
      /\ snap'.threads = snap.threads
  <2>1. snap \in Sched /\ snap' = [snap EXCEPT !.server = server, !.http = FALSE]
    BY <1>1 DEF set_server_url, Sound
  <2>2. /\ snap' \in Schedulers /\ snap'.queue = snap.queue
        /\ snap'.activity = snap.activity
        /\ snap'.visible = snap.visible /\ snap'.in_flight = snap.in_flight
        /\ snap'.threads = snap.threads /\ snap'.latest = snap.latest
    BY <2>1 DEF Sched, Schedulers
  <2>3. OwnResults(snap')
    BY <2>1, <2>2 DEF Sched, OwnResults
  <2> QED
    BY <2>2, <2>3 DEF Sched
<1>3. UNCHANGED <<entries, messages, seen, shifted>>
  BY DEF set_server_url
<1>4. Types'
  <2>1. left > 0 /\ left' = left - 1 => left' \in 0 .. Actions
    BY <1>1, BoundsAssumption DEF Types
  <2> QED
    BY <1>1, <2>1 DEF set_server_url, Acts, Types
<1>5. Sound'
  BY <1>1, <1>2, <1>3 DEF Sound, Shows, Lit, Rows, Channel
<1>6. StartsIn(Showing(entries'))
  BY <1>1, <1>2, NothingStarts DEF Sound
<1>7. IInv'
  BY <1>4, <1>5, IInvIs, PTL
<1> QED
  BY <1>6, <1>7

\* A track that goes.
LEMMA UnloadKeeps ==
    ASSUME IInv, NEW p \in At, Unload(p)
    PROVE  IInv' /\ StartsIn(Showing(entries'))
<1>1. Types /\ Sound
  BY IInvIs
<1>2. /\ snap' \in Sched /\ Rows(snap') /\ Lit(snap', Shows')
      /\ snap'.in_flight = Nobody /\ snap'.threads = snap.threads
  <2>1. snap \in Sched /\ snap' = reset_track_states(snap)
    BY <1>1 DEF Unload, Sound
  <2> HIDE DEF Shows
  <2> QED
    BY <2>1, ResetLeaves
<1>3. ASSUME ~shifted' PROVE Channel(snap', messages')
  <2>1. /\ snap \in Sched /\ messages \in Seq(Message) /\ Channel(snap, messages)
        /\ ~(Unfinished(snap, messages) > 0) /\ messages' = messages
    BY <1>1, <1>3 DEF Unload, Types, Sound
  <2>2. snap.in_flight = Nobody
    BY <2>1, UnfinishedIs
  <2>3. snap.threads = <<>> /\ messages = <<>>
    BY <2>1, <2>2, UnfinishedIs
  <2> QED
    BY <1>2, <2>1, <2>3 DEF Channel, Ended
<1>4. Types'
  <2>1. left > 0 /\ left' = left - 1 => left' \in 0 .. Actions
    BY <1>1, BoundsAssumption DEF Types
  <2>2. entries' \in Seq(Tracks) /\ Len(entries') <= Positions
    <3>1. entries \in Seq(Tracks) /\ p \in 1 .. Len(entries) /\ Len(entries) <= Positions
      BY <1>1 DEF Unload, Types
    <3>2. RemoveAt(entries, p) \in Seq(Tracks) /\ Len(RemoveAt(entries, p)) = Len(entries) - 1
      BY <3>1, RemoveAtIs
    <3>3. Len(entries) \in Nat
      BY <3>1
    <3>4. entries' = RemoveAt(entries, p)
      BY DEF Unload
    <3> QED
      BY <3>1, <3>2, <3>3, <3>4, BoundsAssumption
  <2>3. shifted' \in BOOLEAN
    BY DEF Unload
  <2> QED
    BY <1>1, <2>1, <2>2, <2>3 DEF Unload, Acts, Types
<1>5. Sound'
  BY <1>2, <1>3 DEF Sound
<1>6. StartsIn(Showing(entries'))
  BY <1>1, <1>2, NothingStarts DEF Sound
<1>7. IInv'
  BY <1>4, <1>5, IInvIs, PTL
<1> QED
  BY <1>6, <1>7

\* A worker that reports, its thread going on or not.
LEMMA ReportKeeps ==
    ASSUME Types, Sound, NEW m \in Message, messages' = Append(messages, m),
           snap' \in Sched, snap'.queue = snap.queue, snap'.activity = snap.activity,
           snap'.visible = snap.visible, snap'.in_flight = snap.in_flight,
           ~shifted => /\ m.track = snap.in_flight /\ snap.in_flight # Nobody
                       /\ snap.threads # <<>>
                       /\ Len(snap'.threads) <= 1
                       /\ \A i \in DOMAIN snap'.threads :
                             snap'.threads[i].track = snap.in_flight
                       /\ snap'.threads = <<>> <=> m.kind # "Progress",
           UNCHANGED <<entries, shown, costing, restoring, settings, parked, sweep,
                       left, seen, shifted>>
    PROVE  IInv'
<1>1. Types'
  <2>1. messages' \in Seq(Message)
    BY DEF Types
  <2> QED
    BY <2>1 DEF Types
<1>2. Lit(snap', Shows')
  BY DEF Sound, Lit, Shows
<1>3. ASSUME ~shifted' PROVE Rows(snap') /\ Channel(snap', messages')
  <2>1. Rows(snap) /\ Channel(snap, messages)
    BY <1>3 DEF Sound
  <2>2. Rows(snap')
    BY <2>1 DEF Rows
  <2> DEFINE n == Len(messages)
  <2>3. /\ n \in Nat /\ DOMAIN messages = 1 .. n /\ DOMAIN messages' = 1 .. n + 1
        /\ Len(messages') = n + 1
        /\ messages'[n + 1] = m /\ \A i \in 1 .. n : messages'[i] = messages[i]
    BY DEF Types
  <2> HIDE DEF n
  <2>4. ~Ended(messages)
    BY <1>3, <2>1 DEF Channel
  <2>5. \A i \in 1 .. n + 1 : i \in 1 .. n \/ i = n + 1
    BY <2>3
  <2>6. \A i \in 1 .. n + 1 : /\ messages'[i].track = snap'.in_flight
                              /\ messages'[i].kind # "Progress" => i = n + 1
    BY <1>3, <2>1, <2>3, <2>4, <2>5 DEF Channel, Ended
  <2>7. Ended(messages') <=> m.kind # "Progress"
    <3>1. n + 1 \in 1 .. n + 1
      BY <2>3
    <3> QED
      BY <2>3, <2>4, <2>5, <3>1 DEF Ended
  <2>8. Channel(snap', messages')
    BY <1>3, <2>3, <2>6, <2>7 DEF Channel
  <2> QED
    BY <2>2, <2>8
<1>4. Sound'
  BY <1>2, <1>3 DEF Sound
<1> QED
  BY <1>1, <1>4, IInvIs, PTL

\* The thread of a run that reports progress or its end.
LEMMA WorkerKeeps ==
    ASSUME IInv, NEW i \in DOMAIN snap.threads, Progress(i) \/ Finish(i)
    PROVE  IInv' /\ StartsIn(Showing(entries'))
<1>1. Types /\ Sound
  BY IInvIs
<1> DEFINE ths == snap.threads
           n == Len(ths)
<1>2. snap \in Sched /\ ths \in Seq(Thread)
  BY <1>1, Fields DEF Sound
<1>3. n \in Nat /\ DOMAIN ths = 1 .. n /\ i \in 1 .. n /\ ths[i] \in Thread
  BY <1>2
<1>4. \E m \in Message : /\ messages' = Append(messages, m) /\ m.track = ths[i].track
                         /\ IF Progress(i) THEN m.kind = "Progress" ELSE m.kind # "Progress"
  <2> DEFINE Says(kind) == [kind |-> kind, track |-> ths[i].track, run |-> ths[i].run]
  <2>1. \A kind \in {"Progress", "Done", "Failed"} :
           /\ Says(kind) \in Message /\ Says(kind).track = ths[i].track
           /\ Says(kind).kind = kind
    BY <1>3 DEF Thread, Message
  <2>2. CASE Progress(i)
    <3>1. messages' = Append(messages, Says("Progress"))
      BY <2>2 DEF Progress
    <3> HIDE DEF Says
    <3> QED
      BY <2>1, <2>2, <3>1
  <2>3. CASE ~Progress(i)
    <3>1. PICK kind \in {"Done", "Failed"} : messages' = Append(messages, Says(kind))
      BY <2>3 DEF Finish
    <3> HIDE DEF Says
    <3> QED
      BY <2>1, <2>3, <3>1
  <2> QED
    BY <2>2, <2>3
<1>5. PICK m \in Message :
         /\ messages' = Append(messages, m) /\ m.track = ths[i].track
         /\ IF Progress(i) THEN m.kind = "Progress" ELSE m.kind # "Progress"
  BY <1>4
<1>6. \E t \in Seq(Thread) :
         /\ snap' = [snap EXCEPT !.threads = t]
         /\ Progress(i) => Len(t) = n /\ \A j \in 1 .. n : t[j].track = ths[j].track
         /\ ~Progress(i) => Len(t) = n - 1
  <2>1. CASE Progress(i)
    <3> DEFINE one == [ths[i] EXCEPT !.told = TRUE]
               t == [ths EXCEPT ![i] = one]
    <3>1. one \in Thread /\ one.track = ths[i].track
      BY <1>3 DEF Thread
    <3>2. snap' = [snap EXCEPT !.threads = t]
      BY <1>2, <2>1 DEF Progress, Sched, Schedulers
    <3> HIDE DEF one
    <3>3. t \in Seq(Thread) /\ Len(t) = n /\ \A j \in 1 .. n : t[j].track = ths[j].track
      BY <1>2, <1>3, <3>1
    <3> QED
      BY <2>1, <3>2, <3>3
  <2>2. CASE ~Progress(i)
    <3> DEFINE t == RemoveAt(ths, i)
    <3>1. snap' = [snap EXCEPT !.threads = t]
      BY <2>2 DEF Finish
    <3>2. t \in Seq(Thread) /\ Len(t) = n - 1
      BY <1>2, <1>3, RemoveAtIs
    <3> QED
      BY <2>2, <3>1, <3>2
  <2> QED
    BY <2>1, <2>2
<1>7. PICK t \in Seq(Thread) :
         /\ snap' = [snap EXCEPT !.threads = t]
         /\ Progress(i) => Len(t) = n /\ \A j \in 1 .. n : t[j].track = ths[j].track
         /\ ~Progress(i) => Len(t) = n - 1
  BY <1>6
<1>8. /\ snap' \in Sched /\ snap'.queue = snap.queue /\ snap'.activity = snap.activity
      /\ snap'.visible = snap.visible /\ snap'.in_flight = snap.in_flight
      /\ snap'.threads = t
  <2>1. /\ snap' \in Schedulers /\ snap'.queue = snap.queue
        /\ snap'.activity = snap.activity /\ snap'.latest = snap.latest
        /\ snap'.visible = snap.visible /\ snap'.in_flight = snap.in_flight
        /\ snap'.threads = t
    BY <1>2, <1>7 DEF Sched, Schedulers
  <2>2. OwnResults(snap')
    BY <1>2, <2>1 DEF Sched, OwnResults
  <2> QED
    BY <2>1, <2>2 DEF Sched
<1>9. Len(t) \in Nat /\ DOMAIN t = 1 .. Len(t) /\ Len(t) <= n
  BY <1>3, <1>7
<1>10. ASSUME ~shifted
       PROVE  /\ m.track = snap.in_flight /\ snap.in_flight # Nobody
              /\ ths # <<>> /\ Len(t) <= 1
              /\ \A j \in DOMAIN t : t[j].track = snap.in_flight
              /\ t = <<>> <=> m.kind # "Progress"
  <2>1. n <= 1 /\ \A j \in 1 .. n : ths[j].track = snap.in_flight
    BY <1>1, <1>3, <1>10 DEF Sound, Channel
  <2>2. n = 1
    <3>1. n \in Nat /\ i \in 1 .. n /\ n <= 1
      BY <1>3, <2>1
    <3> HIDE DEF n
    <3> QED
      BY <3>1
  <2>3. ths[i].track \in At
    BY <1>2, Somewhere
  <2>4. CASE Progress(i)
    <3>1. Len(t) = 1 /\ t # <<>>
      BY <1>7, <2>2, <2>4
    <3>2. m.kind = "Progress"
      BY <1>5, <1>7, <1>9, <2>4
    <3> QED
      BY <1>3, <1>5, <1>7, <1>9, <2>1, <2>2, <2>3, <2>4, <3>1, Somewhere
  <2>5. CASE ~Progress(i)
    <3>1. Len(t) = 0
      BY <1>7, <2>2, <2>5
    <3>2. t = <<>>
      BY <1>7, <3>1
    <3> QED
      BY <1>3, <1>5, <2>1, <2>2, <2>3, <2>5, <3>1, <3>2, Somewhere
  <2> QED
    BY <2>4, <2>5
<1>11. UNCHANGED <<entries, shown, costing, restoring, settings, parked, sweep,
                   left, seen, shifted>>
  BY Zenon DEF Progress, Finish
<1>12. IInv'
  BY ONLY <1>1, <1>5, <1>8, <1>10, <1>11, ReportKeeps, Zenon
<1>13. StartsIn(Showing(entries'))
  BY <1>8, <1>9, Zenon DEF StartsIn
<1> QED
  BY <1>12, <1>13

\* The session starts as the invariant has it.
LEMMA SoundInit == Init => IInv
<1> SUFFICES ASSUME Init PROVE IInv
  OBVIOUS
<1> DEFINE act == [p \in At |-> "None"]
           lat == [t \in Tracks |-> None]
           none == <<>>
<1>1. act \in [At -> Activities] /\ \A p \in At : act[p] = "None"
  BY DEF Activities
<1>2. lat \in [Tracks -> Run \cup {None}] /\ \A t \in Tracks : lat[t] = None
  OBVIOUS
<1>3. none \in Seq(Pending) /\ none \in Seq(Thread) /\ DOMAIN none = {} /\ Len(none) = 0
  OBVIOUS
<1>4. snap = [server |-> Configured, http |-> FALSE, queue |-> none,
              visible |-> {}, in_flight |-> Nobody, activity |-> act, cache |-> {},
              latest |-> lat, threads |-> none, refused |-> FALSE]
  BY DEF Init
<1> HIDE DEF act, lat, none
<1>5. /\ snap \in Schedulers /\ snap.queue = none /\ snap.threads = none
      /\ snap.activity = act /\ snap.latest = lat /\ snap.in_flight = Nobody
  BY <1>1, <1>2, <1>3, <1>4, ConfiguredAssumption DEF Schedulers, Activities
<1>6. snap \in Sched
  BY <1>2, <1>5 DEF Sched, OwnResults
<1>7. Rows(snap) /\ Lit(snap, Shows)
  BY <1>1, <1>3, <1>5, Somewhere DEF Rows, Lit, Waiting, Distinct
<1>8. Channel(snap, messages)
  BY <1>3, <1>5 DEF Init, Channel
<1>9. Types
  <2>1. settings \in [auto_snap : BOOLEAN, consent_host : Servers \cup {None},
                      prompt : BOOLEAN]
    BY ConfiguredAssumption DEF Init
  <2>2. parked \in Request
    BY DEF Init, Nothing, Request
  <2>3. left \in 0 .. Actions /\ Len(entries) <= Positions
    BY BoundsAssumption DEF Init
  <2>4. entries \in Seq(Tracks) /\ messages \in Seq(Message)
    BY DEF Init
  <2> QED
    BY <2>1, <2>2, <2>3, <2>4 DEF Init, Types
<1> QED
  BY <1>6, <1>7, <1>8, <1>9, IInvIs DEF Sound

\* Every step keeps the invariant, and the automatic run it starts is of a track that
\* is shown or was.
LEMMA SoundStep ==
    ASSUME IInv, [Next]_vars
    PROVE  IInv' /\ StartsIn(Showing(entries'))
<1>1. Types /\ Sound
  BY IInvIs
<1>2. CASE Frame
  <2>1. CASE QuietFrame
    <3>1. PICK connects \in BOOLEAN : FrameWith(NoLoad, {}, None, connects)
      BY <2>1 DEF QuietFrame
    <3>2. LoadOk(NoLoad)
      BY DEF LoadOk
    <3> QED
      BY <3>1, <3>2, FrameKeeps
  <2>2. ASSUME NEW load \in Loads, NEW connects \in BOOLEAN,
               FrameWith(load, {}, None, connects)
        PROVE  IInv' /\ StartsIn(Showing(entries'))
    <3>1. LoadOk(load)
      BY DEF Loads, LoadOk
    <3> QED
      BY <2>2, <3>1, FrameKeeps
  <2>3. ASSUME NEW t \in restoring, NEW connects \in BOOLEAN, NEW run \in Restorable(t),
               FrameWith(NoLoad, {t}, run, connects)
        PROVE  IInv' /\ StartsIn(Showing(entries'))
    <3>1. LoadOk(NoLoad)
      BY DEF LoadOk
    <3>2. t \in Tracks /\ {t} \in SUBSET Tracks
      BY <1>1 DEF Types
    <3>3. run # None => run \in Run
      BY <3>2 DEF Restorable, Run, Key
    <3> QED
      BY <2>3, <3>1, <3>2, <3>3, FrameKeeps
  <2> QED
    BY <1>2, <2>1, <2>2, <2>3 DEF Frame
<1>3. ASSUME NEW i \in DOMAIN snap.threads, Progress(i) \/ Finish(i)
      PROVE  IInv' /\ StartsIn(Showing(entries'))
  BY <1>3, WorkerKeeps
<1>4. DOMAIN entries \subseteq At
  BY <1>1, InWindow DEF Types
<1>5. ASSUME NEW p \in At, Click(p) PROVE IInv' /\ StartsIn(Showing(entries'))
  <2>1. [tracks |-> {p}, choice |-> None] \in Request
    BY DEF Request
  <2> QED
    BY <1>5, <2>1, AskKeeps DEF Click
<1>6. ASSUME NEW p \in At, Unload(p) PROVE IInv' /\ StartsIn(Showing(entries'))
  BY <1>6, UnloadKeeps
<1>7. ASSUME NEW c \in Costings, SnapAgainAs(c)
      PROVE  IInv' /\ StartsIn(Showing(entries'))
  <2>1. ASSUME NEW p \in DOMAIN entries, Ask([tracks |-> {p}, choice |-> c])
        PROVE  IInv' /\ StartsIn(Showing(entries'))
    <3>1. [tracks |-> {p}, choice |-> c] \in Request
      BY <1>4 DEF Request
    <3> QED
      BY <2>1, <3>1, AskKeeps
  <2>2. ASSUME Ask([tracks |-> DOMAIN entries, choice |-> c])
        PROVE  IInv' /\ StartsIn(Showing(entries'))
    <3>1. [tracks |-> DOMAIN entries, choice |-> c] \in Request
      BY <1>4 DEF Request
    <3> QED
      BY <2>2, <3>1, AskKeeps
  <2> QED
    BY <1>7, <2>1, <2>2 DEF SnapAgainAs
<1>8. CASE AcceptConsent
  BY <1>8, AcceptKeeps
<1>9. ASSUME NEW server \in Servers, set_server_url(server)
      PROVE  IInv' /\ StartsIn(Showing(entries'))
  BY <1>9, ServerKeeps
<1>10. CASE \/ DeclineConsent
            \/ \E auto \in BOOLEAN : ChooseAutomatic(auto)
            \/ \E t \in Tracks : Toggle(t)
            \/ UNCHANGED vars
  BY <1>10, UserKeeps
<1> QED
  BY <1>2, <1>3, <1>5, <1>6, <1>7, <1>8, <1>9, <1>10 DEF Next

\* The scheduler keeps its shape, and a result the track it is kept for.
THEOREM TypeCorrect == Spec => []TypeOK
<1>1. IInv => TypeOK
  BY DEF IInv
<1>2. IInv /\ [Next]_vars => IInv'
  BY SoundStep
<1> QED
  BY <1>1, <1>2, SoundInit, PTL DEF Spec

\* Until positions shift under an unfinished run, the rows say what happens
\* (request_snap, poll), however many tracks and whatever the workers answer.
THEOREM RowsTell == Spec => []RowsTellWhatRuns
<1>1. IInv => RowsTellWhatRuns
  <2> SUFFICES ASSUME IInv, ~shifted PROVE RowsTellWhatRuns
    BY DEF RowsTellWhatRuns
  <2>1. /\ snap \in Sched /\ messages \in Seq(Message)
        /\ Rows(snap) /\ Channel(snap, messages)
    BY IInvIs DEF Types, Sound
  <2>2. Unfinished(snap, messages) = IF snap.in_flight = Nobody THEN 0 ELSE 1
    BY <2>1, UnfinishedIs
  <2>3. \A i \in DOMAIN snap.threads : snap.threads[i].track = snap.in_flight
    BY <2>1 DEF Channel
  <2> QED
    BY <2>1, <2>2, <2>3 DEF RowsTellWhatRuns, Rows, Waiting, Distinct
<1>2. IInv /\ [Next]_vars => IInv'
  BY SoundStep
<1> QED
  BY <1>1, <1>2, SoundInit, PTL DEF Spec

\* The automatic run that StartedAuto sees is of a track that is shown or was.
LEMMA StartedIsShown ==
    ASSUME snap \in Sched, StartsIn(Showing(entries')), NEW p \in At, StartedAuto(p)
    PROVE  entries'[p] \in shown \cup seen
<1> DEFINE T == snap.threads
           n == Len(T)
           Of(s, i) == s.threads[i].track = p /\ s.threads[i].priority = "Auto"
           before == {i \in DOMAIN snap.threads : Of(snap, i)}
           after == {i \in DOMAIN snap'.threads : Of(snap', i)}
<1>1. n \in Nat /\ DOMAIN T = 1 .. n /\ T \in Seq(Thread)
  <2>1. T \in Seq(Thread)
    BY Fields
  <2> QED
    BY <2>1
<1>2. Len(snap'.threads) > n /\ Cardinality(after) > Cardinality(before)
  BY DEF StartedAuto
<1>3. PICK th \in Thread : /\ snap'.threads = Append(T, th)
                           /\ th.priority = "Auto" => th.track \in Showing(entries')
  <2>1. Len(snap'.threads) <= n \/ \E th \in Thread :
           /\ snap'.threads = Append(T, th)
           /\ th.priority = "Auto" => th.track \in Showing(entries')
    BY DEF StartsIn
  <2>2. CASE Len(snap'.threads) <= n
    <3> DEFINE l == Len(snap'.threads)
    <3>1. l > n /\ l <= n
      BY <1>2, <2>2
    <3>2. FALSE
      BY <1>1, <3>1
    <3> QED
      BY <3>2
  <2> QED
    BY <2>1, <2>2
<1>4. CASE th.track = p /\ th.priority = "Auto"
  BY <1>3, <1>4 DEF Showing
<1>5. CASE ~(th.track = p /\ th.priority = "Auto")
  <2>1. /\ DOMAIN snap'.threads = 1 .. n + 1 /\ snap'.threads[n + 1] = th
        /\ \A i \in 1 .. n : snap'.threads[i] = T[i]
    BY <1>1, <1>3
  <2>2. after = before
    <3>1. \A i \in 1 .. n + 1 : i \in 1 .. n \/ i = n + 1
      BY <1>1
    <3>2. \A i \in 1 .. n : i \in 1 .. n + 1
      BY <1>1
    <3> HIDE DEF n
    <3> QED
      BY <1>1, <1>5, <2>1, <3>1, <3>2
  <2>3. IsFiniteSet(before)
    <3>1. IsFiniteSet(1 .. n) /\ before \subseteq 1 .. n
      BY <1>1, FS_Interval
    <3> QED
      BY <3>1, FS_Subset
  <2>4. Cardinality(before) \in Nat
    BY <2>3, FS_CardinalityType
  <2> HIDE DEF before, after
  <2>5. ~(Cardinality(after) > Cardinality(before))
    BY <2>2, <2>4
  <2> QED
    BY <1>2, <2>5
<1> QED
  BY <1>4, <1>5

\* An automatic run starts for a track the map shows, or showed when the last frame
\* asked (next_eligible, set_visibility): the rest of the queue waits.
THEOREM HiddenStayParked == Spec => HiddenTracksStayParked
<1>1. IInv /\ [Next]_vars => IInv'
  BY SoundStep
<1>2. IInv /\ [Next]_vars
         => [\A p \in At : StartedAuto(p) => entries'[p] \in shown \cup seen]_vars
  <2> SUFFICES ASSUME IInv, [Next]_vars, NEW p \in At, StartedAuto(p)
               PROVE  entries'[p] \in shown \cup seen
    OBVIOUS
  <2>1. StartsIn(Showing(entries'))
    BY SoundStep
  <2>2. snap \in Sched
    BY IInvIs DEF Sound
  <2> QED
    BY <2>1, <2>2, StartedIsShown
<1> QED
  BY <1>1, <1>2, SoundInit, PTL DEF Spec, HiddenTracksStayParked

===============================================================================
