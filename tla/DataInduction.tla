--------------------------- MODULE DataInduction ---------------------------
(***************************************************************************)
(* Induction over the naturals in a form that names a set in place of a    *)
(* predicate, and what the recursive functions of the models are: the      *)
(* running states of a recursion exist, a fold over a sequence goes        *)
(* through them, and the last of a set of numbers is its maximum.          *)
(***************************************************************************)
EXTENDS Integers, Sequences, FiniteSets, SequencesExt, FiniteSetTheorems,
        SequenceTheorems, WellFoundedInduction, TLAPS

\* A set of naturals that is not empty has a least member.
LEMMA LeastNatural ==
    ASSUME NEW T \in SUBSET Nat, T # {}
    PROVE  \E x \in T : \A y \in T : x <= y
<1>1. OpToRel(<, Nat) = {ss \in Nat \X Nat : ss[1] < ss[2]}
  BY DEF OpToRel
<1>2. PICK x \in T : \A y \in T : ~(<<y, x>> \in OpToRel(<, Nat))
  BY NatLessThanWellFounded, WFMin, Zenon
<1>3. ASSUME NEW y \in T, y < x PROVE FALSE
  <2> DEFINE pair == <<y, x>>
  <2>1. pair \in Nat \X Nat /\ pair[1] < pair[2]
    BY <1>3
  <2>2. pair \in {ss \in Nat \X Nat : ss[1] < ss[2]}
    BY <2>1
  <2> QED
    BY <1>1, <1>2, <2>2
<1> QED
  BY <1>3

\* A set that holds 0 and, with a natural, the next one holds them all.
LEMMA Induction ==
    ASSUME NEW S, 0 \in S, \A n \in Nat : n \in S => n + 1 \in S
    PROVE  Nat \subseteq S
<1> DEFINE T == {n \in Nat : n \notin S}
<1> SUFFICES ASSUME T # {} PROVE FALSE
  OBVIOUS
<1>1. PICK x \in T : \A y \in T : x <= y
  BY LeastNatural
<1>2. x # 0
  OBVIOUS
<1>3. x - 1 \in Nat /\ x - 1 \notin T
  BY <1>1, <1>2
<1> QED
  BY <1>1, <1>3

\* Max finds the greatest of a bounded set of naturals.
LEMMA Greatest ==
    ASSUME NEW T \in SUBSET Nat, T # {}, NEW n \in Nat, \A x \in T : x <= n
    PROVE  Max(T) \in T /\ \A y \in T : y <= Max(T)
<1> DEFINE U == {n - x : x \in T}
<1>1. U \in SUBSET Nat /\ U # {}
  <2>1. \A x \in T : n - x \in Nat
    OBVIOUS
  <2> QED
    BY <2>1
<1>2. PICK u \in U : \A v \in U : u <= v
  BY <1>1, LeastNatural
<1>3. PICK x \in T : u = n - x
  OBVIOUS
<1>4. \A y \in T : n - y \in U
  OBVIOUS
<1>5. \A y \in T : x >= y
  BY <1>2, <1>3, <1>4
<1> QED
  BY <1>5 DEF Max

\* The running states of n steps from a base.
Running(g, n, D, base, step) ==
    /\ g \in [0 .. n -> D]
    /\ g[0] = base
    /\ \A i \in 1 .. n : g[i] = step[i][g[i - 1]]

\* Any chain of n steps from a first state has running states.
LEMMA Recursion ==
    ASSUME NEW n \in Nat, NEW D, NEW base \in D, NEW step \in [1 .. n -> [D -> D]]
    PROVE  \E g : Running(g, n, D, base, step)
<1> DEFINE S == {m \in Nat : m <= n => \E g : Running(g, m, D, base, step)}
<1>1. 0 \in S
  <2>1. Running([i \in 0 .. 0 |-> base], 0, D, base, step)
    BY DEF Running
  <2> QED
    BY <2>1
<1>2. ASSUME NEW m \in Nat, m \in S PROVE m + 1 \in S
  <2> SUFFICES ASSUME m + 1 <= n PROVE \E h : Running(h, m + 1, D, base, step)
    OBVIOUS
  <2>0. PICK g : Running(g, m, D, base, step)
    BY <1>2
  <2>1. /\ g \in [0 .. m -> D]
        /\ g[0] = base
        /\ \A i \in 1 .. m : g[i] = step[i][g[i - 1]]
    BY <2>0 DEF Running
  <2> DEFINE h == [i \in 0 .. m + 1 |-> IF i <= m THEN g[i] ELSE step[m + 1][g[m]]]
  <2>2. g[m] \in D /\ step[m + 1][g[m]] \in D
    BY <2>1
  <2>3. h \in [0 .. m + 1 -> D] /\ h[0] = base
    BY <2>1, <2>2
  <2>4. \A i \in 0 .. m : h[i] = g[i]
    OBVIOUS
  <2>5. h[m + 1] = step[m + 1][g[m]]
    <3>1. m + 1 \in 0 .. m + 1 /\ ~(m + 1 <= m)
      OBVIOUS
    <3> QED
      BY <3>1
  <2> HIDE DEF h
  <2>7. ASSUME NEW i \in 1 .. m + 1 PROVE h[i] = step[i][h[i - 1]]
    <3>1. CASE i = m + 1
      BY <2>4, <2>5, <3>1
    <3>2. CASE i \in 1 .. m
      BY <2>1, <2>4, <3>2
    <3> QED
      BY <3>1, <3>2
  <2>8. Running(h, m + 1, D, base, step)
    BY <2>3, <2>7 DEF Running
  <2> QED
    BY <2>8
<1>3. n \in S
  BY <1>1, <1>2, Induction
<1> QED
  BY <1>3

\* The recursion of a fold over positions, which takes the last one off first.
FoldSolution(h, m, D, base, step) ==
    /\ h \in [SUBSET (1 .. m) -> D]
    /\ \A t \in SUBSET (1 .. m) :
          h[t] = IF t = {} THEN base ELSE step[Max(t)][h[t \ {Max(t)}]]

\* The recursive function of a fold over 1 .. n exists, and its value goes through the
\* running states.
LEMMA FoldRecursion ==
    ASSUME NEW n \in Nat, NEW D, NEW base \in D, NEW step \in [1 .. n -> [D -> D]]
    PROVE  \E h : FoldSolution(h, n, D, base, step)
<1> DEFINE S == {m \in Nat : m <= n => \E h : FoldSolution(h, m, D, base, step)}
<1>1. 0 \in S
  <2> DEFINE h == [t \in SUBSET (1 .. 0) |-> base]
  <2>1. FoldSolution(h, 0, D, base, step)
    BY DEF FoldSolution
  <2> QED
    BY <2>1
<1>2. ASSUME NEW m \in Nat, m \in S PROVE m + 1 \in S
  <2> SUFFICES ASSUME m + 1 <= n PROVE \E h : FoldSolution(h, m + 1, D, base, step)
    OBVIOUS
  <2>0. PICK g : FoldSolution(g, m, D, base, step)
    BY <1>2
  <2>1. /\ g \in [SUBSET (1 .. m) -> D]
        /\ \A t \in SUBSET (1 .. m) :
              g[t] = IF t = {} THEN base ELSE step[Max(t)][g[t \ {Max(t)}]]
    BY <2>0 DEF FoldSolution
  <2> DEFINE h == [t \in SUBSET (1 .. m + 1) |->
                      IF m + 1 \in t THEN step[m + 1][g[t \ {m + 1}]] ELSE g[t]]
  <2>2. \A t \in SUBSET (1 .. m + 1) : /\ t \ {m + 1} \in SUBSET (1 .. m)
                                       /\ m + 1 \notin t => t \in SUBSET (1 .. m)
    OBVIOUS
  <2>3. h \in [SUBSET (1 .. m + 1) -> D]
    BY <2>1, <2>2
  <2>4. \A t \in SUBSET (1 .. m) : h[t] = g[t]
    OBVIOUS
  <2>5. \A t \in SUBSET (1 .. m + 1) :
           m + 1 \in t => h[t] = step[m + 1][g[t \ {m + 1}]]
    OBVIOUS
  <2> HIDE DEF h
  <2>6. ASSUME NEW t \in SUBSET (1 .. m + 1)
        PROVE  h[t] = IF t = {} THEN base ELSE step[Max(t)][h[t \ {Max(t)}]]
    <3>1. CASE m + 1 \in t
      <4>1. t \in SUBSET Nat /\ t # {} /\ \A x \in t : x <= m + 1
        BY <3>1
      <4>2. Max(t) \in t /\ m + 1 <= Max(t)
        BY <3>1, <4>1, Greatest
      <4>3. Max(t) = m + 1
        <5>1. Max(t) \in Nat /\ Max(t) <= m + 1
          BY <4>1, <4>2
        <5> QED
          BY <4>2, <5>1
      <4>4. h[t \ {m + 1}] = g[t \ {m + 1}]
        BY <2>2, <2>4
      <4> QED
        BY <2>5, <3>1, <4>3, <4>4
    <3>2. CASE m + 1 \notin t
      <4>1. t \in SUBSET (1 .. m) /\ t \ {Max(t)} \in SUBSET (1 .. m)
        BY <2>2, <3>2
      <4> QED
        BY <2>1, <2>4, <4>1
    <3> QED
      BY <3>1, <3>2
  <2>7. FoldSolution(h, m + 1, D, base, step)
    BY <2>3, <2>6 DEF FoldSolution
  <2> QED
    BY <2>7
<1>3. n \in S
  BY <1>1, <1>2, Induction
<1> QED
  BY <1>3

\* FlattenSeq goes through the concatenations of the first i sequences.
FlatSolution(f, n, seqs) ==
    f = [i \in 1 .. n |-> IF i = 1 THEN seqs[i] ELSE f[i - 1] \o seqs[i]]

\* The recursion of FlattenSeq: its solution, and what every solution is.
LEMMA FlatIs ==
    ASSUME NEW n \in Nat, NEW seqs, NEW D, <<>> \in D,
           \A i \in 1 .. n : \A s \in D : s \o seqs[i] \in D,
           \A i \in 1 .. n : <<>> \o seqs[i] = seqs[i]
    PROVE  \E flat \in [0 .. n -> D] :
              /\ flat[0] = <<>>
              /\ \A i \in 1 .. n : flat[i] = flat[i - 1] \o seqs[i]
              /\ \A f : FlatSolution(f, n, seqs) => \A i \in 1 .. n : f[i] = flat[i]
              /\ \E f : FlatSolution(f, n, seqs)
<1> DEFINE step == [i \in 1 .. n |-> [s \in D |-> s \o seqs[i]]]
           Then(s, i) == s \o seqs[i]
<1>1. \A i \in 1 .. n, s \in D : Then(s, i) \in D
  OBVIOUS
<1>2. \A i \in 1 .. n : Then(<<>>, i) = seqs[i]
  OBVIOUS
<1>3. step = [i \in 1 .. n |-> [s \in D |-> Then(s, i)]]
  OBVIOUS
<1>b. \A f : FlatSolution(f, n, seqs)
               <=> f = [i \in 1 .. n |-> IF i = 1 THEN seqs[i] ELSE Then(f[i - 1], i)]
  BY DEF FlatSolution
<1>c. SUFFICES \E flat \in [0 .. n -> D] :
              /\ flat[0] = <<>>
              /\ \A i \in 1 .. n : flat[i] = Then(flat[i - 1], i)
              /\ \A f : FlatSolution(f, n, seqs) => \A i \in 1 .. n : f[i] = flat[i]
              /\ \E f : FlatSolution(f, n, seqs)
  OBVIOUS
<1> HIDE DEF step, Then
<1>4. step \in [1 .. n -> [D -> D]] /\ \A i \in 1 .. n, s \in D : step[i][s] = Then(s, i)
  BY <1>1, <1>3
<1>5. PICK g \in [0 .. n -> D] :
         g[0] = <<>> /\ \A i \in 1 .. n : g[i] = step[i][g[i - 1]]
  <2> DEFINE base == <<>>
  <2>1. base \in D
    OBVIOUS
  <2> HIDE DEF base
  <2>2. PICK g : Running(g, n, D, base, step)
    BY <1>4, <2>1, Recursion
  <2> QED
    BY <2>2 DEF Running, base
<1>6. \A i \in 1 .. n : g[i] = Then(g[i - 1], i)
  BY <1>4, <1>5
<1>7. n # 0 => g[1] = seqs[1]
  BY <1>2, <1>5, <1>6
<1>8. \E f : FlatSolution(f, n, seqs)
  <2> DEFINE f == [i \in 1 .. n |-> g[i]]
  <2>1. \A i \in 1 .. n : f[i] = IF i = 1 THEN seqs[i] ELSE Then(f[i - 1], i)
    BY <1>6, <1>7
  <2>2. f = [i \in 1 .. n |-> f[i]]
    OBVIOUS
  <2> HIDE DEF f
  <2>3. f = [i \in 1 .. n |-> IF i = 1 THEN seqs[i] ELSE Then(f[i - 1], i)]
    BY <2>1, <2>2
  <2> QED
    BY <1>b, <2>3
<1>9. ASSUME NEW f, FlatSolution(f, n, seqs) PROVE \A i \in 1 .. n : f[i] = g[i]
  <2>1. \A i \in 1 .. n : f[i] = IF i = 1 THEN seqs[i] ELSE Then(f[i - 1], i)
    BY <1>9, <1>b
  <2> DEFINE A == {m \in Nat : m + 1 <= n => f[m + 1] = g[m + 1]}
  <2>2. 0 \in A
    BY <1>7, <2>1
  <2>3. ASSUME NEW m \in Nat, m \in A PROVE m + 1 \in A
    BY <1>6, <2>1, <2>3
  <2>4. Nat \subseteq A
    BY <2>2, <2>3, Induction
  <2> SUFFICES ASSUME NEW i \in 1 .. n PROVE f[i] = g[i]
    OBVIOUS
  <2> DEFINE m == i - 1
  <2>5. m \in Nat /\ m + 1 = i /\ m + 1 <= n
    OBVIOUS
  <2> HIDE DEF m
  <2>6. f[m + 1] = g[m + 1]
    BY <2>4, <2>5
  <2> QED
    BY <2>5, <2>6
<1> QED
  BY <1>5, <1>6, <1>8, <1>9

FlatRun(flat, seqs, S) ==
    /\ flat \in [0 .. Len(seqs) -> Seq(S)]
    /\ flat[0] = <<>>
    /\ \A i \in 1 .. Len(seqs) : flat[i] = flat[i - 1] \o seqs[i]

\* FlattenSeq is the last of the concatenations one after the other.
LEMMA FlattenIs ==
    ASSUME NEW S, NEW seqs \in Seq(Seq(S))
    PROVE  /\ FlattenSeq(seqs) \in Seq(S)
           /\ \E flat : /\ FlatRun(flat, seqs, S)
                       /\ FlattenSeq(seqs) = flat[Len(seqs)]
<1>1. Len(seqs) \in Nat /\ \A i \in 1 .. Len(seqs) : seqs[i] \in Seq(S)
  OBVIOUS
<1>2. PICK flat \in [0 .. Len(seqs) -> Seq(S)] :
         /\ flat[0] = <<>>
         /\ \A i \in 1 .. Len(seqs) : flat[i] = flat[i - 1] \o seqs[i]
         /\ \A f : FlatSolution(f, Len(seqs), seqs)
                      => \A i \in 1 .. Len(seqs) : f[i] = flat[i]
         /\ \E f : FlatSolution(f, Len(seqs), seqs)
  <2> DEFINE D == Seq(S)
             n == Len(seqs)
  <2>1. \A i \in 1 .. n : <<>> \o seqs[i] = seqs[i]
    BY <1>1, ConcatEmptySeq
  <2>2. \A i \in 1 .. n : \A s \in D : s \o seqs[i] \in D
    BY <1>1, ConcatProperties
  <2>3. <<>> \in D /\ n \in Nat
    BY <1>1
  <2> HIDE DEF D, n
  <2>4. \E flat \in [0 .. n -> D] :
              /\ flat[0] = <<>>
              /\ \A i \in 1 .. n : flat[i] = flat[i - 1] \o seqs[i]
              /\ \A f : FlatSolution(f, n, seqs) => \A i \in 1 .. n : f[i] = flat[i]
              /\ \E f : FlatSolution(f, n, seqs)
    BY <2>1, <2>2, <2>3, FlatIs
  <2> QED
    BY <2>4 DEF D, n
<1> DEFINE chosen == CHOOSE f : FlatSolution(f, Len(seqs), seqs)
<1>3. FlatSolution(chosen, Len(seqs), seqs)
  BY <1>2
<1>4. FlattenSeq(seqs) = IF Len(seqs) = 0 THEN seqs ELSE chosen[Len(seqs)]
  BY DEF FlattenSeq, FlatSolution
<1> HIDE DEF chosen
<1>5. FlattenSeq(seqs) = flat[Len(seqs)]
  <2>1. CASE Len(seqs) = 0
    BY <1>2, <1>4, <2>1
  <2>2. CASE Len(seqs) # 0
    <3>1. Len(seqs) \in 1 .. Len(seqs)
      BY <1>1, <2>2
    <3>2. chosen[Len(seqs)] = flat[Len(seqs)]
      BY <1>2, <1>3, <3>1
    <3> QED
      BY <1>4, <2>2, <3>2
  <2> QED
    BY <2>1, <2>2
<1>6. FlatRun(flat, seqs, S)
  BY <1>2 DEF FlatRun
<1>7. flat[Len(seqs)] \in Seq(S)
  BY <1>1, <1>2
<1> QED
  BY <1>5, <1>6, <1>7

\* Where a member of one of the sequences stands once they are put together:
\* the i-th of them ends at ends[i].
EndsOf(ends, seqs) ==
    /\ ends \in [0 .. Len(seqs) -> Nat]
    /\ ends[0] = 0
    /\ \A i \in 1 .. Len(seqs) : ends[i] = ends[i - 1] + Len(seqs[i])

Stands(flat, ends, seqs, k) ==
    /\ Len(flat[k]) = ends[k]
    /\ \A i \in 1 .. k :
          /\ ends[i] <= ends[k]
          /\ \A m \in 1 .. Len(seqs[i]) : flat[k][ends[i - 1] + m] = seqs[i][m]

\* One concatenation of them.
LEMMA FlattenStep ==
    ASSUME NEW S, NEW seqs \in Seq(Seq(S)), NEW flat, FlatRun(flat, seqs, S),
           NEW i \in 1 .. Len(seqs)
    PROVE  /\ flat[i - 1] \in Seq(S) /\ seqs[i] \in Seq(S)
           /\ flat[i] = flat[i - 1] \o seqs[i]
BY DEF FlatRun

\* Places behind a start that are before an end.
LEMMA Within ==
    ASSUME NEW a \in Nat, NEW l \in Nat, NEW k \in Nat, a + l <= k
    PROVE  \A m \in 1 .. l : a + m \in 1 .. k
OBVIOUS

\* The members of two sequences put together.
LEMMA ConcatAt ==
    ASSUME NEW S, NEW s \in Seq(S), NEW t \in Seq(S)
    PROVE  /\ s \o t \in Seq(S)
           /\ Len(s \o t) = Len(s) + Len(t)
           /\ \A j \in 1 .. Len(s) : (s \o t)[j] = s[j]
           /\ \A m \in 1 .. Len(t) : (s \o t)[Len(s) + m] = t[m]
<1> DEFINE r == s \o t
           n == Len(s)
           l == Len(t)
<1>1. /\ r \in Seq(S) /\ Len(r) = n + l /\ n \in Nat /\ l \in Nat
      /\ \A i \in 1 .. n + l : r[i] = IF i <= n THEN s[i] ELSE t[i - n]
  BY ConcatProperties
<1> HIDE DEF r, n, l
<1>2. \A j \in 1 .. n : r[j] = s[j]
  BY <1>1
<1>3. ASSUME NEW m \in 1 .. l PROVE r[n + m] = t[m]
  <2>1. n + m \in 1 .. n + l /\ ~(n + m <= n) /\ (n + m) - n = m
    BY <1>1
  <2> QED
    BY <1>1, <2>1
<1> QED
  BY <1>1, <1>2, <1>3 DEF r, n, l

\* One of the ends.
LEMMA EndsStep ==
    ASSUME NEW S, NEW seqs \in Seq(Seq(S)), NEW ends, EndsOf(ends, seqs),
           NEW i \in 1 .. Len(seqs)
    PROVE  /\ ends[i] \in Nat /\ ends[i - 1] \in Nat /\ Len(seqs[i]) \in Nat
           /\ ends[i] = ends[i - 1] + Len(seqs[i])
<1>1. i \in 0 .. Len(seqs) /\ i - 1 \in 0 .. Len(seqs) /\ seqs[i] \in Seq(S)
  OBVIOUS
<1>2. ends[i] \in Nat /\ ends[i - 1] \in Nat
  BY <1>1 DEF EndsOf
<1> QED
  BY <1>1, <1>2 DEF EndsOf

\* A concatenation adds its sequence behind the ones that stand.
LEMMA StandsStep ==
    ASSUME NEW S, NEW seqs \in Seq(Seq(S)), NEW flat, FlatRun(flat, seqs, S),
           NEW ends, EndsOf(ends, seqs), NEW k \in Nat, k + 1 <= Len(seqs),
           Stands(flat, ends, seqs, k)
    PROVE  Stands(flat, ends, seqs, k + 1)
<1>1. Len(seqs) \in Nat /\ k + 1 \in 1 .. Len(seqs) /\ (k + 1) - 1 = k
  OBVIOUS
<1>2. /\ flat[k] \in Seq(S) /\ seqs[k + 1] \in Seq(S)
      /\ flat[k + 1] = flat[k] \o seqs[k + 1]
  BY <1>1, FlattenStep
<1>3. /\ ends[k] \in Nat /\ ends[k + 1] \in Nat /\ Len(seqs[k + 1]) \in Nat
      /\ ends[k + 1] = ends[k] + Len(seqs[k + 1])
  BY <1>1, EndsStep
<1>4. Len(flat[k]) = ends[k]
  BY DEF Stands
<1>5. /\ Len(flat[k + 1]) = ends[k + 1]
      /\ \A j \in 1 .. ends[k] : flat[k + 1][j] = flat[k][j]
      /\ \A m \in 1 .. Len(seqs[k + 1]) : flat[k + 1][ends[k] + m] = seqs[k + 1][m]
  <2> DEFINE s == flat[k]
             t == seqs[k + 1]
  <2>1. /\ Len(s \o t) = Len(s) + Len(t)
        /\ \A j \in 1 .. Len(s) : (s \o t)[j] = s[j]
        /\ \A m \in 1 .. Len(t) : (s \o t)[Len(s) + m] = t[m]
    <3>1. s \in Seq(S) /\ t \in Seq(S)
      BY <1>2
    <3> HIDE DEF s, t
    <3> QED
      BY <3>1, ConcatAt
  <2>2. flat[k + 1] = s \o t /\ Len(s) = ends[k] /\ ends[k + 1] = ends[k] + Len(t)
    BY <1>2, <1>3, <1>4
  <2> HIDE DEF s
  <2>3. /\ Len(flat[k + 1]) = ends[k + 1]
        /\ \A j \in 1 .. ends[k] : flat[k + 1][j] = s[j]
        /\ \A m \in 1 .. Len(t) : flat[k + 1][ends[k] + m] = t[m]
    <3> HIDE DEF t
    <3> QED
      BY <2>1, <2>2
  <2> QED
    BY <2>3 DEF s
<1>6. ASSUME NEW i \in 1 .. k + 1
      PROVE  /\ ends[i] <= ends[k + 1]
             /\ \A m \in 1 .. Len(seqs[i]) :
                   flat[k + 1][ends[i - 1] + m] = seqs[i][m]
  <2>1. CASE i = k + 1
    BY <1>1, <1>3, <1>5, <2>1
  <2>2. CASE i \in 1 .. k
    <3>1. /\ ends[i] <= ends[k]
          /\ \A m \in 1 .. Len(seqs[i]) : flat[k][ends[i - 1] + m] = seqs[i][m]
      BY <2>2 DEF Stands
    <3>2. i \in 1 .. Len(seqs)
      BY <1>1, <2>2
    <3>3. /\ ends[i] \in Nat /\ ends[i - 1] \in Nat /\ Len(seqs[i]) \in Nat
          /\ ends[i] = ends[i - 1] + Len(seqs[i])
      BY <3>2, EndsStep
    <3>4. \A m \in 1 .. Len(seqs[i]) : ends[i - 1] + m \in 1 .. ends[k]
      BY <1>3, <3>1, <3>3, Within
    <3>5. \A m \in 1 .. Len(seqs[i]) : flat[k + 1][ends[i - 1] + m] = seqs[i][m]
      BY <1>5, <3>1, <3>4
    <3> QED
      BY <1>3, <3>1, <3>3, <3>5
  <2> QED
    BY <2>1, <2>2
<1> QED
  BY <1>5, <1>6 DEF Stands

\* Each of the sequences stands in the flattened one where those before it end.
LEMMA FlattenAt ==
    ASSUME NEW S, NEW seqs \in Seq(Seq(S)), NEW ends, EndsOf(ends, seqs)
    PROVE  /\ FlattenSeq(seqs) \in Seq(S)
           /\ Len(FlattenSeq(seqs)) = ends[Len(seqs)]
           /\ \A i \in 1 .. Len(seqs) :
                 /\ ends[i] <= ends[Len(seqs)]
                 /\ \A m \in 1 .. Len(seqs[i]) :
                       FlattenSeq(seqs)[ends[i - 1] + m] = seqs[i][m]
<1>1. Len(seqs) \in Nat
  OBVIOUS
<1>2. PICK flat : FlatRun(flat, seqs, S) /\ FlattenSeq(seqs) = flat[Len(seqs)]
  BY FlattenIs
<1> DEFINE A == {k \in Nat : k <= Len(seqs) => Stands(flat, ends, seqs, k)}
<1>3. 0 \in A
  <2>1. flat[0] = <<>> /\ ends[0] = 0
    BY <1>2 DEF FlatRun, EndsOf
  <2> QED
    BY <2>1 DEF Stands
<1>4. ASSUME NEW k \in Nat, k \in A PROVE k + 1 \in A
  BY <1>1, <1>2, <1>4, StandsStep
<1>5. Stands(flat, ends, seqs, Len(seqs))
  <2>1. Nat \subseteq A
    BY <1>3, <1>4, Induction
  <2> QED
    BY <1>1, <2>1
<1> QED
  BY <1>1, <1>2, <1>5, FlattenIs DEF Stands

\* The running sums of n sizes.
Sums(f, n, size) == f = [i \in 0 .. n |-> IF i = 0 THEN 0 ELSE f[i - 1] + size[i]]

\* One of the running sums.
LEMMA SumsStep ==
    ASSUME NEW n \in Nat, NEW size \in [1 .. n -> Nat], NEW f, Sums(f, n, size),
           NEW i \in 1 .. n
    PROVE  f[i] = f[i - 1] + size[i]
BY DEF Sums

\* Running sums exist, and are natural numbers from 0 on.
LEMMA SumsAre ==
    ASSUME NEW n \in Nat, NEW size \in [1 .. n -> Nat]
    PROVE  /\ \E f : Sums(f, n, size)
           /\ \A f : Sums(f, n, size) => f \in [0 .. n -> Nat] /\ f[0] = 0
<1> DEFINE step == [i \in 1 .. n |-> [a \in Nat |-> a + size[i]]]
<1>1. /\ step \in [1 .. n -> [Nat -> Nat]] /\ 0 \in Nat
      /\ \A i \in 1 .. n, a \in Nat : step[i][a] = a + size[i]
  OBVIOUS
<1> HIDE DEF step
<1>2. PICK g : Running(g, n, Nat, 0, step)
  BY <1>1, Recursion
<1>3. g \in [0 .. n -> Nat] /\ g[0] = 0
  BY <1>2 DEF Running
<1>4. Sums(g, n, size)
  <2>1. \A i \in 0 .. n : g[i] = IF i = 0 THEN 0 ELSE g[i - 1] + size[i]
    <3> SUFFICES ASSUME NEW i \in 1 .. n PROVE g[i] = g[i - 1] + size[i]
      BY <1>3
    <3>1. g[i] = step[i][g[i - 1]]
      BY <1>2 DEF Running
    <3>2. g[i - 1] \in Nat
      BY <1>3
    <3> QED
      BY <1>1, <3>1, <3>2
  <2>2. g = [i \in 0 .. n |-> g[i]]
    BY <1>3
  <2> QED
    BY <2>1, <2>2 DEF Sums
<1>5. ASSUME NEW f, Sums(f, n, size) PROVE f \in [0 .. n -> Nat] /\ f[0] = 0
  <2>1. f = [i \in 0 .. n |-> f[i]] /\ f[0] = 0
    BY <1>5 DEF Sums
  <2> DEFINE A == {m \in Nat : m <= n => f[m] \in Nat}
  <2>2. 0 \in A
    BY <2>1
  <2>3. ASSUME NEW m \in Nat, m \in A PROVE m + 1 \in A
    <3> SUFFICES ASSUME m + 1 <= n PROVE f[m + 1] \in Nat
      OBVIOUS
    <3>1. m + 1 \in 1 .. n /\ (m + 1) - 1 = m
      OBVIOUS
    <3>2. f[m + 1] = f[m] + size[m + 1]
      BY <1>5, <3>1, SumsStep
    <3> QED
      BY <2>3, <3>1, <3>2
  <2>4. Nat \subseteq A
    BY <2>2, <2>3, Induction
  <2>5. \A i \in 0 .. n : f[i] \in Nat
    BY <2>4
  <2> HIDE DEF A
  <2> QED
    BY <2>1, <2>5
<1> QED
  BY <1>4, <1>5


\* Finitely many naturals have a bound.
LEMMA Bounded ==
    ASSUME NEW n \in Nat, NEW f \in [1 .. n -> Nat]
    PROVE  \E b \in Nat : \A i \in 1 .. n : f[i] <= b
<1> DEFINE Has(m) == \E b \in Nat : \A i \in 1 .. m : f[i] <= b
           A == {m \in Nat : m <= n => Has(m)}
<1>1. 0 \in A
  <2>1. \A i \in 1 .. 0 : f[i] <= 0
    OBVIOUS
  <2> QED
    BY <2>1
<1>2. ASSUME NEW m \in Nat, m \in A, m + 1 <= n PROVE Has(m + 1)
  <2>1. PICK b \in Nat : \A i \in 1 .. m : f[i] <= b
    BY <1>2
  <2>2. f[m + 1] \in Nat /\ \A i \in 1 .. m : f[i] \in Nat
    BY <1>2
  <2> DEFINE c == b + f[m + 1]
  <2>3. c \in Nat /\ b <= c /\ f[m + 1] <= c
    BY <2>2
  <2> HIDE DEF c
  <2>4. ASSUME NEW i \in 1 .. m + 1 PROVE f[i] <= c
    <3>1. CASE i = m + 1
      BY <2>3, <3>1
    <3>2. CASE i \in 1 .. m
      BY <2>1, <2>2, <2>3, <3>2
    <3> QED
      BY <3>1, <3>2
  <2> QED
    BY <2>3, <2>4
<1> HIDE DEF Has
<1>3. \A m \in Nat : m \in A => m + 1 \in A
  BY <1>2
<1> HIDE DEF A
<1>4. Nat \subseteq A
  BY <1>1, <1>3, Induction
<1>5. n \in A
  BY <1>4
<1> QED
  BY <1>5 DEF A, Has

\* What a fold over 1 .. n takes off first, and what is left.
LEMMA LastOff ==
    ASSUME NEW n \in Nat
    PROVE  /\ \A t \in SUBSET (1 .. n) : t # {} => /\ Max(t) \in 1 .. n
                                                   /\ t \ {Max(t)} \in SUBSET (1 .. n)
           /\ \A m \in Nat : /\ Max(1 .. m + 1) = m + 1
                             /\ (1 .. m + 1) \ {Max(1 .. m + 1)} = 1 .. m
<1>1. ASSUME NEW t \in SUBSET (1 .. n), t # {}
      PROVE  Max(t) \in 1 .. n /\ t \ {Max(t)} \in SUBSET (1 .. n)
  <2>1. t \in SUBSET Nat /\ \A x \in t : x <= n
    OBVIOUS
  <2>2. Max(t) \in t
    BY <1>1, <2>1, Greatest
  <2> QED
    BY <2>2
<1>2. ASSUME NEW m \in Nat
      PROVE  Max(1 .. m + 1) = m + 1 /\ (1 .. m + 1) \ {Max(1 .. m + 1)} = 1 .. m
  <2> DEFINE t == 1 .. m + 1
  <2>1. t \in SUBSET Nat /\ m + 1 \in t /\ \A x \in t : x <= m + 1
    OBVIOUS
  <2>2. Max(t) \in t /\ m + 1 <= Max(t)
    <3> HIDE DEF t
    <3> QED
      BY <2>1, Greatest
  <2>3. Max(t) = m + 1
    <3> DEFINE x == Max(t)
    <3>1. x \in Nat /\ x <= m + 1 /\ m + 1 <= x
      BY <2>1, <2>2
    <3> HIDE DEF x
    <3>2. x = m + 1
      BY <3>1
    <3> QED
      BY <3>2 DEF x
  <2>4. t \ {m + 1} = 1 .. m
    OBVIOUS
  <2> QED
    BY <2>3, <2>4
<1> QED
  BY <1>1, <1>2

\* A function that recurs as a fold does, where what it recurs on is in D.
FoldFollows(f, n, D, base, step) ==
    \A t \in SUBSET (1 .. n) :
        /\ t = {} => f[t] = base
        /\ t # {} /\ f[t \ {Max(t)}] \in D => f[t] = step[Max(t)][f[t \ {Max(t)}]]

\* Such a function ends where the running states do.
LEMMA FoldReaches ==
    ASSUME NEW n \in Nat, NEW D, NEW base \in D, NEW step \in [1 .. n -> [D -> D]],
           NEW f, FoldFollows(f, n, D, base, step)
    PROVE  \E g : Running(g, n, D, base, step) /\ f[1 .. n] = g[n]
<1>1. PICK g : Running(g, n, D, base, step)
  BY Recursion
<1>2. /\ g \in [0 .. n -> D]
      /\ g[0] = base
      /\ \A i \in 1 .. n : g[i] = step[i][g[i - 1]]
  BY <1>1 DEF Running
<1> DEFINE A == {m \in Nat : m <= n => f[1 .. m] = g[m]}
<1>3. 0 \in A
  <2>1. 1 .. 0 = {}
    OBVIOUS
  <2>2. f[1 .. 0] = base
    BY <2>1 DEF FoldFollows
  <2> QED
    BY <1>2, <2>2
<1>4. ASSUME NEW m \in Nat, m \in A PROVE m + 1 \in A
  <2> SUFFICES ASSUME m + 1 <= n PROVE f[1 .. m + 1] = g[m + 1]
    OBVIOUS
  <2> DEFINE t == 1 .. m + 1
  <2> HIDE DEF A
  <2>1. t \in SUBSET (1 .. n) /\ t # {} /\ m + 1 \in 1 .. n /\ m \in 0 .. n
    <3>1. m + 1 \in t /\ m + 1 \in 1 .. n /\ m \in 0 .. n
      OBVIOUS
    <3>2. t \in SUBSET (1 .. n)
      OBVIOUS
    <3> QED
      BY <3>1, <3>2
  <2>2. Max(t) = m + 1 /\ t \ {Max(t)} = 1 .. m
    BY LastOff
  <2>3. f[1 .. m] = g[m] /\ g[m] \in D
    BY <1>2, <1>4, <2>1 DEF A
  <2> HIDE DEF t
  <2>4. f[t] = step[m + 1][g[m]]
    BY <2>1, <2>2, <2>3 DEF FoldFollows
  <2>5. g[m + 1] = step[m + 1][g[m]]
    <3>1. (m + 1) - 1 = m
      OBVIOUS
    <3> QED
      BY <1>2, <2>1, <3>1
  <2> QED
    BY <2>4, <2>5 DEF t
<1>5. f[1 .. n] = g[n]
  <2>1. n \in A
    BY <1>3, <1>4, Induction
  <2> QED
    BY <2>1
<1> QED
  BY <1>1, <1>5

\* A sequence without the member at i: those before it, and those after it.
LEMMA RemoveAtIs ==
    ASSUME NEW S, NEW s \in Seq(S), NEW i \in 1 .. Len(s)
    PROVE  /\ RemoveAt(s, i) \in Seq(S)
           /\ Len(RemoveAt(s, i)) = Len(s) - 1
           /\ \A j \in 1 .. Len(s) - 1 :
                 RemoveAt(s, i)[j] = IF j < i THEN s[j] ELSE s[j + 1]
<1> DEFINE n == Len(s)
           p == SubSeq(s, 1, i - 1)
           q == SubSeq(s, i + 1, n)
<1>1. n \in Nat /\ i \in 1 .. n
  OBVIOUS
<1>2. p \in Seq(S) /\ Len(p) = i - 1 /\ \A j \in 1 .. i - 1 : p[j] = s[j]
  OBVIOUS
<1>3. q \in Seq(S) /\ Len(q) = n - i /\ \A j \in 1 .. n - i : q[j] = s[i + j]
  OBVIOUS
<1>4. RemoveAt(s, i) = p \o q
  BY DEF RemoveAt
<1> HIDE DEF p, q, n
<1>5. /\ p \o q \in Seq(S) /\ Len(p \o q) = Len(p) + Len(q)
      /\ \A j \in 1 .. Len(p) : (p \o q)[j] = p[j]
      /\ \A m \in 1 .. Len(q) : (p \o q)[Len(p) + m] = q[m]
  <2>1. p \in Seq(S) /\ q \in Seq(S)
    BY <1>2, <1>3
  <2> QED
    BY <2>1, ConcatAt
<1>6. ASSUME NEW j \in 1 .. n - 1
      PROVE  (p \o q)[j] = IF j < i THEN s[j] ELSE s[j + 1]
  <2>1. CASE j < i
    <3>1. j \in 1 .. i - 1
      BY <1>1, <2>1
    <3> QED
      BY <1>2, <1>5, <2>1, <3>1
  <2>2. CASE ~(j < i)
    <3> DEFINE m == j - (i - 1)
    <3>1. m \in 1 .. n - i /\ (i - 1) + m = j /\ i + m = j + 1
      BY <1>1, <2>2
    <3> HIDE DEF m
    <3>2. (p \o q)[j] = q[m]
      BY <1>2, <1>3, <1>5, <3>1
    <3>3. q[m] = s[j + 1]
      BY <1>3, <3>1
    <3> QED
      BY <2>2, <3>2, <3>3
  <2> QED
    BY <2>1, <2>2
<1>7. Len(p \o q) = n - 1
  BY <1>1, <1>2, <1>3, <1>5
<1> QED
  BY <1>4, <1>5, <1>6, <1>7 DEF n

=============================================================================
