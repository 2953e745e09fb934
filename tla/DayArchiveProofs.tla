-------------------------- MODULE DayArchiveProofs --------------------------
(***************************************************************************)
(* An archive of fetched days, for any days, any numbers of rows and of    *)
(* fetches, and whatever stops an operation: the types, that every entry   *)
(* of the index names rows of its own fetch, that an open puts the columns *)
(* right, and that the archive implements the store of DayStore.           *)
(***************************************************************************)
EXTENDS DayArchive, DataInduction

USE DEF Mark

\* The columns, by name.
LEMMA NameSets ==
    /\ ToSet(DataColumns) = {"id", "begin", "peak"}
    /\ ToSet(IndexColumns) = {"day", "offset", "count", "fetched_at"}
    /\ Columns = {"id", "begin", "peak", "day", "offset", "count", "fetched_at"}
    /\ Len(DataColumns) = 3 /\ DOMAIN DataColumns = 1 .. 3
    /\ Len(IndexColumns) = 4 /\ DOMAIN IndexColumns = 1 .. 4
    /\ \A i \in 1 .. 3 : DataColumns[i] \in ToSet(DataColumns)
    /\ \A i \in 1 .. 4 : IndexColumns[i] \in ToSet(IndexColumns)
<1>1. Len(DataColumns) = 3 /\ DOMAIN DataColumns = 1 .. 3
  BY DEF DataColumns
<1>2. Len(IndexColumns) = 4 /\ DOMAIN IndexColumns = 1 .. 4
  BY DEF IndexColumns
<1>3. ToSet(DataColumns) = {"id", "begin", "peak"}
  <2>1. 1 .. 3 = {1, 2, 3}
    OBVIOUS
  <2> QED
    BY <1>1, <2>1 DEF DataColumns, ToSet
<1>4. ToSet(IndexColumns) = {"day", "offset", "count", "fetched_at"}
  <2>1. 1 .. 4 = {1, 2, 3, 4}
    OBVIOUS
  <2> QED
    BY <1>2, <2>1 DEF IndexColumns, ToSet
<1>5. \A i \in 1 .. 3 : DataColumns[i] \in ToSet(DataColumns)
  BY <1>1 DEF ToSet
<1>6. \A i \in 1 .. 4 : IndexColumns[i] \in ToSet(IndexColumns)
  BY <1>2 DEF ToSet
<1> QED
  BY <1>1, <1>2, <1>3, <1>4, <1>5, <1>6 DEF Columns

-----------------------------------------------------------------------------
\* Everything the file holds under a name, and its type there.
Names == Columns \cup {Mark}

TypeOf(name) ==
    IF name = Mark THEN {"Settled", "InFlight"}
    ELSE IF name \in ToSet(DataColumns) THEN Seq(AnyRow) \cup {Missing}
    ELSE IF name = "day" THEN Seq(Days)
    ELSE IF name = "fetched_at" THEN Seq(1 .. MaxFetches)
    ELSE Seq(Nat)

\* The types, with the exact columns of the file: TypeOK, name by name.
Typed ==
    /\ DOMAIN file = Names
    /\ \A name \in Names : file[name] \in TypeOf(name)
    /\ fetched \in Seq([day : Days, rows : RowCounts])
    /\ Len(fetched) <= MaxFetches
    /\ session \in {"Open", "Closed", "Refused"}
    /\ stopped \subseteq Stops

\* Which type each name has.
LEMMA TypeOfNames ==
    /\ TypeOf(Mark) = {"Settled", "InFlight"}
    /\ \A c \in ToSet(DataColumns) : TypeOf(c) = Seq(AnyRow) \cup {Missing}
    /\ TypeOf("day") = Seq(Days)
    /\ TypeOf("offset") = Seq(Nat)
    /\ TypeOf("count") = Seq(Nat)
    /\ TypeOf("fetched_at") = Seq(1 .. MaxFetches)
    /\ Names = {Mark} \cup ToSet(DataColumns) \cup ToSet(IndexColumns)
BY NameSets DEF TypeOf, Names, Columns

\* An emptied column has its type.
LEMMA EmptyFits ==
    ASSUME NEW c \in Columns
    PROVE  c \in Names /\ <<>> \in TypeOf(c)
<1>1. c \in ToSet(DataColumns) \/ c \in ToSet(IndexColumns)
  BY DEF Columns
<1>2. \A S : <<>> \in Seq(S)
  OBVIOUS
<1>3. CASE c \in ToSet(DataColumns)
  BY <1>2, <1>3, TypeOfNames DEF Names
<1>4. CASE c \in ToSet(IndexColumns)
  <2>1. \E S : TypeOf(c) = Seq(S)
    BY <1>4, TypeOfNames, NameSets
  <2> QED
    BY <1>2, <2>1 DEF Names
<1> QED
  BY <1>1, <1>3, <1>4

\* The types name by name are those of TypeOK.
LEMMA TypedIsTypeOK == Typed => TypeOK
BY NameSets, TypeOfNames DEF Typed, TypeOK, Names

\* A write of a value of the type its column has.
AnyWrite ==
    {w \in [name : Names, to : UNION {TypeOf(name) : name \in Names},
            phase : Phases, possible : BOOLEAN] : w.to \in TypeOf(w.name)}

\* What is known of a write that can be made, and of any write.
Makes(w, name, to, phase) ==
    w \in AnyWrite /\ w.name = name /\ w.to = to /\ w.phase = phase /\ w.possible
Fits(w, name, phase) == w \in AnyWrite /\ w.name = name /\ w.phase = phase

\* A write that can be made is one.
LEMMA WriteMakes ==
    ASSUME NEW name \in Names, NEW to \in TypeOf(name), NEW phase \in Phases
    PROVE  Makes(Write(name, to, phase, TRUE), name, to, phase)
BY DEF Write, AnyWrite, Makes

\* A write that cannot be made still names a column and a value of its type.
LEMMA WriteFits ==
    ASSUME NEW name \in Names, NEW to \in TypeOf(name), NEW phase \in Phases
    PROVE  Fits(Write(name, to, phase, FALSE), name, phase)
BY DEF Write, AnyWrite, Fits

\* A write that can be made is a write.
LEMMA MakesFits ==
    ASSUME NEW w, NEW name, NEW to, NEW phase, Makes(w, name, to, phase)
    PROVE  Fits(w, name, phase)
BY DEF Makes, Fits

\* After k writes a column is what the last of them to it made it, or, where none
\* was to it, what it was.
LEMMA AfterIs ==
    ASSUME NEW writes, NEW k \in Nat, NEW name \in DOMAIN file
    PROVE  /\ DOMAIN After(writes, k) = DOMAIN file
           /\ (\A i \in 1 .. k : writes[i].name # name)
                => After(writes, k)[name] = file[name]
           /\ \A i \in 1 .. k :
                 /\ writes[i].name = name
                 /\ \A j \in i + 1 .. k : writes[j].name # name
                 => After(writes, k)[name] = writes[i].to
           /\ \/ After(writes, k)[name] = file[name]
              \/ \E i \in 1 .. k : /\ writes[i].name = name
                                   /\ After(writes, k)[name] = writes[i].to
<1> DEFINE made == {i \in 1 .. k : writes[i].name = name}
<1>1. DOMAIN After(writes, k) = DOMAIN file
  BY DEF After
<1>2. After(writes, k)[name] = IF made = {} THEN file[name] ELSE writes[Max(made)].to
  BY DEF After
<1>3. made \in SUBSET Nat /\ \A x \in made : x <= k
  OBVIOUS
<1>4. made # {} => Max(made) \in made /\ \A y \in made : y <= Max(made)
  BY <1>3, Greatest
<1>5. ASSUME NEW i \in 1 .. k, writes[i].name = name,
             \A j \in i + 1 .. k : writes[j].name # name
      PROVE  made # {} /\ Max(made) = i
  <2>1. i \in made
    BY <1>5
  <2>2. Max(made) \in 1 .. k /\ writes[Max(made)].name = name /\ i <= Max(made)
    BY <1>4, <2>1
  <2> QED
    BY <1>5, <2>1, <2>2
<1> QED
  BY <1>1, <1>2, <1>4, <1>5

\* An operation whose writes are all possible can reach its last.
LEMMA ReachIs ==
    ASSUME NEW writes \in Seq(AnyWrite)
    PROVE  /\ Reach(writes) \in 0 .. Len(writes)
           /\ (\A i \in 1 .. Len(writes) : writes[i].possible)
                => Reach(writes) = Len(writes)
           /\ \A i \in 1 .. Len(writes) : ~writes[i].possible => Reach(writes) < i
<1> DEFINE refused == {i \in DOMAIN writes : ~writes[i].possible}
<1>1. refused \in SUBSET Nat /\ DOMAIN writes = 1 .. Len(writes) /\ Len(writes) \in Nat
  OBVIOUS
<1>2. Reach(writes) = IF refused = {} THEN Len(writes) ELSE Min(refused) - 1
  BY DEF Reach
<1>3. refused # {} => Min(refused) \in refused
  <2>1. SUFFICES ASSUME refused # {} PROVE Min(refused) \in refused
    OBVIOUS
  <2>2. \E x \in refused : \A y \in refused : x <= y
    BY <1>1, <2>1, LeastNatural
  <2> QED
    BY <2>2 DEF Min
<1>4. (\A i \in 1 .. Len(writes) : writes[i].possible) => refused = {}
  OBVIOUS
<1>5. /\ refused \subseteq 1 .. Len(writes)
      /\ \A i \in 1 .. Len(writes) : ~writes[i].possible => i \in refused
  OBVIOUS
<1>l. refused # {} => \A i \in refused : Min(refused) <= i
  <2>1. SUFFICES ASSUME refused # {} PROVE \A i \in refused : Min(refused) <= i
    OBVIOUS
  <2>2. \E x \in refused : \A y \in refused : x <= y
    BY <1>1, <2>1, LeastNatural
  <2> QED
    BY <2>2 DEF Min
<1> HIDE DEF refused
<1>6. CASE refused = {}
  BY <1>1, <1>2, <1>5, <1>6
<1>7. CASE refused # {}
  <2>1. Min(refused) \in 1 .. Len(writes)
    BY <1>3, <1>5, <1>7
  <2>2. Reach(writes) \in 0 .. Len(writes)
    BY <1>1, <1>2, <1>7, <2>1
  <2>3. ASSUME NEW i \in 1 .. Len(writes), ~writes[i].possible
        PROVE  Reach(writes) < i
    <3>1. Min(refused) <= i
      BY <1>5, <1>7, <1>l, <2>3
    <3> QED
      BY <1>2, <1>7, <2>1, <3>1
  <2> QED
    BY <1>4, <1>7, <2>2, <2>3
<1> QED
  BY <1>6, <1>7

\* A file of the right types.
FileTyped(f) == DOMAIN f = Names /\ \A name \in Names : f[name] \in TypeOf(name)

\* Writes keep the types of the file.
LEMMA AfterFits ==
    ASSUME Typed, NEW writes \in Seq(AnyWrite), NEW k \in 0 .. Len(writes)
    PROVE  FileTyped(After(writes, k))
<1>1. DOMAIN file = Names /\ \A name \in Names : file[name] \in TypeOf(name)
  BY DEF Typed
<1>2. \A i \in 1 .. k : writes[i] \in AnyWrite
  OBVIOUS
<1>3. \A i \in 1 .. k : writes[i].to \in TypeOf(writes[i].name)
  BY <1>2 DEF AnyWrite
<1>4. DOMAIN After(writes, k) = Names
  BY <1>1 DEF After
<1>5. ASSUME NEW name \in Names PROVE After(writes, k)[name] \in TypeOf(name)
  BY <1>1, <1>3, AfterIs
<1> QED
  BY <1>4, <1>5 DEF FileTyped

\* However far an operation gets, the file keeps its types.
LEMMA PerformFits ==
    ASSUME Typed, NEW writes \in Seq(AnyWrite), Perform(writes)
    PROVE  /\ FileTyped(file') /\ session' \in {session, "Closed"}
           /\ stopped' \subseteq Stops
<1>1. Reach(writes) \in 0 .. Len(writes)
  BY ReachIs
<1>2. stopped \subseteq Stops
  BY DEF Typed
<1>3. ASSUME NEW k \in 0 .. Len(writes), StopsAfter(writes, k),
             NEW how \in {"Error", "Killed"}
      PROVE  <<writes[k + 1].phase, how>> \in Stops
  <2>1. k + 1 \in 1 .. Len(writes)
    BY <1>1, <1>3 DEF StopsAfter
  <2>2. writes[k + 1] \in AnyWrite
    BY <2>1
  <2> QED
    BY <2>2 DEF Stops, AnyWrite
<1>4. stopped' \subseteq Stops
  <2>1. \/ stopped' = stopped
        \/ \E k \in 0 .. Len(writes), how \in {"Error", "Killed"} :
              /\ StopsAfter(writes, k)
              /\ stopped' = stopped \cup {<<writes[k + 1].phase, how>>}
    BY DEF Perform
  <2>2. ASSUME NEW k \in 0 .. Len(writes), NEW how \in {"Error", "Killed"},
               StopsAfter(writes, k),
               stopped' = stopped \cup {<<writes[k + 1].phase, how>>}
        PROVE  stopped' \subseteq Stops
    <3> DEFINE stop == <<writes[k + 1].phase, how>>
    <3>1. stop \in Stops
      BY <1>3, <2>2
    <3>2. stopped' = stopped \cup {stop}
      BY <2>2
    <3> HIDE DEF stop
    <3> QED
      BY <1>2, <3>1, <3>2
  <2> QED
    BY <1>2, <2>1, <2>2
<1> QED
  BY <1>1, <1>4, AfterFits DEF Perform, StopsAfter

-----------------------------------------------------------------------------
\* Storing a day.

\* One write of append_rows.
AppendWrite(c, rows, f) ==
    IF file[c] = Missing
    THEN Write(c, Missing, "rows", FALSE)
    ELSE Write(c, file[c] \o [n \in 1 .. rows |-> <<f, n>>], "rows", TRUE)

\* A column that is there grows by the rows of the fetch.
LEMMA AppendWriteIs ==
    ASSUME Typed, NEW rows \in Nat, NEW f \in 1 .. MaxFetches,
           NEW c \in ToSet(DataColumns)
    PROVE  /\ Fits(AppendWrite(c, rows, f), c, "rows")
           /\ file[c] # Missing =>
                 Makes(AppendWrite(c, rows, f), c,
                       file[c] \o [n \in 1 .. rows |-> <<f, n>>], "rows")
<1> DEFINE added == [n \in 1 .. rows |-> <<f, n>>]
<1>1. added \in Seq(AnyRow)
  BY DEF AnyRow
<1>2. c \in Names /\ TypeOf(c) = Seq(AnyRow) \cup {Missing}
  BY NameSets, TypeOfNames
<1>3. file[c] \in Seq(AnyRow) \cup {Missing}
  BY <1>2 DEF Typed
<1>4. file[c] # Missing => file[c] \o added \in TypeOf(c)
  BY <1>1, <1>2, <1>3, ConcatProperties
<1>5. Missing \in TypeOf(c) /\ "rows" \in Phases
  BY <1>2 DEF Phases
<1> HIDE DEF added
<1>7. CASE file[c] = Missing
  <2>1. AppendWrite(c, rows, f) = Write(c, Missing, "rows", FALSE)
    BY <1>7 DEF AppendWrite
  <2> QED
    BY <1>2, <1>5, <1>7, <2>1, WriteFits
<1>8. CASE file[c] # Missing
  <2>1. AppendWrite(c, rows, f) = Write(c, file[c] \o added, "rows", TRUE)
    BY <1>8 DEF AppendWrite, added
  <2>2. Makes(AppendWrite(c, rows, f), c, file[c] \o added, "rows")
    BY <1>2, <1>4, <1>5, <1>8, <2>1, WriteMakes
  <2> QED
    BY <2>2, MakesFits DEF added
<1> QED
  BY <1>7, <1>8

\* append_rows writes to the data columns, in their order.
LEMMA AppendWrites ==
    ASSUME Typed, NEW rows \in Nat, NEW f \in 1 .. MaxFetches
    PROVE  /\ append_rows(rows, f) \in Seq(AnyWrite)
           /\ Len(append_rows(rows, f)) = 3
           /\ \A i \in 1 .. 3 :
                 append_rows(rows, f)[i] = AppendWrite(DataColumns[i], rows, f)
<1>1. append_rows(rows, f) = [i \in 1 .. 3 |-> AppendWrite(DataColumns[i], rows, f)]
  BY NameSets DEF append_rows, AppendWrite
<1>2. \A i \in 1 .. 3 : AppendWrite(DataColumns[i], rows, f) \in AnyWrite
  BY NameSets, AppendWriteIs DEF Fits
<1> QED
  BY <1>1, <1>2

\* row_of finds the row of a day, and none where there is none.
LEMMA RowOf ==
    ASSUME Typed, NEW d
    PROVE  LET days == file["day"]
               row  == row_of(d)
           IN  /\ row \in 0 .. Len(days)
               /\ row > 0 => days[row] = d
               /\ row = 0 => \A i \in 1 .. Len(days) : days[i] # d
<1> DEFINE days == file["day"]
           S == {0} \cup {i \in DOMAIN days : /\ days[i] = d
                                            /\ \A j \in 1 .. (i - 1) : days[j] # d}
<1>1. days \in Seq(Days)
  BY TypeOfNames, NameSets DEF Typed
<1>2. S \in SUBSET Nat /\ S # {} /\ Len(days) \in Nat /\ \A x \in S : x <= Len(days)
  BY <1>1
<1>3. row_of(d) \in S /\ \A y \in S : y <= row_of(d)
  BY <1>2, Greatest DEF row_of
<1>4. ASSUME row_of(d) = 0, NEW i \in 1 .. Len(days), days[i] = d PROVE FALSE
  <2> DEFINE T == {j \in 1 .. Len(days) : days[j] = d}
  <2>1. T \in SUBSET Nat /\ T # {}
    BY <1>4
  <2>2. PICK x \in T : \A y \in T : x <= y
    BY <2>1, LeastNatural
  <2>3. \A j \in 1 .. (x - 1) : days[j] # d
    BY <1>2, <2>2
  <2>4. x \in S
    BY <1>1, <2>2, <2>3
  <2> QED
    BY <1>3, <1>4, <2>2, <2>4
<1>5. row_of(d) \in 0 .. Len(days) /\ (row_of(d) > 0 => days[row_of(d)] = d)
  BY <1>1, <1>2, <1>3
<1> QED
  BY <1>4, <1>5

\* What an index column holds of a day, and what a fetch stores there.
IndexType(c) == IF c = "day" THEN Days
                ELSE IF c = "fetched_at" THEN 1 .. MaxFetches ELSE Nat

IndexValue(c, d, offset, rows, f) ==
    IF c = "day" THEN d ELSE IF c = "offset" THEN offset
    ELSE IF c = "count" THEN rows ELSE f

\* The types of the index columns.
LEMMA IndexTypes ==
    ASSUME Typed, NEW c \in ToSet(IndexColumns)
    PROVE  /\ c \in Names
           /\ TypeOf(c) = Seq(IndexType(c))
           /\ file[c] \in Seq(IndexType(c))
BY NameSets, TypeOfNames DEF Typed, IndexType

\* What a fetch stores in the index has the type of its column.
LEMMA IndexValueFits ==
    ASSUME NEW c \in ToSet(IndexColumns), NEW d \in Days, NEW offset \in Nat,
           NEW rows \in Nat, NEW f \in 1 .. MaxFetches
    PROVE  IndexValue(c, d, offset, rows, f) \in IndexType(c)
BY NameSets DEF IndexType, IndexValue

\* A write into the row of a day, and one at the end of the column.
AtRow(c, row, value) ==
    IF row \in DOMAIN file[c]
    THEN Write(c, [file[c] EXCEPT ![row] = value], "index", TRUE)
    ELSE Write(c, file[c], "index", FALSE)
AtEnd(c, value) == Write(c, Append(file[c], value), "index", TRUE)

\* A write into a row that is there replaces that row.
LEMMA AtRowIs ==
    ASSUME Typed, NEW c \in ToSet(IndexColumns), NEW row,
           NEW value \in IndexType(c)
    PROVE  /\ Fits(AtRow(c, row, value), c, "index")
           /\ row \in DOMAIN file[c] =>
                 Makes(AtRow(c, row, value), c, [file[c] EXCEPT ![row] = value], "index")
<1>1. c \in Names /\ TypeOf(c) = Seq(IndexType(c)) /\ file[c] \in Seq(IndexType(c))
  BY IndexTypes
<1>2. "index" \in Phases
  BY DEF Phases
<1>3. CASE row \in DOMAIN file[c]
  <2> DEFINE to == [file[c] EXCEPT ![row] = value]
  <2>1. row \in 1 .. Len(file[c])
    BY <1>1, <1>3
  <2>2. to \in TypeOf(c)
    BY <1>1, <2>1, ExceptSeq
  <2>3. AtRow(c, row, value) = Write(c, to, "index", TRUE)
    BY <1>3 DEF AtRow
  <2> HIDE DEF to
  <2>4. Makes(AtRow(c, row, value), c, to, "index")
    BY <1>1, <1>2, <2>2, <2>3, WriteMakes
  <2> QED
    BY <2>4, MakesFits DEF to
<1>4. CASE row \notin DOMAIN file[c]
  <2>1. AtRow(c, row, value) = Write(c, file[c], "index", FALSE)
    BY <1>4 DEF AtRow
  <2> QED
    BY <1>1, <1>2, <1>4, <2>1, WriteFits
<1> QED
  BY <1>3, <1>4

\* A write at the end appends a row.
LEMMA AtEndIs ==
    ASSUME Typed, NEW c \in ToSet(IndexColumns), NEW value \in IndexType(c)
    PROVE  Makes(AtEnd(c, value), c, Append(file[c], value), "index")
<1>1. c \in Names /\ TypeOf(c) = Seq(IndexType(c)) /\ file[c] \in Seq(IndexType(c))
  BY IndexTypes
<1>2. Append(file[c], value) \in TypeOf(c) /\ "index" \in Phases
  BY <1>1, AppendProperties DEF Phases
<1> QED
  BY <1>1, <1>2, WriteMakes DEF AtEnd

\* Lists of three and of four writes.
LEMMA ThreeOrFour ==
    ASSUME NEW S, NEW w1 \in S, NEW w2 \in S, NEW w3 \in S, NEW w4 \in S
    PROVE  /\ <<w1, w2, w3>> \in Seq(S) /\ <<w1, w2, w3, w4>> \in Seq(S)
           /\ Len(<<w1, w2, w3>>) = 3 /\ Len(<<w1, w2, w3, w4>>) = 4
OBVIOUS

\* insert_or_replace writes three columns of a row that is there, and all four of a
\* new one.
LEMMA IndexWrites ==
    ASSUME Typed, NEW d \in Days, NEW offset \in Nat, NEW rows \in Nat,
           NEW f \in 1 .. MaxFetches
    PROVE  LET writes == insert_or_replace(d, offset, rows, f)
               Value(c) == IndexValue(c, d, offset, rows, f)
           IN  /\ writes \in Seq(AnyWrite)
               /\ row_of(d) > 0 =>
                     /\ Len(writes) = 3
                     /\ \A i \in 1 .. 3 :
                           writes[i] = AtRow(IndexColumns[i + 1], row_of(d),
                                             Value(IndexColumns[i + 1]))
               /\ row_of(d) = 0 =>
                     /\ Len(writes) = 4
                     /\ \A i \in 1 .. 4 :
                           writes[i] = AtEnd(IndexColumns[i], Value(IndexColumns[i]))
<1> DEFINE row == row_of(d)
           Value(c) == IndexValue(c, d, offset, rows, f)
           writes == insert_or_replace(d, offset, rows, f)
           R(c) == AtRow(c, row, Value(c))
           E(c) == AtEnd(c, Value(c))
<1>1. /\ Value("day") = d /\ Value("offset") = offset
      /\ Value("count") = rows /\ Value("fetched_at") = f
  BY DEF IndexValue
<1>2. writes = IF row > 0 THEN << R("offset"), R("count"), R("fetched_at") >>
               ELSE << E("day"), E("offset"), E("count"), E("fetched_at") >>
  BY <1>1 DEF insert_or_replace, AtRow, AtEnd
<1>3. /\ "day" \in ToSet(IndexColumns) /\ "offset" \in ToSet(IndexColumns)
      /\ "count" \in ToSet(IndexColumns) /\ "fetched_at" \in ToSet(IndexColumns)
  BY NameSets
<1>4. \A c \in ToSet(IndexColumns) : R(c) \in AnyWrite /\ E(c) \in AnyWrite
  BY IndexValueFits, AtRowIs, AtEndIs DEF Fits, Makes
<1>5. /\ IndexColumns[1] = "day" /\ IndexColumns[2] = "offset"
      /\ IndexColumns[3] = "count" /\ IndexColumns[4] = "fetched_at"
  BY DEF IndexColumns
<1>6. row \in Nat
  BY RowOf
<1> HIDE DEF row, R, E, writes
<1>7. CASE row > 0
  <2>1. writes = << R("offset"), R("count"), R("fetched_at") >>
    BY <1>2, <1>7
  <2>2. writes \in Seq(AnyWrite) /\ Len(writes) = 3
    BY <1>3, <1>4, <2>1, ThreeOrFour
  <2>3. \A i \in 1 .. 3 : writes[i] = R(IndexColumns[i + 1])
    BY <1>5, <2>1
  <2> QED
    BY <1>6, <1>7, <2>2, <2>3 DEF R, writes, row
<1>8. CASE row = 0
  <2>1. writes = << E("day"), E("offset"), E("count"), E("fetched_at") >>
    BY <1>2, <1>8
  <2>2. writes \in Seq(AnyWrite) /\ Len(writes) = 4
    BY <1>3, <1>4, <2>1, ThreeOrFour
  <2>3. \A i \in 1 .. 4 : writes[i] = E(IndexColumns[i])
    BY <1>5, <2>1
  <2> QED
    BY <1>6, <1>8, <2>2, <2>3 DEF E, writes, row
<1> QED
  BY <1>6, <1>7, <1>8

-----------------------------------------------------------------------------
\* Deleting days: the rows kept, the order their extents sit in, and what is
\* known of a file whose index names rows of every column.

\* The rows of the index a delete keeps.
Kept(cutoff) == {i \in DOMAIN file["day"] : file["day"][i] >= cutoff}

Plan(kept, laid, cutoff) ==
    /\ kept \in KeptRows(cutoff)
    /\ laid \in Laid(kept)
    /\ \A c \in ToSet(IndexColumns), i \in DOMAIN kept : kept[i] \in DOMAIN file[c]

\* A listing of a set has its members.
LEMMA ListingIs ==
    ASSUME NEW S, IsFiniteSet(S), NEW s \in Listings(S)
    PROVE  s \in Seq(S) /\ ToSet(s) = S
<1>1. Cardinality(S) \in Nat
  BY FS_CardinalityType
<1> QED
  BY <1>1 DEF Listings

\* The rows kept and their extents are those of the days not deleted.
LEMMA PlanIs ==
    ASSUME Typed, NEW kept, NEW laid, NEW cutoff, Plan(kept, laid, cutoff)
    PROVE  /\ kept \in Seq(Kept(cutoff)) /\ ToSet(kept) = Kept(cutoff)
           /\ laid \in Seq(Kept(cutoff)) /\ ToSet(laid) = Kept(cutoff)
           /\ \A c \in ToSet(IndexColumns) : Kept(cutoff) \subseteq DOMAIN file[c]
<1>1. file["day"] \in Seq(Days)
  BY TypeOfNames, NameSets DEF Typed
<1>2. IsFiniteSet(Kept(cutoff))
  <2>1. DOMAIN file["day"] = 1 .. Len(file["day"]) /\ Len(file["day"]) \in Nat
    BY <1>1
  <2>2. IsFiniteSet(1 .. Len(file["day"]))
    BY <2>1, FS_Interval
  <2>3. Kept(cutoff) \in SUBSET (1 .. Len(file["day"]))
    BY <2>1 DEF Kept
  <2> QED
    BY <2>2, <2>3, FS_Subset
<1>3. kept \in Listings(Kept(cutoff))
  BY DEF Plan, KeptRows, Kept
<1>4. kept \in Seq(Kept(cutoff)) /\ ToSet(kept) = Kept(cutoff)
  BY <1>2, <1>3, ListingIs
<1>5. laid \in Listings(Kept(cutoff))
  BY <1>4 DEF Plan, Laid
<1>6. laid \in Seq(Kept(cutoff)) /\ ToSet(laid) = Kept(cutoff)
  BY <1>2, <1>5, ListingIs
<1>7. ASSUME NEW c \in ToSet(IndexColumns), NEW r \in Kept(cutoff) PROVE r \in DOMAIN file[c]
  <2>1. PICK i \in DOMAIN kept : kept[i] = r
    BY <1>4 DEF ToSet
  <2> QED
    BY <2>1 DEF Plan
<1> QED
  BY <1>4, <1>6, <1>7

\* A member of a sequence.
LEMMA SeqAt ==
    ASSUME NEW S, NEW s \in Seq(S), NEW r \in DOMAIN s
    PROVE  s[r] \in S /\ r \in Nat
OBVIOUS

\* The types of what the index says of a row.
LEMMA RowTypes ==
    ASSUME Typed, NEW r, \A c \in ToSet(IndexColumns) : r \in DOMAIN file[c]
    PROVE  /\ r \in Nat /\ Start(r) \in Nat /\ file["count"][r] \in Nat /\ End(r) \in Nat
           /\ End(r) = Start(r) + file["count"][r]
           /\ file["day"][r] \in Days /\ file["fetched_at"][r] \in 1 .. MaxFetches
<1>1. /\ file["day"] \in Seq(Days) /\ file["offset"] \in Seq(Nat)
      /\ file["count"] \in Seq(Nat) /\ file["fetched_at"] \in Seq(1 .. MaxFetches)
  BY TypeOfNames, NameSets DEF Typed
<1>2. /\ r \in DOMAIN file["day"] /\ r \in DOMAIN file["offset"]
      /\ r \in DOMAIN file["count"] /\ r \in DOMAIN file["fetched_at"]
  BY NameSets
<1>3. file["day"][r] \in Days /\ r \in Nat
  BY <1>1, <1>2, SeqAt
<1>4. file["offset"][r] \in Nat
  BY <1>1, <1>2, SeqAt
<1>5. file["count"][r] \in Nat
  BY <1>1, <1>2, SeqAt
<1>6. file["fetched_at"][r] \in 1 .. MaxFetches
  <2> DEFINE T == 1 .. MaxFetches
  <2> HIDE DEF T
  <2>1. file["fetched_at"] \in Seq(T)
    BY <1>1 DEF T
  <2>2. file["fetched_at"][r] \in T
    BY <1>2, <2>1, SeqAt
  <2> QED
    BY <2>2 DEF T
<1> QED
  BY <1>3, <1>4, <1>5, <1>6 DEF Start, End

\* Where the extents end once they are moved together.
LEMMA CompactedIs ==
    ASSUME NEW laid, NEW n \in Nat, Len(laid) = n,
           \A i \in 1 .. n : file["count"][laid[i]] \in Nat
    PROVE  /\ Compacted(laid) \in [0 .. n -> Nat] /\ Compacted(laid)[0] = 0
           /\ \A i \in 1 .. n : Compacted(laid)[i]
                                  = Compacted(laid)[i - 1] + file["count"][laid[i]]
<1> DEFINE size == [i \in 1 .. n |-> file["count"][laid[i]]]
           Ends(f) == f = [i \in 0 .. n |->
                             IF i = 0 THEN 0 ELSE f[i - 1] + file["count"][laid[i]]]
           chosen == CHOOSE f : Ends(f)
<1>1. size \in [1 .. n -> Nat] /\ \A i \in 1 .. n : size[i] = file["count"][laid[i]]
  OBVIOUS
<1>2. ASSUME NEW f PROVE Ends(f) <=> Sums(f, n, size)
  <2> DEFINE left == [i \in 0 .. n |-> IF i = 0 THEN 0 ELSE f[i - 1] + file["count"][laid[i]]]
             right == [i \in 0 .. n |-> IF i = 0 THEN 0 ELSE f[i - 1] + size[i]]
  <2>1. \A i \in 0 .. n : left[i] = right[i]
    BY <1>1
  <2>2. left = right
    BY <2>1
  <2> QED
    BY <2>2 DEF Sums
<1>3. chosen = Compacted(laid)
  BY DEF Compacted
<1> HIDE DEF size, Ends
<1>4. Ends(chosen)
  <2>1. \E f : Ends(f)
    BY <1>1, <1>2, SumsAre
  <2> QED
    BY <2>1
<1> HIDE DEF chosen
<1>5. Sums(chosen, n, size)
  BY <1>2, <1>4
<1>6. chosen \in [0 .. n -> Nat] /\ chosen[0] = 0
  BY <1>1, <1>5, SumsAre
<1>7. \A i \in 1 .. n : chosen[i] = chosen[i - 1] + file["count"][laid[i]]
  <2> SUFFICES ASSUME NEW i \in 1 .. n
               PROVE  chosen[i] = chosen[i - 1] + file["count"][laid[i]]
    OBVIOUS
  <2>0. n \in Nat
    BY <1>1
  <2>1. chosen[i] = chosen[i - 1] + size[i]
    <3>1. size \in [1 .. n -> Nat]
      BY <1>1
    <3> QED
      BY <1>5, <2>0, <3>1, SumsStep, Zenon
  <2> QED
    BY <1>1, <2>1
<1> QED
  BY <1>3, <1>6, <1>7

\* The new offset of a row is where the extents before its own end.
LEMMA NewOffsetIs ==
    ASSUME Typed, NEW kept, NEW laid, NEW cutoff, Plan(kept, laid, cutoff),
           NEW r \in Kept(cutoff)
    PROVE  \E i \in 1 .. Len(laid) :
              /\ laid[i] = r
              /\ NewOffset(laid, r) = Compacted(laid)[i - 1]
              /\ NewOffset(laid, r) \in Nat
<1>1. laid \in Seq(Kept(cutoff)) /\ Len(laid) \in Nat /\ DOMAIN laid = 1 .. Len(laid)
  BY PlanIs
<1>2. \E i \in DOMAIN laid : laid[i] = r
  BY PlanIs DEF ToSet
<1> DEFINE i == CHOOSE i \in DOMAIN laid : laid[i] = r
<1>3. i \in 1 .. Len(laid) /\ laid[i] = r
  BY <1>1, <1>2
<1>4. NewOffset(laid, r) = Compacted(laid)[i - 1]
  BY DEF NewOffset
<1> HIDE DEF i
<1>5. \A j \in 1 .. Len(laid) : file["count"][laid[j]] \in Nat
  <2>1. \A j \in 1 .. Len(laid) : laid[j] \in Kept(cutoff)
    BY <1>1
  <2> QED
    BY <2>1, PlanIs, RowTypes
<1>6. Compacted(laid) \in [0 .. Len(laid) -> Nat] /\ i - 1 \in 0 .. Len(laid)
  BY <1>1, <1>3, <1>5, CompactedIs
<1> QED
  BY <1>3, <1>4, <1>6

\* The rows of each extent in a column, and whether the column has them.
Extents(c, laid) ==
    [i \in DOMAIN laid |-> SubSeq(file[c], Start(laid[i]) + 1, End(laid[i]))]

Copies(c, laid) ==
    file[c] # Missing /\ \A i \in DOMAIN laid : End(laid[i]) <= Len(file[c])

\* An extent copied out of a column has the rows the index counts.
LEMMA ExtentsAre ==
    ASSUME Typed, NEW kept, NEW laid, NEW cutoff, Plan(kept, laid, cutoff),
           NEW c \in ToSet(DataColumns), Copies(c, laid)
    PROVE  /\ Extents(c, laid) \in Seq(Seq(AnyRow))
           /\ Len(Extents(c, laid)) = Len(laid)
           /\ \A i \in 1 .. Len(laid) :
                 /\ Len(Extents(c, laid)[i]) = file["count"][laid[i]]
                 /\ \A m \in 1 .. file["count"][laid[i]] :
                       Extents(c, laid)[i][m] = file[c][Start(laid[i]) + m]
<1>1. file[c] \in Seq(AnyRow)
  BY TypeOfNames DEF Typed, Copies
<1>2. laid \in Seq(Kept(cutoff)) /\ DOMAIN laid = 1 .. Len(laid) /\ Len(laid) \in Nat
  BY PlanIs
<1>3. ASSUME NEW i \in 1 .. Len(laid)
      PROVE  LET r == laid[i]
                 s == SubSeq(file[c], Start(r) + 1, End(r))
             IN  /\ s \in Seq(AnyRow)
                 /\ Len(s) = file["count"][r]
                 /\ \A m \in 1 .. file["count"][r] : s[m] = file[c][Start(r) + m]
  <2> DEFINE r == laid[i]
             a == Start(r)
             b == End(r)
             s == SubSeq(file[c], a + 1, b)
  <2>1. r \in Kept(cutoff)
    BY <1>2
  <2>2. a \in Nat /\ b \in Nat /\ file["count"][r] \in Nat /\ b = a + file["count"][r]
    BY <2>1, PlanIs, RowTypes
  <2>3. b <= Len(file[c])
    BY <1>2 DEF Copies
  <2> HIDE DEF r, a, b
  <2>4. \A j \in a + 1 .. b : file[c][j] \in AnyRow
    BY <1>1, <2>2, <2>3
  <2>5. /\ s \in Seq(AnyRow)
        /\ Len(s) = IF a + 1 <= b THEN b - (a + 1) + 1 ELSE 0
        /\ \A j \in 1 .. b - (a + 1) + 1 : s[j] = file[c][(a + 1) + j - 1]
    BY <2>2, <2>4, SubSeqProperties
  <2> HIDE DEF s
  <2> DEFINE k == file["count"][r]
  <2>k. a \in Nat /\ k \in Nat /\ b = a + k
    BY <2>2
  <2>l. Len(s) = IF a + 1 <= b THEN b - (a + 1) + 1 ELSE 0
    BY <2>5
  <2> HIDE DEF k
  <2>6. Len(s) = k
    BY <2>k, <2>l
  <2>7. \A m \in 1 .. k : m \in 1 .. b - (a + 1) + 1 /\ (a + 1) + m - 1 = a + m
    BY <2>k
  <2> QED
    BY <2>5, <2>6, <2>7 DEF s, a, b, r, k
<1>4. Extents(c, laid) \in [1 .. Len(laid) -> Seq(AnyRow)]
  BY <1>2, <1>3 DEF Extents
<1>5. Extents(c, laid) \in Seq(Seq(AnyRow)) /\ Len(Extents(c, laid)) = Len(laid)
  BY <1>2, <1>4
<1> QED
  BY <1>2, <1>3, <1>5 DEF Extents

\* A column as a delete leaves it: the extents one after the other.
LEMMA MovedColumn ==
    ASSUME Typed, NEW kept, NEW laid, NEW cutoff, Plan(kept, laid, cutoff),
           NEW c \in ToSet(DataColumns), Copies(c, laid)
    PROVE  LET moved == FlattenSeq(Extents(c, laid))
               end   == Compacted(laid)
           IN  /\ moved \in Seq(AnyRow)
               /\ Len(moved) = end[Len(laid)]
               /\ \A i \in 1 .. Len(laid) :
                     /\ end[i - 1] + file["count"][laid[i]] <= Len(moved)
                     /\ \A m \in 1 .. file["count"][laid[i]] :
                           moved[end[i - 1] + m] = file[c][Start(laid[i]) + m]
<1> DEFINE seqs == Extents(c, laid)
           end == Compacted(laid)
<1>1. /\ seqs \in Seq(Seq(AnyRow)) /\ Len(seqs) = Len(laid)
      /\ \A i \in 1 .. Len(laid) :
            /\ Len(seqs[i]) = file["count"][laid[i]]
            /\ \A m \in 1 .. file["count"][laid[i]] :
                  seqs[i][m] = file[c][Start(laid[i]) + m]
  BY ExtentsAre
<1>2. laid \in Seq(Kept(cutoff)) /\ Len(laid) \in Nat
  BY PlanIs
<1>3. \A i \in 1 .. Len(laid) : file["count"][laid[i]] \in Nat
  <2>1. \A i \in 1 .. Len(laid) : laid[i] \in Kept(cutoff)
    BY <1>2
  <2> QED
    BY <2>1, PlanIs, RowTypes
<1>4. /\ end \in [0 .. Len(laid) -> Nat] /\ end[0] = 0
      /\ \A i \in 1 .. Len(laid) : end[i] = end[i - 1] + file["count"][laid[i]]
  BY <1>2, <1>3, CompactedIs
<1> HIDE DEF seqs, end
<1>5. EndsOf(end, seqs)
  BY <1>1, <1>4 DEF EndsOf
<1>6. /\ FlattenSeq(seqs) \in Seq(AnyRow)
      /\ Len(FlattenSeq(seqs)) = end[Len(seqs)]
      /\ \A i \in 1 .. Len(seqs) :
            /\ end[i] <= end[Len(seqs)]
            /\ \A m \in 1 .. Len(seqs[i]) : FlattenSeq(seqs)[end[i - 1] + m] = seqs[i][m]
  BY <1>1, <1>5, FlattenAt
<1>7. ASSUME NEW i \in 1 .. Len(laid)
      PROVE  /\ end[i - 1] + file["count"][laid[i]] <= Len(FlattenSeq(seqs))
             /\ \A m \in 1 .. file["count"][laid[i]] :
                   FlattenSeq(seqs)[end[i - 1] + m] = file[c][Start(laid[i]) + m]
  <2>1. end[i] = end[i - 1] + file["count"][laid[i]]
    BY <1>4
  <2>2. end[i] <= Len(FlattenSeq(seqs))
    BY <1>1, <1>6
  <2>3. ASSUME NEW m \in 1 .. file["count"][laid[i]]
        PROVE  FlattenSeq(seqs)[end[i - 1] + m] = file[c][Start(laid[i]) + m]
    <3>1. i \in 1 .. Len(seqs) /\ m \in 1 .. Len(seqs[i])
      BY <1>1
    <3>2. FlattenSeq(seqs)[end[i - 1] + m] = seqs[i][m]
      BY <1>6, <3>1
    <3>3. seqs[i][m] = file[c][Start(laid[i]) + m]
      BY <1>1
    <3> QED
      BY <3>2, <3>3
  <2> QED
    BY <2>1, <2>2, <2>3
<1> QED
  BY <1>1, <1>6, <1>7 DEF seqs, end

\* Lists of one and of two writes.
LEMMA OneOrTwo ==
    ASSUME NEW S, NEW w1 \in S, NEW w2 \in S
    PROVE  /\ <<w1>> \in Seq(S) /\ <<w1, w2>> \in Seq(S)
           /\ Len(<<w1>>) = 1 /\ Len(<<w1, w2>>) = 2
OBVIOUS

\* rewrite_column unlinks a column and creates it again with the extents kept.
LEMMA RewriteIs ==
    ASSUME Typed, NEW kept, NEW laid, NEW cutoff, Plan(kept, laid, cutoff),
           NEW c \in ToSet(DataColumns)
    PROVE  /\ rewrite_column(c, laid) \in Seq(AnyWrite)
           /\ Copies(c, laid) =>
                 /\ Len(rewrite_column(c, laid)) = 2
                 /\ Makes(rewrite_column(c, laid)[1], c, Missing, "delete")
                 /\ Makes(rewrite_column(c, laid)[2], c,
                          FlattenSeq(Extents(c, laid)), "unlinked")
<1>1. c \in Names /\ TypeOf(c) = Seq(AnyRow) \cup {Missing} /\ file[c] \in TypeOf(c)
  BY TypeOfNames DEF Typed
<1>2. "delete" \in Phases /\ "unlinked" \in Phases
  BY DEF Phases
<1> DEFINE refused == \/ file[c] = Missing
                      \/ \E i \in DOMAIN laid : End(laid[i]) > Len(file[c])
<1>a. refused <=> ~Copies(c, laid)
  <2>1. file[c] # Missing => Len(file[c]) \in Nat
    BY <1>1
  <2>2. \A i \in DOMAIN laid : laid[i] \in Kept(cutoff)
    BY PlanIs
  <2>3. \A i \in DOMAIN laid : End(laid[i]) \in Nat
    BY <2>2, PlanIs, RowTypes
  <2> QED
    BY <2>1, <2>3 DEF Copies
<1>b. rewrite_column(c, laid) =
        IF refused THEN << Write(c, file[c], "delete", FALSE) >>
        ELSE << Write(c, Missing, "delete", TRUE),
                Write(c, FlattenSeq(Extents(c, laid)), "unlinked", TRUE) >>
  BY DEF rewrite_column, Extents
<1> HIDE DEF refused
<1>3. CASE Copies(c, laid)
  <2> DEFINE w1 == Write(c, Missing, "delete", TRUE)
             w2 == Write(c, FlattenSeq(Extents(c, laid)), "unlinked", TRUE)
  <2>1. rewrite_column(c, laid) = <<w1, w2>>
    BY <1>3, <1>a, <1>b
  <2>2. Makes(w1, c, Missing, "delete")
    BY <1>1, <1>2, WriteMakes
  <2>3. Makes(w2, c, FlattenSeq(Extents(c, laid)), "unlinked")
    <3>1. FlattenSeq(Extents(c, laid)) \in TypeOf(c)
      BY <1>1, <1>3, MovedColumn
    <3> QED
      BY <1>1, <1>2, <3>1, WriteMakes
  <2>4. w1 \in AnyWrite /\ w2 \in AnyWrite
    BY <2>2, <2>3 DEF Makes
  <2> HIDE DEF w1, w2
  <2> QED
    BY <2>1, <2>2, <2>3, <2>4, OneOrTwo
<1>4. CASE ~Copies(c, laid)
  <2> DEFINE w1 == Write(c, file[c], "delete", FALSE)
  <2>1. rewrite_column(c, laid) = <<w1>>
    BY <1>4, <1>a, <1>b
  <2>2. w1 \in AnyWrite
    BY <1>1, <1>2, WriteFits DEF Fits
  <2> HIDE DEF w1
  <2> QED
    BY <1>4, <2>1, <2>2, OneOrTwo
<1> QED
  BY <1>3, <1>4

\* The rewrites of the data columns, each two writes.
Rewrites(laid) == [i \in DOMAIN DataColumns |-> rewrite_column(DataColumns[i], laid)]

\* One after the other, the rewrites are writes.
LEMMA RewritesFit ==
    ASSUME Typed, NEW kept, NEW laid, NEW cutoff, Plan(kept, laid, cutoff)
    PROVE  /\ Rewrites(laid) \in Seq(Seq(AnyWrite)) /\ Len(Rewrites(laid)) = 3
           /\ FlattenSeq(Rewrites(laid)) \in Seq(AnyWrite)
<1>1. \A i \in 1 .. 3 : rewrite_column(DataColumns[i], laid) \in Seq(AnyWrite)
  BY NameSets, RewriteIs
<1>2. Rewrites(laid) = [i \in 1 .. 3 |-> rewrite_column(DataColumns[i], laid)]
  BY NameSets DEF Rewrites
<1>3. Rewrites(laid) \in Seq(Seq(AnyWrite)) /\ Len(Rewrites(laid)) = 3
  BY <1>1, <1>2
<1> QED
  BY <1>3, FlattenIs

\* Where every column has the extents, the rewrites are six writes that are possible.
LEMMA RewritesMake ==
    ASSUME Typed, NEW kept, NEW laid, NEW cutoff, Plan(kept, laid, cutoff),
           \A c \in ToSet(DataColumns) : Copies(c, laid)
    PROVE  LET writes == FlattenSeq(Rewrites(laid))
           IN  /\ Len(writes) = 6
               /\ \A i \in 1 .. 3 :
                     /\ Makes(writes[2 * i - 1], DataColumns[i], Missing, "delete")
                     /\ Makes(writes[2 * i], DataColumns[i],
                              FlattenSeq(Extents(DataColumns[i], laid)), "unlinked")
<1> DEFINE seqs == Rewrites(laid)
           ends == [i \in 0 .. 3 |-> 2 * i]
           writes == FlattenSeq(seqs)
<1>1. /\ seqs \in Seq(Seq(AnyWrite)) /\ Len(seqs) = 3
      /\ \A i \in 1 .. 3 : seqs[i] = rewrite_column(DataColumns[i], laid)
  <2>1. Rewrites(laid) \in Seq(Seq(AnyWrite)) /\ Len(Rewrites(laid)) = 3
    BY RewritesFit
  <2>2. \A i \in 1 .. 3 : Rewrites(laid)[i] = rewrite_column(DataColumns[i], laid)
    BY NameSets DEF Rewrites
  <2> QED
    BY <2>1, <2>2
<1>2. ASSUME NEW i \in 1 .. 3
      PROVE  /\ Len(seqs[i]) = 2
             /\ Makes(seqs[i][1], DataColumns[i], Missing, "delete")
             /\ Makes(seqs[i][2], DataColumns[i],
                      FlattenSeq(Extents(DataColumns[i], laid)), "unlinked")
  BY <1>1, NameSets, RewriteIs
<1> HIDE DEF seqs
<1>3. EndsOf(ends, seqs)
  <2>1. /\ ends \in [0 .. 3 -> Nat] /\ ends[0] = 0
        /\ \A i \in 1 .. 3 : ends[i] = ends[i - 1] + 2
    OBVIOUS
  <2> HIDE DEF ends
  <2> QED
    BY <1>1, <1>2, <2>1 DEF EndsOf
<1>4. /\ Len(writes) = ends[3]
      /\ \A i \in 1 .. 3 : \A m \in 1 .. 2 : writes[ends[i - 1] + m] = seqs[i][m]
  <2> HIDE DEF ends
  <2>1. /\ FlattenSeq(seqs) \in Seq(AnyWrite)
        /\ Len(FlattenSeq(seqs)) = ends[Len(seqs)]
        /\ \A i \in 1 .. Len(seqs) :
              /\ ends[i] <= ends[Len(seqs)]
              /\ \A m \in 1 .. Len(seqs[i]) :
                    FlattenSeq(seqs)[ends[i - 1] + m] = seqs[i][m]
    <3>1. seqs \in Seq(Seq(AnyWrite))
      BY <1>1
    <3> QED
      BY <1>3, <3>1, FlattenAt
  <2> HIDE DEF writes
  <2>2. Len(writes) = ends[Len(seqs)]
    BY <2>1 DEF writes
  <2>3. \A i \in 1 .. Len(seqs) : \A m \in 1 .. Len(seqs[i]) :
              writes[ends[i - 1] + m] = seqs[i][m]
    BY <2>1 DEF writes
  <2>4. Len(seqs) = 3
    BY <1>1
  <2>5. \A i \in 1 .. 3 : Len(seqs[i]) = 2
    BY <1>2
  <2> QED
    BY <2>2, <2>3, <2>4, <2>5
<1> HIDE DEF writes
<1>5. ASSUME NEW i \in 1 .. 3
      PROVE  writes[2 * i - 1] = seqs[i][1] /\ writes[2 * i] = seqs[i][2]
  <2>1. ends[i - 1] + 1 = 2 * i - 1 /\ ends[i - 1] + 2 = 2 * i
    OBVIOUS
  <2> HIDE DEF ends
  <2>2. writes[ends[i - 1] + 1] = seqs[i][1] /\ writes[ends[i - 1] + 2] = seqs[i][2]
    BY <1>4
  <2> QED
    BY <2>1, <2>2
<1>6. Len(writes) = 6
  BY <1>4
<1> QED
  BY <1>2, <1>5, <1>6 DEF writes, seqs

\* An index column as a delete leaves it.
KeptColumn(c, kept, laid) ==
    [k \in DOMAIN kept |-> IF c = "offset" THEN NewOffset(laid, kept[k])
                                           ELSE file[c][kept[k]]]

\* overwrite_index writes every index column, over the rows kept.
LEMMA OverwriteIs ==
    ASSUME Typed, NEW kept, NEW laid, NEW cutoff, Plan(kept, laid, cutoff)
    PROVE  /\ overwrite_index(kept, laid) \in Seq(AnyWrite)
           /\ Len(overwrite_index(kept, laid)) = 4
           /\ \A i \in 1 .. 4 :
                 Makes(overwrite_index(kept, laid)[i], IndexColumns[i],
                       KeptColumn(IndexColumns[i], kept, laid), "delete")
<1>1. /\ kept \in Seq(Kept(cutoff)) /\ DOMAIN kept = 1 .. Len(kept) /\ Len(kept) \in Nat
      /\ \A k \in 1 .. Len(kept) : kept[k] \in Kept(cutoff)
  BY PlanIs
<1>2. ASSUME NEW c \in ToSet(IndexColumns)
      PROVE  Makes(Write(c, KeptColumn(c, kept, laid), "delete", TRUE), c,
                   KeptColumn(c, kept, laid), "delete")
  <2>1. c \in Names /\ TypeOf(c) = Seq(IndexType(c)) /\ file[c] \in Seq(IndexType(c))
    BY IndexTypes
  <2>2. ASSUME NEW k \in 1 .. Len(kept)
        PROVE  (IF c = "offset" THEN NewOffset(laid, kept[k]) ELSE file[c][kept[k]])
                  \in IndexType(c)
    <3>1. kept[k] \in Kept(cutoff) /\ kept[k] \in DOMAIN file[c]
      BY <1>1, PlanIs
    <3>2. file[c][kept[k]] \in IndexType(c)
      BY <2>1, <3>1, SeqAt
    <3>3. NewOffset(laid, kept[k]) \in Nat
      BY <3>1, NewOffsetIs
    <3>4. c = "offset" => IndexType(c) = Nat
      BY DEF IndexType
    <3> QED
      BY <3>2, <3>3, <3>4
  <2>3. KeptColumn(c, kept, laid) \in [1 .. Len(kept) -> IndexType(c)]
    BY <1>1, <2>2 DEF KeptColumn
  <2>4. KeptColumn(c, kept, laid) \in TypeOf(c)
    BY <1>1, <2>1, <2>3
  <2>5. "delete" \in Phases
    BY DEF Phases
  <2> QED
    BY <2>1, <2>4, <2>5, WriteMakes
<1>3. overwrite_index(kept, laid) =
        [i \in 1 .. 4 |-> Write(IndexColumns[i],
                                KeptColumn(IndexColumns[i], kept, laid), "delete", TRUE)]
  BY NameSets DEF overwrite_index, KeptColumn
<1>4. \A i \in 1 .. 4 : Makes(overwrite_index(kept, laid)[i], IndexColumns[i],
                              KeptColumn(IndexColumns[i], kept, laid), "delete")
  <2> SUFFICES ASSUME NEW i \in 1 .. 4
               PROVE  Makes(overwrite_index(kept, laid)[i], IndexColumns[i],
                            KeptColumn(IndexColumns[i], kept, laid), "delete")
    OBVIOUS
  <2> DEFINE c == IndexColumns[i]
  <2>1. c \in ToSet(IndexColumns)
    BY NameSets
  <2>2. overwrite_index(kept, laid)[i] = Write(c, KeptColumn(c, kept, laid), "delete", TRUE)
    BY <1>3
  <2> HIDE DEF c
  <2>3. Makes(overwrite_index(kept, laid)[i], c, KeptColumn(c, kept, laid), "delete")
    BY <1>2, <2>1, <2>2
  <2> QED
    BY <2>3 DEF c
<1>5. \A i \in 1 .. 4 : overwrite_index(kept, laid)[i] \in AnyWrite
  BY <1>4 DEF Makes
<1>6. overwrite_index(kept, laid) = [i \in 1 .. 4 |-> overwrite_index(kept, laid)[i]]
  BY <1>3
<1>7. overwrite_index(kept, laid) \in [1 .. 4 -> AnyWrite]
  BY <1>5, <1>6
<1>8. overwrite_index(kept, laid) \in Seq(AnyWrite) /\ Len(overwrite_index(kept, laid)) = 4
  BY <1>7
<1> QED
  BY <1>4, <1>8

\* The mark is set and cleared by one write each.
LEMMA MarkWrites ==
    ASSUME NEW phase \in Phases
    PROVE  /\ InFlight \in Seq(AnyWrite) /\ Len(InFlight) = 1
           /\ Makes(InFlight[1], Mark, "InFlight", "delete")
           /\ Settled(phase) \in Seq(AnyWrite) /\ Len(Settled(phase)) = 1
           /\ Makes(Settled(phase)[1], Mark, "Settled", phase)
<1> DEFINE w1 == Write(Mark, "InFlight", "delete", TRUE)
           w2 == Write(Mark, "Settled", phase, TRUE)
<1>1. Mark \in Names /\ "InFlight" \in TypeOf(Mark) /\ "Settled" \in TypeOf(Mark)
  BY TypeOfNames
<1>2. Makes(w1, Mark, "InFlight", "delete") /\ Makes(w2, Mark, "Settled", phase)
  <2>1. "delete" \in Phases
    BY DEF Phases
  <2> QED
    BY <1>1, <2>1, WriteMakes
<1>3. w1 \in AnyWrite /\ w2 \in AnyWrite
  BY <1>2 DEF Makes
<1>4. InFlight = <<w1>> /\ Settled(phase) = <<w2>>
  BY DEF InFlight, Settled
<1> HIDE DEF w1, w2
<1> QED
  BY <1>2, <1>3, <1>4, OneOrTwo

-----------------------------------------------------------------------------
\* What a delete writes where its plan is rejected, and where it is not.
Rejected == << Write("day", file["day"], "delete", FALSE) >>
Moved(kept, laid) ==
    FlattenSeq(Rewrites(laid)) \o overwrite_index(kept, laid) \o Settled("delete")

\* A delete sets the mark first, whatever it does next.
LEMMA DeleteIs ==
    ASSUME NEW kept, NEW laid
    PROVE  retain_days(kept, laid)
             = InFlight \o (IF Overlaps(laid) THEN Rejected ELSE Moved(kept, laid))
BY DEF retain_days, Rejected, Moved, Rewrites

\* A rejected plan makes no write.
LEMMA RejectedFits ==
    ASSUME Typed
    PROVE  /\ Rejected \in Seq(AnyWrite) /\ Len(Rejected) = 1
           /\ ~Rejected[1].possible
<1> DEFINE w == Write("day", file["day"], "delete", FALSE)
<1>1. "day" \in Names /\ file["day"] \in TypeOf("day") /\ "delete" \in Phases
  BY NameSets, TypeOfNames DEF Typed, Phases
<1>2. w \in AnyWrite
  BY <1>1, WriteFits DEF Fits
<1>3. ~w.possible
  BY DEF Write
<1>4. Rejected = <<w>>
  BY DEF Rejected
<1> HIDE DEF w
<1> QED
  BY <1>2, <1>3, <1>4, OneOrTwo

\* A delete writes values of the right types.
LEMMA DeleteFits ==
    ASSUME Typed, NEW kept, NEW laid, NEW cutoff, Plan(kept, laid, cutoff)
    PROVE  retain_days(kept, laid) \in Seq(AnyWrite)
<1>1. InFlight \in Seq(AnyWrite) /\ Settled("delete") \in Seq(AnyWrite)
  BY MarkWrites DEF Phases
<1>2. Rejected \in Seq(AnyWrite)
  BY RejectedFits
<1>3. FlattenSeq(Rewrites(laid)) \in Seq(AnyWrite)
  BY RewritesFit
<1>4. overwrite_index(kept, laid) \in Seq(AnyWrite)
  BY OverwriteIs
<1>5. Moved(kept, laid) \in Seq(AnyWrite)
  BY <1>1, <1>3, <1>4, ConcatProperties DEF Moved
<1>6. (IF Overlaps(laid) THEN Rejected ELSE Moved(kept, laid)) \in Seq(AnyWrite)
  BY <1>2, <1>5
<1> QED
  BY <1>1, <1>6, DeleteIs, ConcatProperties

\* The twelve writes of a delete, and what each makes.
LEMMA MovedIs ==
    ASSUME Typed, NEW kept, NEW laid, NEW cutoff, Plan(kept, laid, cutoff),
           \A c \in ToSet(DataColumns) : Copies(c, laid)
    PROVE  LET writes == InFlight \o Moved(kept, laid)
           IN  /\ Len(writes) = 12
               /\ Makes(writes[1], Mark, "InFlight", "delete")
               /\ \A i \in 1 .. 3 :
                     /\ Makes(writes[2 * i], DataColumns[i], Missing, "delete")
                     /\ Makes(writes[2 * i + 1], DataColumns[i],
                              FlattenSeq(Extents(DataColumns[i], laid)), "unlinked")
               /\ \A i \in 1 .. 4 :
                     Makes(writes[7 + i], IndexColumns[i],
                           KeptColumn(IndexColumns[i], kept, laid), "delete")
               /\ Makes(writes[12], Mark, "Settled", "delete")
<1> DEFINE A == InFlight
           X == FlattenSeq(Rewrites(laid))
           O == overwrite_index(kept, laid)
           S == Settled("delete")
           XO == X \o O
           Y == XO \o S
           W == A \o Y
<1>1. /\ A \in Seq(AnyWrite) /\ Len(A) = 1 /\ Makes(A[1], Mark, "InFlight", "delete")
      /\ S \in Seq(AnyWrite) /\ Len(S) = 1 /\ Makes(S[1], Mark, "Settled", "delete")
  BY MarkWrites DEF Phases
<1>2. /\ X \in Seq(AnyWrite) /\ Len(X) = 6
      /\ \A i \in 1 .. 3 :
            /\ Makes(X[2 * i - 1], DataColumns[i], Missing, "delete")
            /\ Makes(X[2 * i], DataColumns[i],
                     FlattenSeq(Extents(DataColumns[i], laid)), "unlinked")
  BY RewritesFit, RewritesMake
<1>3. /\ O \in Seq(AnyWrite) /\ Len(O) = 4
      /\ \A i \in 1 .. 4 : Makes(O[i], IndexColumns[i],
                                 KeptColumn(IndexColumns[i], kept, laid), "delete")
  BY OverwriteIs
<1>4. Moved(kept, laid) = Y
  BY DEF Moved
<1> HIDE DEF A, X, O, S
<1>5. /\ XO \in Seq(AnyWrite) /\ Len(XO) = 10
      /\ \A j \in 1 .. 6 : XO[j] = X[j]
      /\ \A m \in 1 .. 4 : XO[6 + m] = O[m]
  <2>1. X \in Seq(AnyWrite) /\ O \in Seq(AnyWrite)
    BY <1>2, <1>3
  <2>2. Len(X) = 6 /\ Len(O) = 4
    BY <1>2, <1>3
  <2>3. /\ X \o O \in Seq(AnyWrite) /\ Len(X \o O) = Len(X) + Len(O)
        /\ \A j \in 1 .. Len(X) : (X \o O)[j] = X[j]
        /\ \A m \in 1 .. Len(O) : (X \o O)[Len(X) + m] = O[m]
    BY <2>1, ConcatAt
  <2> HIDE DEF XO
  <2>4. XO = X \o O
    BY DEF XO
  <2>5. XO \in Seq(AnyWrite) /\ Len(XO) = 10
    BY <2>2, <2>3, <2>4
  <2>6. \A j \in 1 .. 6 : XO[j] = X[j]
    BY <2>2, <2>3, <2>4
  <2>7. \A m \in 1 .. 4 : XO[6 + m] = O[m]
    BY <2>2, <2>3, <2>4
  <2> QED
    BY <2>5, <2>6, <2>7
<1> HIDE DEF XO
<1>6. /\ Y \in Seq(AnyWrite) /\ Len(Y) = 11
      /\ \A j \in 1 .. 10 : Y[j] = XO[j]
      /\ \A m \in 1 .. 1 : Y[10 + m] = S[m]
  <2>1. XO \in Seq(AnyWrite) /\ S \in Seq(AnyWrite)
    BY <1>1, <1>5
  <2>2. Len(XO) = 10 /\ Len(S) = 1
    BY <1>1, <1>5
  <2>3. /\ XO \o S \in Seq(AnyWrite) /\ Len(XO \o S) = Len(XO) + Len(S)
        /\ \A j \in 1 .. Len(XO) : (XO \o S)[j] = XO[j]
        /\ \A m \in 1 .. Len(S) : (XO \o S)[Len(XO) + m] = S[m]
    BY <2>1, ConcatAt
  <2> HIDE DEF Y
  <2>4. Y = XO \o S
    BY DEF Y
  <2>5. Y \in Seq(AnyWrite) /\ Len(Y) = 11
    BY <2>2, <2>3, <2>4
  <2>6. \A j \in 1 .. 10 : Y[j] = XO[j]
    BY <2>2, <2>3, <2>4
  <2>7. \A m \in 1 .. 1 : Y[10 + m] = S[m]
    BY <2>2, <2>3, <2>4
  <2> QED
    BY <2>5, <2>6, <2>7
<1> HIDE DEF Y
<1>7. /\ W \in Seq(AnyWrite) /\ Len(W) = 12
      /\ \A j \in 1 .. 1 : W[j] = A[j]
      /\ \A m \in 1 .. 11 : W[1 + m] = Y[m]
  <2>1. A \in Seq(AnyWrite) /\ Y \in Seq(AnyWrite)
    BY <1>1, <1>6
  <2>2. Len(A) = 1 /\ Len(Y) = 11
    BY <1>1, <1>6
  <2>3. /\ A \o Y \in Seq(AnyWrite) /\ Len(A \o Y) = Len(A) + Len(Y)
        /\ \A j \in 1 .. Len(A) : (A \o Y)[j] = A[j]
        /\ \A m \in 1 .. Len(Y) : (A \o Y)[Len(A) + m] = Y[m]
    BY <2>1, ConcatAt
  <2> HIDE DEF W
  <2>4. W = A \o Y
    BY DEF W
  <2>5. W \in Seq(AnyWrite) /\ Len(W) = Len(A) + Len(Y)
    BY <2>3, <2>4, Zenon
  <2>6. /\ \A j \in 1 .. Len(A) : W[j] = A[j]
        /\ \A m \in 1 .. Len(Y) : W[Len(A) + m] = Y[m]
    BY <2>3, <2>4, Zenon
  <2>7. Len(W) = 12
    BY <2>2, <2>5
  <2>8. \A m \in 1 .. 11 : W[1 + m] = Y[m]
    BY <2>2, <2>6
  <2>9. \A j \in 1 .. 1 : W[j] = A[j]
    BY <2>2, <2>6
  <2> QED
    BY <2>5, <2>7, <2>8, <2>9
<1> HIDE DEF W
<1>8. W[1] = A[1]
  BY <1>7
<1>9. ASSUME NEW i \in 1 .. 3
      PROVE  W[2 * i] = X[2 * i - 1] /\ W[2 * i + 1] = X[2 * i]
  <2>1. /\ 2 * i - 1 \in 1 .. 6 /\ 2 * i \in 1 .. 6
        /\ 1 + (2 * i - 1) = 2 * i /\ 1 + 2 * i = 2 * i + 1
    OBVIOUS
  <2>2. W[1 + (2 * i - 1)] = Y[2 * i - 1] /\ W[1 + 2 * i] = Y[2 * i]
    BY <1>7, <2>1
  <2>3. Y[2 * i - 1] = XO[2 * i - 1] /\ Y[2 * i] = XO[2 * i]
    BY <1>6, <2>1
  <2>4. XO[2 * i - 1] = X[2 * i - 1] /\ XO[2 * i] = X[2 * i]
    BY <1>5, <2>1
  <2> QED
    BY <2>1, <2>2, <2>3, <2>4
<1>10. ASSUME NEW i \in 1 .. 4 PROVE W[7 + i] = O[i]
  <2>1. 7 + i = 1 + (6 + i) /\ 6 + i \in 1 .. 10
    OBVIOUS
  <2>2. W[1 + (6 + i)] = Y[6 + i]
    BY <1>7, <2>1
  <2>3. Y[6 + i] = XO[6 + i] /\ XO[6 + i] = O[i]
    BY <1>5, <1>6, <2>1
  <2> QED
    BY <2>1, <2>2, <2>3
<1>11. W[12] = S[1]
  <2>1. W[1 + 11] = Y[11] /\ Y[10 + 1] = S[1]
    BY <1>6, <1>7
  <2> QED
    BY <2>1
<1>12. Len(W) = 12
  BY <1>7
<1> QED
  BY <1>1, <1>2, <1>3, <1>4, <1>8, <1>9, <1>10, <1>11, <1>12 DEF W, A

-----------------------------------------------------------------------------
\* Opening the archive.

\* rows_reached is the end of the extent that reaches furthest.
LEMMA RowsReached ==
    ASSUME Typed
    PROVE  /\ rows_reached \in Nat
           /\ \A i \in DOMAIN file["offset"] \cap DOMAIN file["count"] :
                 End(i) <= rows_reached
           /\ \/ rows_reached = 0
              \/ \E i \in DOMAIN file["offset"] \cap DOMAIN file["count"] :
                    rows_reached = End(i)
<1> DEFINE both == DOMAIN file["offset"] \cap DOMAIN file["count"]
           S == {0} \cup {End(i) : i \in both}
           n == Len(file["offset"])
           f == [i \in 1 .. n |-> IF i \in both THEN End(i) ELSE 0]
<1>1. file["offset"] \in Seq(Nat) /\ file["count"] \in Seq(Nat)
  BY TypeOfNames, NameSets DEF Typed
<1>2. n \in Nat /\ both \subseteq 1 .. n /\ \A i \in both : End(i) \in Nat
  BY <1>1 DEF End
<1> HIDE DEF both, n
<1>3. f \in [1 .. n -> Nat]
  BY <1>2
<1>4. PICK b \in Nat : \A i \in 1 .. n : f[i] <= b
  BY <1>2, <1>3, Bounded
<1>5. \A x \in S : x <= b
  BY <1>2, <1>4
<1>6. S \in SUBSET Nat /\ S # {} /\ 0 \in S
  BY <1>2
<1>7. rows_reached = Max(S)
  BY DEF rows_reached, both, End
<1>8. Max(S) \in S /\ \A y \in S : y <= Max(S)
  BY <1>5, <1>6, Greatest
<1> QED
  BY <1>2, <1>6, <1>7, <1>8 DEF both

\* One write of drop_unindexed_rows.
CutWrite(c) ==
    IF file[c] = Missing \/ Len(file[c]) < rows_reached
    THEN Write(c, file[c], "cut", FALSE)
    ELSE Write(c, SubSeq(file[c], 1, rows_reached), "cut", TRUE)

\* A column is cut to the rows the index reaches.
LEMMA CutWriteIs ==
    ASSUME Typed, NEW c \in ToSet(DataColumns)
    PROVE  /\ Fits(CutWrite(c), c, "cut")
           /\ file[c] # Missing /\ rows_reached <= Len(file[c]) =>
                 /\ Makes(CutWrite(c), c, SubSeq(file[c], 1, rows_reached), "cut")
                 /\ SubSeq(file[c], 1, rows_reached) \in Seq(AnyRow)
                 /\ Len(SubSeq(file[c], 1, rows_reached)) = rows_reached
                 /\ \A j \in 1 .. rows_reached :
                       SubSeq(file[c], 1, rows_reached)[j] = file[c][j]
<1>1. c \in Names /\ TypeOf(c) = Seq(AnyRow) \cup {Missing} /\ file[c] \in TypeOf(c)
  BY TypeOfNames DEF Typed
<1>2. "cut" \in Phases
  BY DEF Phases
<1>3. rows_reached \in Nat
  BY RowsReached
<1> DEFINE reached == rows_reached
           to == SubSeq(file[c], 1, reached)
<1>4. CASE file[c] = Missing \/ Len(file[c]) < reached
  <2>1. CutWrite(c) = Write(c, file[c], "cut", FALSE)
    BY <1>4 DEF CutWrite
  <2>2. ~(file[c] # Missing /\ reached <= Len(file[c]))
    BY <1>1, <1>3, <1>4
  <2> QED
    BY <1>1, <1>2, <2>1, <2>2, WriteFits
<1>5. CASE ~(file[c] = Missing \/ Len(file[c]) < reached)
  <2>1. CutWrite(c) = Write(c, to, "cut", TRUE)
    BY <1>5 DEF CutWrite
  <2>2. file[c] \in Seq(AnyRow) /\ reached <= Len(file[c]) /\ reached \in Nat
    BY <1>1, <1>3, <1>5
  <2> HIDE DEF reached
  <2>3. \A j \in 1 .. reached : file[c][j] \in AnyRow
    BY <2>2
  <2>4. /\ to \in Seq(AnyRow)
        /\ Len(to) = IF 1 <= reached THEN reached - 1 + 1 ELSE 0
        /\ \A j \in 1 .. reached - 1 + 1 : to[j] = file[c][1 + j - 1]
    BY <2>2, <2>3, SubSeqProperties
  <2> HIDE DEF to
  <2>5. to \in TypeOf(c)
    BY <1>1, <2>4
  <2>6. Makes(CutWrite(c), c, to, "cut")
    BY <1>1, <1>2, <2>1, <2>5, WriteMakes
  <2>7. to \in Seq(AnyRow) /\ Len(to) = reached /\ \A j \in 1 .. reached : to[j] = file[c][j]
    BY <2>2, <2>4
  <2> QED
    BY <2>6, <2>7, MakesFits DEF to, reached
<1> QED
  BY <1>4, <1>5

\* drop_unindexed_rows writes to the data columns, in their order.
LEMMA CutWrites ==
    ASSUME Typed
    PROVE  /\ drop_unindexed_rows \in Seq(AnyWrite)
           /\ Len(drop_unindexed_rows) = 3
           /\ \A i \in 1 .. 3 : drop_unindexed_rows[i] = CutWrite(DataColumns[i])
<1>1. drop_unindexed_rows = [i \in 1 .. 3 |-> CutWrite(DataColumns[i])]
  BY NameSets DEF drop_unindexed_rows, CutWrite
<1>2. \A i \in 1 .. 3 : CutWrite(DataColumns[i]) \in AnyWrite
  BY NameSets, CutWriteIs DEF Fits
<1> QED
  BY <1>1, <1>2

\* One write of a recovery.
DropWrite(c) == Write(c, IF file[c] = Missing THEN Missing ELSE <<>>,
                      "recovery", file[c] # Missing)

\* A column that is there is emptied.
LEMMA DropWriteIs ==
    ASSUME NEW c \in ToSet(DataColumns)
    PROVE  /\ Fits(DropWrite(c), c, "recovery")
           /\ file[c] # Missing => Makes(DropWrite(c), c, <<>>, "recovery")
<1>1. c \in Names /\ TypeOf(c) = Seq(AnyRow) \cup {Missing}
  BY TypeOfNames
<1>2. "recovery" \in Phases /\ Missing \in TypeOf(c) /\ <<>> \in TypeOf(c)
  BY <1>1 DEF Phases
<1>3. CASE file[c] = Missing
  <2>1. DropWrite(c) = Write(c, Missing, "recovery", FALSE)
    BY <1>3 DEF DropWrite
  <2> QED
    BY <1>1, <1>2, <1>3, <2>1, WriteFits
<1>4. CASE file[c] # Missing
  <2>1. DropWrite(c) = Write(c, <<>>, "recovery", TRUE)
    BY <1>4 DEF DropWrite
  <2>2. Makes(DropWrite(c), c, <<>>, "recovery")
    BY <1>1, <1>2, <2>1, WriteMakes
  <2> QED
    BY <2>2, MakesFits
<1> QED
  BY <1>3, <1>4

\* A function on 1 .. n is a sequence.
LEMMA FunctionIsSeq ==
    ASSUME NEW S, NEW n \in Nat, NEW s \in [1 .. n -> S]
    PROVE  s \in Seq(S) /\ Len(s) = n
OBVIOUS

\* A recovery empties the index, then the data columns, and clears the mark last.
LEMMA RecoveryWrites ==
    ASSUME Typed
    PROVE  LET writes == recover_interrupted_delete
           IN  /\ writes \in Seq(AnyWrite) /\ Len(writes) = 8
               /\ \A i \in 1 .. 4 : Makes(writes[i], IndexColumns[i], <<>>, "recovery")
               /\ \A i \in 1 .. 3 : writes[4 + i] = DropWrite(DataColumns[i])
               /\ Makes(writes[8], Mark, "Settled", "recovery")
<1> DEFINE I == [i \in 1 .. 4 |-> Write(IndexColumns[i], <<>>, "recovery", TRUE)]
           D == [i \in 1 .. 3 |-> DropWrite(DataColumns[i])]
           S == Settled("recovery")
           ID == I \o D
           W == ID \o S
<1>1. W = recover_interrupted_delete
  BY NameSets DEF recover_interrupted_delete, DropWrite
<1>2. "recovery" \in Phases
  BY DEF Phases
<1>3. \A i \in 1 .. 4 : Makes(I[i], IndexColumns[i], <<>>, "recovery")
  <2> SUFFICES ASSUME NEW i \in 1 .. 4
               PROVE  Makes(I[i], IndexColumns[i], <<>>, "recovery")
    OBVIOUS
  <2> DEFINE c == IndexColumns[i]
  <2>1. c \in ToSet(IndexColumns)
    BY NameSets
  <2>2. I[i] = Write(c, <<>>, "recovery", TRUE)
    OBVIOUS
  <2> HIDE DEF c, I
  <2>3. c \in Names /\ <<>> \in TypeOf(c)
    BY <2>1, EmptyFits DEF Columns
  <2>4. Makes(I[i], c, <<>>, "recovery")
    BY <1>2, <2>2, <2>3, WriteMakes
  <2> QED
    BY <2>4 DEF c
<1>4. I \in Seq(AnyWrite) /\ Len(I) = 4
  <2>1. \A i \in 1 .. 4 : I[i] \in AnyWrite
    BY <1>3 DEF Makes
  <2>2. I = [i \in 1 .. 4 |-> I[i]]
    OBVIOUS
  <2> HIDE DEF I
  <2>3. I \in [1 .. 4 -> AnyWrite]
    BY <2>1, <2>2
  <2> QED
    BY <2>3, FunctionIsSeq
<1>5. D \in Seq(AnyWrite) /\ Len(D) = 3 /\ \A i \in 1 .. 3 : D[i] = DropWrite(DataColumns[i])
  <2>1. \A i \in 1 .. 3 : DropWrite(DataColumns[i]) \in AnyWrite
    BY NameSets, DropWriteIs DEF Fits
  <2> QED
    BY <2>1
<1>6. S \in Seq(AnyWrite) /\ Len(S) = 1 /\ Makes(S[1], Mark, "Settled", "recovery")
  BY <1>2, MarkWrites
<1> HIDE DEF I, D, S
<1>7. /\ ID \in Seq(AnyWrite) /\ Len(ID) = 7
      /\ \A j \in 1 .. 4 : ID[j] = I[j]
      /\ \A m \in 1 .. 3 : ID[4 + m] = D[m]
  <2>1. I \in Seq(AnyWrite) /\ D \in Seq(AnyWrite)
    BY <1>4, <1>5
  <2>2. Len(I) = 4 /\ Len(D) = 3
    BY <1>4, <1>5
  <2>3. /\ I \o D \in Seq(AnyWrite) /\ Len(I \o D) = Len(I) + Len(D)
        /\ \A j \in 1 .. Len(I) : (I \o D)[j] = I[j]
        /\ \A m \in 1 .. Len(D) : (I \o D)[Len(I) + m] = D[m]
    BY <2>1, ConcatAt
  <2> HIDE DEF ID
  <2>4. ID = I \o D
    BY DEF ID
  <2> QED
    BY <2>2, <2>3, <2>4
<1> HIDE DEF ID
<1>8. /\ W \in Seq(AnyWrite) /\ Len(W) = 8
      /\ \A j \in 1 .. 7 : W[j] = ID[j]
      /\ W[8] = S[1]
  <2>1. ID \in Seq(AnyWrite) /\ S \in Seq(AnyWrite)
    BY <1>6, <1>7
  <2>2. Len(ID) = 7 /\ Len(S) = 1
    BY <1>6, <1>7
  <2>3. /\ ID \o S \in Seq(AnyWrite) /\ Len(ID \o S) = Len(ID) + Len(S)
        /\ \A j \in 1 .. Len(ID) : (ID \o S)[j] = ID[j]
        /\ \A m \in 1 .. Len(S) : (ID \o S)[Len(ID) + m] = S[m]
    BY <2>1, ConcatAt
  <2> HIDE DEF W
  <2>4. W = ID \o S
    BY DEF W
  <2>5. (ID \o S)[7 + 1] = S[1]
    BY <2>2, <2>3
  <2> QED
    BY <2>2, <2>3, <2>4, <2>5
<1> HIDE DEF W
<1>9. \A i \in 1 .. 4 : W[i] = I[i]
  BY <1>7, <1>8
<1>10. \A i \in 1 .. 3 : W[4 + i] = D[i]
  BY <1>7, <1>8
<1> QED
  BY <1>1, <1>3, <1>5, <1>6, <1>8, <1>9, <1>10

\* An open writes values of the right types.
LEMMA OpenFits ==
    ASSUME Typed
    PROVE  open_writes \in Seq(AnyWrite)
BY CutWrites, RecoveryWrites DEF open_writes

-----------------------------------------------------------------------------
\* Every value of the model has its type, whatever stops an operation.

\* An insert writes values of the right types.
LEMMA InsertFits ==
    ASSUME Typed, NEW d \in Days, NEW rows \in RowCounts, Len(fetched) < MaxFetches,
           file[OffsetSource] # Missing
    PROVE  append_rows(rows, Len(fetched) + 1)
             \o insert_or_replace(d, Len(file[OffsetSource]), rows, Len(fetched) + 1)
             \in Seq(AnyWrite)
<1> DEFINE f == Len(fetched) + 1
           offset == Len(file[OffsetSource])
<1>1. fetched \in Seq([day : Days, rows : RowCounts]) /\ Len(fetched) \in Nat
  BY DEF Typed
<1>2. f \in 1 .. MaxFetches /\ rows \in Nat
  BY <1>1, ConstantsAssumption
<1>3. offset \in Nat
  <2>1. OffsetSource \in ToSet(DataColumns)
    BY NameSets DEF OffsetSource
  <2>2. file[OffsetSource] \in Seq(AnyRow)
    BY <2>1, TypeOfNames DEF Typed
  <2> QED
    BY <2>2
<1> HIDE DEF f, offset
<1>4. append_rows(rows, f) \in Seq(AnyWrite)
  BY <1>2, AppendWrites
<1>5. insert_or_replace(d, offset, rows, f) \in Seq(AnyWrite)
  BY <1>2, <1>3, IndexWrites
<1>6. append_rows(rows, f) \o insert_or_replace(d, offset, rows, f) \in Seq(AnyWrite)
  BY <1>4, <1>5, ConcatProperties
<1> QED
  BY <1>6 DEF f, offset

\* An archive starts with the right types.
LEMMA TypedInit == Init => Typed
<1> SUFFICES ASSUME Init PROVE Typed
  OBVIOUS
<1>1. file = [name \in Names |-> IF name = Mark THEN "Settled" ELSE <<>>]
  BY DEF Init, Names
<1>2. ASSUME NEW name \in Names PROVE file[name] \in TypeOf(name)
  <2>1. CASE name = Mark
    BY <1>1, <2>1, TypeOfNames
  <2>2. CASE name # Mark
    BY <1>1, <2>2, EmptyFits DEF Names
  <2> QED
    BY <2>1, <2>2
<1>3. fetched = <<>> /\ session = "Open" /\ stopped = {} /\ MaxFetches \in Nat
  BY ConstantsAssumption DEF Init
<1> QED
  BY <1>1, <1>2, <1>3 DEF Typed

\* Every operation keeps the types.
LEMMA TypedStep == Typed /\ [Next]_vars => Typed'
<1> SUFFICES ASSUME Typed, [Next]_vars PROVE Typed'
  OBVIOUS
<1>1. /\ FileTyped(file) /\ session \in {"Open", "Closed", "Refused"}
      /\ fetched \in Seq([day : Days, rows : RowCounts]) /\ Len(fetched) <= MaxFetches
      /\ stopped \subseteq Stops
  BY DEF Typed, FileTyped
<1>2. SUFFICES /\ FileTyped(file') /\ session' \in {"Open", "Closed", "Refused"}
               /\ fetched' \in Seq([day : Days, rows : RowCounts])
               /\ Len(fetched') <= MaxFetches
               /\ stopped' \subseteq Stops
  BY DEF Typed, FileTyped
<1>3. ASSUME NEW d \in Days, NEW rows \in RowCounts, insert_or_replace_day(d, rows)
      PROVE  /\ FileTyped(file') /\ session' \in {"Open", "Closed", "Refused"}
             /\ fetched' \in Seq([day : Days, rows : RowCounts])
             /\ Len(fetched') <= MaxFetches
             /\ stopped' \subseteq Stops
  <2>1. /\ Len(fetched) < MaxFetches /\ file[OffsetSource] # Missing
        /\ fetched' = Append(fetched, [day |-> d, rows |-> rows])
    BY <1>3 DEF insert_or_replace_day
  <2>2. /\ fetched' \in Seq([day : Days, rows : RowCounts])
        /\ Len(fetched') = Len(fetched) + 1 /\ Len(fetched) \in Nat
    BY <1>1, <2>1, AppendProperties
  <2> DEFINE writes == append_rows(rows, Len(fetched) + 1)
                       \o insert_or_replace(d, Len(file[OffsetSource]), rows, Len(fetched) + 1)
  <2>3. Perform(writes)
    BY <1>3, <2>2 DEF insert_or_replace_day
  <2>4. writes \in Seq(AnyWrite)
    BY <2>1, InsertFits
  <2> HIDE DEF writes
  <2>5. /\ FileTyped(file') /\ session' \in {session, "Closed"}
        /\ stopped' \subseteq Stops
    BY <2>3, <2>4, PerformFits
  <2>6. Len(fetched') <= MaxFetches
    BY <2>1, <2>2, ConstantsAssumption
  <2> QED
    BY <1>1, <2>2, <2>5, <2>6
<1>4. ASSUME NEW cutoff, delete_days_before(cutoff)
      PROVE  /\ FileTyped(file') /\ session' \in {"Open", "Closed", "Refused"}
             /\ fetched' = fetched /\ stopped' \subseteq Stops
  <2>1. PICK kept \in KeptRows(cutoff) : \E laid \in Laid(kept) :
           /\ \A c \in ToSet(IndexColumns), i \in DOMAIN kept : kept[i] \in DOMAIN file[c]
           /\ Perform(retain_days(kept, laid))
           /\ fetched' = fetched
    BY <1>4 DEF delete_days_before
  <2>2. PICK laid \in Laid(kept) :
           /\ \A c \in ToSet(IndexColumns), i \in DOMAIN kept : kept[i] \in DOMAIN file[c]
           /\ Perform(retain_days(kept, laid))
           /\ fetched' = fetched
    BY <2>1
  <2>3. Plan(kept, laid, cutoff)
    BY <2>2 DEF Plan
  <2>4. /\ FileTyped(file') /\ session' \in {session, "Closed"}
        /\ stopped' \subseteq Stops
    BY <2>2, <2>3, DeleteFits, PerformFits
  <2> QED
    BY <1>1, <2>2, <2>4
<1>5. ASSUME NEW recovery, open_or_create(recovery)
      PROVE  /\ FileTyped(file') /\ session' \in {"Open", "Closed", "Refused"}
             /\ fetched' = fetched /\ stopped' \subseteq Stops
  <2> DEFINE W == open_writes
  <2>1. W \in Seq(AnyWrite) /\ Reach(W) \in 0 .. Len(W)
    BY OpenFits, ReachIs
  <2>2. PICK k \in 0 .. Len(W) : file' = After(W, k)
    BY <1>5, <2>1 DEF open_or_create, StopsAfter
  <2>3. /\ session' \in {"Open", "Closed", "Refused"}
        /\ fetched' = fetched /\ stopped' = stopped
    BY <1>5 DEF open_or_create
  <2> HIDE DEF W
  <2>4. FileTyped(file')
    BY <2>1, <2>2, AfterFits
  <2> QED
    BY <1>1, <2>3, <2>4
<1>6. CASE CloseArchive
  BY <1>1, <1>6 DEF CloseArchive
<1>7. CASE UNCHANGED vars
  BY <1>1, <1>7 DEF vars
<1> QED
  BY <1>1, <1>3, <1>4, <1>5, <1>6, <1>7 DEF Next

\* The types, name by name, always hold.
THEOREM TypedAlways == Spec => []Typed
BY TypedInit, TypedStep, PTL DEF Spec

\* Every variable keeps its type: however many writes of an operation were made,
\* no index column holds anything but days, offsets, counts and fetches, and the
\* mark is set or cleared.
THEOREM TypeCorrect == Spec => []TypeOK
BY TypedAlways, TypedIsTypeOK, PTL

-----------------------------------------------------------------------------
\* The inductive invariant, for as long as the archive survived what stopped its
\* operations.  Unless the process died with a column unlinked, after which the
\* archive stays in that delete for ever, no column is unlinked between two
\* operations, no open was refused, the index is consistent unless a delete is
\* in flight, and the columns of an open archive are of one length.  That entries name rows of their
\* own is not inductive alone: a delete moves every extent of every column, so
\* the index has to name each day once, with all of its columns of one length,
\* for the moved extents to be those of the rows kept.

\* No data column is unlinked.
NoneMissing == \A c \in ToSet(DataColumns) : file[c] # Missing

Parallel ==
    \A c \in ToSet(DataColumns) : Len(file[c]) = Len(file[OffsetSource])

\* The fetch a row of the index names was one of its day, as many rows as the
\* row counts, and those rows are where the row says, in every data column.
Own(i) ==
    LET f == file["fetched_at"][i]
    IN  /\ f \in 1 .. Len(fetched)
        /\ fetched[f].day = file["day"][i]
        /\ fetched[f].rows = file["count"][i]
        /\ \A c \in ToSet(DataColumns) :
              /\ End(i) <= Len(file[c])
              /\ \A n \in 1 .. file["count"][i] : file[c][Start(i) + n] = <<f, n>>

\* The index columns are of one length, a day has one row, and each row is right.
Consistent ==
    /\ \A c \in ToSet(IndexColumns) : Len(file[c]) = Len(file["day"])
    /\ \A i, j \in 1 .. Len(file["day"]) :
          file["day"][i] = file["day"][j] => i = j
    /\ \A i \in 1 .. Len(file["day"]) : Own(i)

\* An archive of which no column is unlinked.
Sound ==
    /\ NoneMissing
    /\ session # "Refused"
    /\ IsSettled \/ session = "Open" => Consistent
    /\ session = "Open" => Parallel

\* An archive that no open gets out of its delete.
Stuck ==
    /\ ~NoneMissing
    /\ file[Mark] = "InFlight"
    /\ session # "Open"
    /\ <<"unlinked", "Killed">> \in stopped

\* The invariant.
Upright == Survived => Sound \/ Stuck

\* No two columns have one name.
LEMMA Distinct ==
    /\ \A i, j \in 1 .. 3 : DataColumns[i] = DataColumns[j] => i = j
    /\ \A i, j \in 1 .. 4 : IndexColumns[i] = IndexColumns[j] => i = j
    /\ \A i \in 1 .. 3, j \in 1 .. 4 : DataColumns[i] # IndexColumns[j]
    /\ \A i \in 1 .. 3 : DataColumns[i] # Mark
    /\ \A j \in 1 .. 4 : IndexColumns[j] # Mark
    /\ \A c \in ToSet(DataColumns) : \E i \in 1 .. 3 : c = DataColumns[i]
    /\ \A c \in ToSet(IndexColumns) : \E j \in 1 .. 4 : c = IndexColumns[j]
<1>1. 1 .. 3 = {1, 2, 3} /\ 1 .. 4 = {1, 2, 3, 4}
  OBVIOUS
<1>2. DataColumns[1] = "id" /\ DataColumns[2] = "begin" /\ DataColumns[3] = "peak"
  BY DEF DataColumns
<1>3. /\ IndexColumns[1] = "day" /\ IndexColumns[2] = "offset"
      /\ IndexColumns[3] = "count" /\ IndexColumns[4] = "fetched_at"
  BY DEF IndexColumns
<1>4. \A i, j \in {1, 2, 3} : DataColumns[i] = DataColumns[j] => i = j
  BY <1>2
<1>5. \A i, j \in {1, 2, 3, 4} : IndexColumns[i] = IndexColumns[j] => i = j
  BY <1>3
<1>6. \A i \in {1, 2, 3}, j \in {1, 2, 3, 4} : DataColumns[i] # IndexColumns[j]
  BY <1>2, <1>3
<1>7. /\ \A i \in {1, 2, 3} : DataColumns[i] # Mark
      /\ \A j \in {1, 2, 3, 4} : IndexColumns[j] # Mark
  BY <1>2, <1>3
<1>8. \A c \in ToSet(DataColumns) : \E i \in {1, 2, 3} : c = DataColumns[i]
  BY <1>2, NameSets
<1>9. \A c \in ToSet(IndexColumns) : \E j \in {1, 2, 3, 4} : c = IndexColumns[j]
  BY <1>3, NameSets
<1> QED
  BY <1>1, <1>4, <1>5, <1>6, <1>7, <1>8, <1>9

\* Only the i-th of n writes is of the column, or none is.
WrittenAt(writes, n, i, name) ==
    /\ n \in Nat /\ i \in 1 .. n /\ writes[i].name = name
    /\ \A j \in 1 .. n : j # i => writes[j].name # name
NotWritten(writes, n, name) ==
    n \in Nat /\ \A j \in 1 .. n : writes[j].name # name

\* A column that one write is to has its value from that write on.
LEMMA OneWrite ==
    ASSUME NEW writes, NEW n, NEW i, NEW name \in DOMAIN file,
           WrittenAt(writes, n, i, name), NEW k \in 0 .. n
    PROVE  After(writes, k)[name] = IF i <= k THEN writes[i].to ELSE file[name]
<1>0. /\ n \in Nat /\ k \in Nat /\ i \in 1 .. n /\ writes[i].name = name
      /\ \A j \in 1 .. n : j # i => writes[j].name # name
  BY DEF WrittenAt
<1>1. CASE i <= k
  <2>1. i \in 1 .. k /\ \A j \in i + 1 .. k : writes[j].name # name
    BY <1>0, <1>1
  <2> QED
    BY <1>0, <1>1, <2>1, AfterIs
<1>2. CASE ~(i <= k)
  <2>1. \A j \in 1 .. k : writes[j].name # name
    BY <1>0, <1>2
  <2> QED
    BY <1>0, <1>2, <2>1, AfterIs
<1> QED
  BY <1>1, <1>2

\* A column that no write is to keeps its value.
LEMMA NoWrite ==
    ASSUME NEW writes, NEW n, NEW name \in DOMAIN file,
           NotWritten(writes, n, name), NEW k \in 0 .. n
    PROVE  After(writes, k)[name] = file[name]
<1>1. k \in Nat /\ \A j \in 1 .. k : writes[j].name # name
  BY DEF NotWritten
<1> QED
  BY <1>1, AfterIs

\* How an insert or a delete ends that the archive survives, where every one of
\* its writes is possible.
LEMMA Ends ==
    ASSUME Survived', NEW writes \in Seq(AnyWrite), Perform(writes),
           \A i \in 1 .. Len(writes) : writes[i].possible
    PROVE  \/ file' = After(writes, Len(writes)) /\ session' = session
           \/ /\ session' = "Closed"
              /\ \E k \in 0 .. Len(writes) - 1 :
                    /\ file' = After(writes, k)
                    /\ writes[k + 1].phase \in {"rows", "delete", "unlinked"}
                    /\ <<writes[k + 1].phase, "Killed">> \in stopped'
<1>1. Reach(writes) = Len(writes) /\ Len(writes) \in Nat
  BY ReachIs
<1>2. CASE file' = After(writes, Reach(writes)) /\ session' = session
  BY <1>1, <1>2
<1>3. ASSUME NEW k \in 0 .. Len(writes), NEW how \in {"Error", "Killed"},
             StopsAfter(writes, k),
             session' = IF how = "Killed" THEN "Closed" ELSE session,
             stopped' = stopped \cup {<<writes[k + 1].phase, how>>}
      PROVE  /\ k \in 0 .. Len(writes) - 1
             /\ file' = After(writes, k)
             /\ writes[k + 1].phase \in {"rows", "delete", "unlinked"}
             /\ <<writes[k + 1].phase, "Killed">> \in stopped'
             /\ session' = "Closed"
  <2>1. k \in 0 .. Len(writes) - 1 /\ file' = After(writes, k)
    BY <1>1, <1>3 DEF StopsAfter
  <2>2. <<writes[k + 1].phase, how>> \in stopped'
    BY <1>3
  <2>3. <<writes[k + 1].phase, how>> \in SurvivedStops
    BY <2>2 DEF Survived
  <2>4. writes[k + 1].phase \in {"rows", "delete", "unlinked"} /\ how = "Killed"
    BY <2>3 DEF SurvivedStops
  <2> QED
    BY <1>3, <2>1, <2>2, <2>4
<1> QED
  BY <1>2, <1>3 DEF Perform

\* What the archive survived so far it had survived before.
LEMMA SurvivedBefore ==
    ASSUME [Next]_vars, Survived'
    PROVE  Survived
<1>1. \A writes : Perform(writes) => stopped \subseteq stopped'
  BY DEF Perform
<1>2. stopped \subseteq stopped'
  BY <1>1 DEF Next, insert_or_replace_day, delete_days_before, open_or_create,
                 CloseArchive, vars
<1> QED
  BY <1>2 DEF Survived

\* The type of a data column that is there.
LEMMA DataTypes ==
    ASSUME Typed, NoneMissing, NEW c \in ToSet(DataColumns)
    PROVE  /\ c \in DOMAIN file /\ c \in Names
           /\ file[c] \in Seq(AnyRow) /\ Len(file[c]) \in Nat
<1>1. c \in DOMAIN file /\ c \in Names /\ file[c] \in TypeOf(c)
  BY TypeOfNames DEF Typed
<1>2. file[c] \in Seq(AnyRow)
  BY <1>1, TypeOfNames DEF NoneMissing
<1> QED
  BY <1>1, <1>2

\* The types of a row of a consistent index.
LEMMA RowOfIndex ==
    ASSUME Typed, Consistent, NEW i \in 1 .. Len(file["day"])
    PROVE  /\ \A c \in ToSet(IndexColumns) : i \in DOMAIN file[c]
           /\ i \in Nat /\ Start(i) \in Nat /\ file["count"][i] \in Nat /\ End(i) \in Nat
           /\ End(i) = Start(i) + file["count"][i]
           /\ file["day"][i] \in Days /\ file["fetched_at"][i] \in 1 .. MaxFetches
<1>1. ASSUME NEW c \in ToSet(IndexColumns) PROVE i \in DOMAIN file[c]
  <2>1. file[c] \in Seq(IndexType(c)) /\ Len(file[c]) = Len(file["day"])
    BY IndexTypes DEF Consistent
  <2> QED
    BY <2>1
<1> QED
  BY <1>1, RowTypes

\* The index goes on naming rows of its own where it stays as it is and the
\* rows it names do.
LEMMA IndexStands ==
    ASSUME Typed, Consistent,
           \A c \in ToSet(IndexColumns) : file'[c] = file[c],
           \A f \in 1 .. Len(fetched) :
              f \in 1 .. Len(fetched') /\ fetched'[f] = fetched[f],
           \A c \in ToSet(DataColumns), i \in 1 .. Len(file["day"]) :
              /\ End(i) <= Len(file'[c])
              /\ \A n \in 1 .. file["count"][i] :
                    file'[c][Start(i) + n] = file[c][Start(i) + n]
    PROVE  Consistent'
<1>1. /\ file'["day"] = file["day"] /\ file'["offset"] = file["offset"]
      /\ file'["count"] = file["count"] /\ file'["fetched_at"] = file["fetched_at"]
  BY NameSets
<1>2. \A c \in ToSet(IndexColumns) : Len(file'[c]) = Len(file'["day"])
  BY <1>1 DEF Consistent
<1>3. \A i, j \in 1 .. Len(file'["day"]) : file'["day"][i] = file'["day"][j] => i = j
  BY <1>1 DEF Consistent
<1>4. ASSUME NEW i \in 1 .. Len(file'["day"]) PROVE Own(i)'
  <2>1. i \in 1 .. Len(file["day"]) /\ Own(i)
    BY <1>1, <1>4 DEF Consistent
  <2>2. End(i)' = End(i) /\ Start(i)' = Start(i)
    BY <1>1 DEF End, Start
  <2> DEFINE f == file["fetched_at"][i]
  <2>3. /\ f \in 1 .. Len(fetched)
        /\ fetched[f].day = file["day"][i] /\ fetched[f].rows = file["count"][i]
        /\ \A c \in ToSet(DataColumns) :
              \A n \in 1 .. file["count"][i] : file[c][Start(i) + n] = <<f, n>>
    BY <2>1 DEF Own
  <2>4. f \in 1 .. Len(fetched') /\ fetched'[f] = fetched[f] /\ f = file'["fetched_at"][i]
    BY <1>1, <2>3
  <2>5. \A c \in ToSet(DataColumns) :
           /\ End(i) <= Len(file'[c])
           /\ \A n \in 1 .. file["count"][i] : file'[c][Start(i) + n] = <<f, n>>
    BY <2>1, <2>3
  <2> HIDE DEF f
  <2> QED
    BY <1>1, <2>2, <2>3, <2>4, <2>5 DEF Own
<1> QED
  BY <1>2, <1>3, <1>4 DEF Consistent

\* The archive starts as the invariant has it.
LEMMA SoundInit == Init => Sound
<1> SUFFICES ASSUME Init PROVE Sound
  OBVIOUS
<1>1. \A c \in Columns : file[c] = <<>>
  BY NameSets DEF Init
<1>2. <<>> # Missing
  <2>1. <<>> \in Seq(AnyRow)
    OBVIOUS
  <2> QED
    BY <2>1, MissingAssumption
<1>3. \A c \in ToSet(DataColumns) \cup ToSet(IndexColumns) : file[c] = <<>>
  BY <1>1 DEF Columns
<1>4. file["day"] = <<>> /\ file[OffsetSource] = <<>>
  BY <1>1, NameSets DEF OffsetSource
<1>5. Consistent
  BY <1>3, <1>4 DEF Consistent
<1>6. NoneMissing /\ Parallel
  BY <1>2, <1>3, <1>4 DEF NoneMissing, Parallel
<1>7. session # "Refused"
  BY DEF Init
<1> QED
  BY <1>5, <1>6, <1>7 DEF Sound

\* The index reaches no further than any of the columns.
LEMMA ReachedIsThere ==
    ASSUME Typed, NoneMissing, Consistent, NEW c \in ToSet(DataColumns)
    PROVE  rows_reached <= Len(file[c])
<1>1. rows_reached \in Nat /\ Len(file[c]) \in Nat
  BY RowsReached, DataTypes
<1>2. ASSUME NEW i \in DOMAIN file["offset"] \cap DOMAIN file["count"]
      PROVE  End(i) <= Len(file[c])
  <2>1. file["offset"] \in Seq(Nat) /\ Len(file["offset"]) = Len(file["day"])
    BY TypeOfNames, NameSets DEF Typed, Consistent
  <2>2. i \in 1 .. Len(file["day"])
    BY <2>1
  <2> QED
    BY <2>2 DEF Consistent, Own
<1> QED
  BY <1>1, <1>2, RowsReached

\* An open performs all of its writes, or some and the archive stays closed.
LEMMA OpenEnds ==
    ASSUME Typed, NEW recovery, open_or_create(recovery),
           \A i \in 1 .. Len(open_writes) : open_writes[i].possible
    PROVE  \E k \in 0 .. Len(open_writes) :
              /\ file' = After(open_writes, k)
              /\ \/ k = Len(open_writes) /\ session' = "Open"
                 \/ k # Len(open_writes) /\ session' = "Closed"
<1> DEFINE W == open_writes
<1>1. W \in Seq(AnyWrite)
  BY OpenFits
<1>2. Reach(W) = Len(W) /\ Len(W) \in Nat
  BY <1>1, ReachIs
<1>3. \/ file' = After(W, Reach(W)) /\ session' = IF IsRefused(W) THEN "Refused" ELSE "Open"
      \/ /\ \E k \in 0 .. Len(W) : StopsAfter(W, k)
         /\ session' = "Closed"
  BY DEF open_or_create
<1> HIDE DEF W
<1>4. CASE file' = After(W, Reach(W)) /\ session' = IF IsRefused(W) THEN "Refused" ELSE "Open"
  <2>1. ~IsRefused(W)
    BY <1>2 DEF IsRefused
  <2>2. Len(W) \in 0 .. Len(W) /\ session' = "Open" /\ file' = After(W, Len(W))
    BY <1>2, <1>4, <2>1
  <2> QED
    BY <2>2 DEF W
<1>5. ASSUME NEW k \in 0 .. Len(W), StopsAfter(W, k)
      PROVE  file' = After(W, k) /\ k # Len(W)
  BY <1>2, <1>5 DEF StopsAfter
<1> QED
  BY <1>3, <1>4, <1>5 DEF W

\* An open of a settled archive keeps the invariant, the mark and the index.
LEMMA CutSound ==
    ASSUME Typed, Sound, IsSettled, NEW recovery, open_or_create(recovery)
    PROVE  /\ Sound'
           /\ file'[Mark] = file[Mark]
           /\ \A c \in ToSet(IndexColumns) : file'[c] = file[c]
<1> DEFINE W == drop_unindexed_rows
           reached == rows_reached
<1>1. NoneMissing /\ Consistent
  BY DEF Sound
<1>2. W = open_writes /\ fetched' = fetched
  BY DEF open_writes, open_or_create
<1>3. /\ W \in Seq(AnyWrite) /\ Len(W) = 3
      /\ \A i \in 1 .. 3 : W[i] = CutWrite(DataColumns[i])
  BY CutWrites
<1>4. reached \in Nat /\ \A i \in 1 .. Len(file["day"]) : End(i) <= reached
  <2>1. ASSUME NEW i \in 1 .. Len(file["day"]) PROVE End(i) <= reached
    <3>1. i \in DOMAIN file["offset"] /\ i \in DOMAIN file["count"]
      BY <1>1, RowOfIndex, NameSets
    <3> QED
      BY <3>1, RowsReached
  <2> QED
    BY <2>1, RowsReached
<1>5. ASSUME NEW i \in 1 .. 3
      PROVE  LET c  == DataColumns[i]
                 to == SubSeq(file[c], 1, reached)
             IN  /\ Makes(W[i], c, to, "cut")
                 /\ to \in Seq(AnyRow) /\ Len(to) = reached
                 /\ \A j \in 1 .. reached : to[j] = file[c][j]
                 /\ c \in ToSet(DataColumns) /\ c \in DOMAIN file
  <2> DEFINE c == DataColumns[i]
  <2>1. c \in ToSet(DataColumns)
    BY NameSets
  <2>2. W[i] = CutWrite(c)
    BY <1>3
  <2> HIDE DEF c
  <2>3. file[c] # Missing /\ reached <= Len(file[c]) /\ c \in DOMAIN file
    BY <1>1, <2>1, ReachedIsThere, DataTypes DEF NoneMissing
  <2> QED
    BY <2>1, <2>2, <2>3, CutWriteIs DEF c
<1> HIDE DEF W
<1>6. \A i \in 1 .. 3 : W[i].possible /\ W[i].name = DataColumns[i]
  BY <1>5 DEF Makes
<1>7. PICK k \in 0 .. 3 : /\ file' = After(W, k)
                          /\ \/ k = 3 /\ session' = "Open"
                             \/ k # 3 /\ session' = "Closed"
  <2>1. \A i \in 1 .. Len(open_writes) : open_writes[i].possible
    BY <1>2, <1>3, <1>6
  <2>2. PICK k \in 0 .. Len(open_writes) :
           /\ file' = After(open_writes, k)
           /\ \/ k = Len(open_writes) /\ session' = "Open"
              \/ k # Len(open_writes) /\ session' = "Closed"
    BY <2>1, OpenEnds
  <2> QED
    BY <1>2, <1>3, <2>2, Zenon
<1>8. ASSUME NEW i \in 1 .. 3
      PROVE  LET c == DataColumns[i]
             IN  file'[c] = IF i <= k THEN SubSeq(file[c], 1, reached) ELSE file[c]
  <2> DEFINE c == DataColumns[i]
  <2>1. WrittenAt(W, 3, i, c)
    BY <1>6, Distinct DEF WrittenAt
  <2>2. W[i].to = SubSeq(file[c], 1, reached) /\ c \in DOMAIN file
    BY <1>5 DEF Makes
  <2> HIDE DEF c, reached
  <2>3. c \in DOMAIN file /\ k \in 0 .. 3
    BY <1>7, <2>2
  <2>4. After(W, k)[c] = IF i <= k THEN W[i].to ELSE file[c]
    BY <2>1, <2>3, OneWrite
  <2>5. file'[c] = IF i <= k THEN SubSeq(file[c], 1, reached) ELSE file[c]
    BY <1>7, <2>2, <2>4
  <2> QED
    BY <2>5 DEF c
<1>9. \A c \in ToSet(IndexColumns) : file'[c] = file[c]
  <2> SUFFICES ASSUME NEW c \in ToSet(IndexColumns) PROVE file'[c] = file[c]
    OBVIOUS
  <2>1. NotWritten(W, 3, c)
    BY <1>6, Distinct DEF NotWritten
  <2>2. c \in DOMAIN file
    BY IndexTypes DEF Typed
  <2> QED
    BY <1>7, <2>1, <2>2, NoWrite
<1> HIDE DEF reached
<1>10. ASSUME NEW c \in ToSet(DataColumns)
       PROVE  /\ file'[c] # Missing
              /\ \A i \in 1 .. Len(file["day"]) :
                    /\ End(i) <= Len(file'[c])
                    /\ \A n \in 1 .. file["count"][i] :
                          file'[c][Start(i) + n] = file[c][Start(i) + n]
              /\ k = 3 => Len(file'[c]) = reached
  <2>1. PICK i \in 1 .. 3 : c = DataColumns[i]
    BY Distinct
  <2>2. CASE i <= k
    <3> DEFINE to == SubSeq(file[c], 1, reached)
    <3>1. /\ to \in Seq(AnyRow) /\ Len(to) = reached
          /\ \A j \in 1 .. reached : to[j] = file[c][j]
      BY <1>5, <2>1
    <3>2. file'[c] = to
      BY <1>8, <2>1, <2>2
    <3> HIDE DEF to
    <3>3. to # Missing
      BY <3>1, MissingAssumption
    <3>4. ASSUME NEW r \in 1 .. Len(file["day"]), NEW n \in 1 .. file["count"][r]
          PROVE  to[Start(r) + n] = file[c][Start(r) + n]
      <4>1. /\ Start(r) \in Nat /\ End(r) = Start(r) + file["count"][r]
            /\ file["count"][r] \in Nat /\ End(r) <= reached
        BY <1>1, <1>4, RowOfIndex
      <4>2. Start(r) + n \in 1 .. reached
        BY <1>4, <4>1
      <4> QED
        BY <3>1, <4>2
    <3> QED
      BY <1>4, <3>1, <3>2, <3>3, <3>4
  <2>3. CASE ~(i <= k)
    <3>1. file'[c] = file[c]
      BY <1>8, <2>1, <2>3
    <3>2. k # 3
      BY <2>3
    <3> QED
      BY <1>1, <3>1, <3>2 DEF NoneMissing, Consistent, Own
  <2> QED
    BY <2>2, <2>3
<1>11. Consistent'
  <2>1. \A f \in 1 .. Len(fetched) : f \in 1 .. Len(fetched') /\ fetched'[f] = fetched[f]
    BY <1>2
  <2> QED
    BY <1>1, <1>9, <1>10, <2>1, IndexStands
<1>12. session' = "Open" => Parallel'
  <2>1. OffsetSource \in ToSet(DataColumns)
    BY NameSets DEF OffsetSource
  <2> QED
    BY <1>7, <1>10, <2>1 DEF Parallel
<1>13. NoneMissing' /\ session' # "Refused"
  BY <1>7, <1>10 DEF NoneMissing
<1>14. file'[Mark] = file[Mark]
  <2>1. NotWritten(W, 3, Mark)
    BY <1>6, Distinct DEF NotWritten
  <2>2. Mark \in DOMAIN file
    BY TypeOfNames DEF Typed
  <2> QED
    BY <1>7, <2>1, <2>2, NoWrite
<1> QED
  BY <1>9, <1>11, <1>12, <1>13, <1>14 DEF Sound

\* An open that recovers empties the index, and has not cleared the mark before it is
\* done.
LEMMA RecoverySound ==
    ASSUME Typed, Sound, ~IsSettled, NEW recovery, open_or_create(recovery)
    PROVE  /\ Sound'
           /\ session' = "Open" => /\ IsSettled'
                                   /\ \A c \in ToSet(IndexColumns) : file'[c] = <<>>
           /\ session' # "Open" => ~IsSettled'
<1> DEFINE W == recover_interrupted_delete
<1>1. NoneMissing /\ file[Mark] # "Settled"
  BY DEF Sound, IsSettled
<1>2. W = open_writes
  BY DEF open_writes
<1>3. /\ W \in Seq(AnyWrite) /\ Len(W) = 8
      /\ \A i \in 1 .. 4 : Makes(W[i], IndexColumns[i], <<>>, "recovery")
      /\ \A i \in 1 .. 3 : W[4 + i] = DropWrite(DataColumns[i])
      /\ Makes(W[8], Mark, "Settled", "recovery")
  BY RecoveryWrites
<1> HIDE DEF W
<1>4. \A i \in 1 .. 3 : Makes(W[4 + i], DataColumns[i], <<>>, "recovery")
  BY <1>1, <1>3, NameSets, DropWriteIs DEF NoneMissing
<1>5. ASSUME NEW j \in 1 .. 8
      PROVE  j \in 1 .. 4 \/ (\E i \in 1 .. 3 : j = 4 + i) \/ j = 8
  <2>1. j \in 1 .. 4 \/ j = 4 + 1 \/ j = 4 + 2 \/ j = 4 + 3 \/ j = 8
    OBVIOUS
  <2> QED
    BY <2>1
<1>6. /\ \A i \in 1 .. 4 : W[i].name = IndexColumns[i] /\ W[i].possible /\ W[i].to = <<>>
      /\ \A i \in 1 .. 3 : /\ W[4 + i].name = DataColumns[i] /\ W[4 + i].possible
                           /\ W[4 + i].to = <<>>
      /\ W[8].name = Mark /\ W[8].possible /\ W[8].to = "Settled"
  BY <1>3, <1>4 DEF Makes
<1>7. PICK k \in 0 .. 8 : /\ file' = After(W, k)
                          /\ \/ k = 8 /\ session' = "Open"
                             \/ k # 8 /\ session' = "Closed"
  <2>1. \A j \in 1 .. Len(open_writes) : open_writes[j].possible
    BY <1>2, <1>3, <1>5, <1>6
  <2> QED
    BY <1>2, <1>3, <2>1, OpenEnds
<1>8. \A name \in Names : name \in DOMAIN file
  BY DEF Typed
<1>9. ASSUME NEW i \in 1 .. 3
      PROVE  file'[DataColumns[i]] = IF 4 + i <= k THEN <<>> ELSE file[DataColumns[i]]
  <2> DEFINE c == DataColumns[i]
  <2>1. WrittenAt(W, 8, 4 + i, c)
    <3>1. ASSUME NEW j \in 1 .. 8, j # 4 + i PROVE W[j].name # c
      BY <1>5, <1>6, <3>1, Distinct
    <3>2. W[4 + i].name = c /\ 4 + i \in 1 .. 8
      BY <1>6
    <3> HIDE DEF c
    <3> QED
      BY <3>1, <3>2 DEF WrittenAt
  <2>2. c \in DOMAIN file
    BY <1>8, TypeOfNames, NameSets
  <2>3. W[4 + i].to = <<>>
    BY <1>6
  <2> HIDE DEF c
  <2> QED
    BY <1>7, <2>1, <2>2, <2>3, OneWrite DEF c
<1>10. ASSUME NEW i \in 1 .. 4
       PROVE  file'[IndexColumns[i]] = IF i <= k THEN <<>> ELSE file[IndexColumns[i]]
  <2> DEFINE c == IndexColumns[i]
  <2>1. WrittenAt(W, 8, i, c)
    <3>1. ASSUME NEW j \in 1 .. 8, j # i PROVE W[j].name # c
      BY <1>5, <1>6, <3>1, Distinct
    <3>2. W[i].name = c /\ i \in 1 .. 8
      BY <1>6
    <3> HIDE DEF c
    <3> QED
      BY <3>1, <3>2 DEF WrittenAt
  <2>2. c \in DOMAIN file
    BY <1>8, TypeOfNames, NameSets
  <2>3. W[i].to = <<>>
    BY <1>6
  <2> HIDE DEF c
  <2> QED
    BY <1>7, <2>1, <2>2, <2>3, OneWrite DEF c
<1>11. file'[Mark] = IF 8 <= k THEN "Settled" ELSE file[Mark]
  <2>1. WrittenAt(W, 8, 8, Mark)
    <3>1. ASSUME NEW j \in 1 .. 8, j # 8 PROVE W[j].name # Mark
      BY <1>5, <1>6, <3>1, Distinct
    <3>2. W[8].name = Mark /\ 8 \in 1 .. 8
      BY <1>6
    <3> QED
      BY <3>1, <3>2 DEF WrittenAt
  <2>2. Mark \in DOMAIN file
    BY <1>8, TypeOfNames
  <2> QED
    BY <1>6, <1>7, <2>1, <2>2, OneWrite
<1>12. NoneMissing'
  <2>1. <<>> # Missing
    <3>1. <<>> \in Seq(AnyRow)
      OBVIOUS
    <3> QED
      BY <3>1, MissingAssumption
  <2>2. \A i \in 1 .. 3 : file'[DataColumns[i]] # Missing
    BY <1>1, <1>9, <2>1, NameSets DEF NoneMissing
  <2> QED
    BY <2>2, Distinct DEF NoneMissing
<1>13. CASE k = 8 /\ session' = "Open"
  <2>1. \A i \in 1 .. 3 : file'[DataColumns[i]] = <<>>
    BY <1>9, <1>13
  <2>2. \A i \in 1 .. 4 : file'[IndexColumns[i]] = <<>>
    BY <1>10, <1>13
  <2>3. /\ \A c \in ToSet(DataColumns) : file'[c] = <<>>
        /\ \A c \in ToSet(IndexColumns) : file'[c] = <<>>
    BY <2>1, <2>2, Distinct
  <2>4. file'["day"] = <<>> /\ file'[OffsetSource] = <<>>
    BY <2>3, NameSets DEF OffsetSource
  <2>5. Consistent'
    BY <2>3, <2>4 DEF Consistent
  <2>6. Parallel'
    BY <2>3, <2>4 DEF Parallel
  <2>7. IsSettled'
    BY <1>11, <1>13 DEF IsSettled
  <2> QED
    BY <1>12, <1>13, <2>3, <2>5, <2>6, <2>7 DEF Sound
<1>14. CASE session' = "Closed" /\ k # 8
  <2>1. ~IsSettled'
    BY <1>1, <1>11, <1>14 DEF IsSettled
  <2> QED
    BY <1>12, <1>14, <2>1 DEF Sound
<1> QED
  BY <1>7, <1>13, <1>14

-----------------------------------------------------------------------------
\* Storing a day keeps the invariant.  A data column after an insert:
Added(c, rows, f) == file[c] \o [n \in 1 .. rows |-> <<f, n>>]

\* An index column with the value for a day in the row the day had, or in a
\* row of its own at the end.
NewIndex(c, row, value) ==
    IF row = 0 THEN Append(file[c], value)
    ELSE IF c = "day" THEN file[c] ELSE [file[c] EXCEPT ![row] = value]

\* The writes of an insert.
InsertOf(d, rows) ==
    append_rows(rows, Len(fetched) + 1)
    \o insert_or_replace(d, Len(file[OffsetSource]), rows, Len(fetched) + 1)

\* The writes of an insert are all possible, and each is to a column of its own.
LEMMA InsertWrites ==
    ASSUME Typed, NoneMissing, Consistent, NEW d \in Days, NEW rows \in RowCounts,
           Len(fetched) < MaxFetches
    PROVE  LET W   == InsertOf(d, rows)
               f   == Len(fetched) + 1
               row == row_of(d)
               Value(c) == IndexValue(c, d, Len(file[OffsetSource]), rows, f)
           IN  /\ W \in Seq(AnyWrite)
               /\ \A i \in 1 .. 3 : Makes(W[i], DataColumns[i],
                                          Added(DataColumns[i], rows, f), "rows")
               /\ row > 0 =>
                     /\ Len(W) = 6
                     /\ \A i \in 1 .. 3 :
                           LET c == IndexColumns[i + 1]
                           IN  Makes(W[3 + i], c, NewIndex(c, row, Value(c)), "index")
               /\ row = 0 =>
                     /\ Len(W) = 7
                     /\ \A i \in 1 .. 4 :
                           LET c == IndexColumns[i]
                           IN  Makes(W[3 + i], c, NewIndex(c, row, Value(c)), "index")
<1> DEFINE f == Len(fetched) + 1
           row == row_of(d)
           offset == Len(file[OffsetSource])
           Value(c) == IndexValue(c, d, offset, rows, f)
           A == append_rows(rows, f)
           I == insert_or_replace(d, offset, rows, f)
           W == A \o I
<1>1. InsertOf(d, rows) = W
  BY DEF InsertOf
<1>2. f \in 1 .. MaxFetches /\ rows \in Nat
  <2>1. Len(fetched) \in Nat
    BY DEF Typed
  <2> QED
    BY <2>1, ConstantsAssumption
<1>3. offset \in Nat
  BY NameSets, DataTypes DEF OffsetSource
<1>4. row \in 0 .. Len(file["day"]) /\ Len(file["day"]) \in Nat
  <2>1. file["day"] \in Seq(Days)
    BY TypeOfNames, NameSets DEF Typed
  <2> QED
    BY <2>1, RowOf
<1> HIDE DEF f, row, offset
<1>5. /\ A \in Seq(AnyWrite) /\ Len(A) = 3
      /\ \A i \in 1 .. 3 : A[i] = AppendWrite(DataColumns[i], rows, f)
  BY <1>2, AppendWrites
<1>6. ASSUME NEW i \in 1 .. 3
      PROVE  Makes(A[i], DataColumns[i], Added(DataColumns[i], rows, f), "rows")
  <2> DEFINE c == DataColumns[i]
  <2>1. c \in ToSet(DataColumns) /\ A[i] = AppendWrite(c, rows, f)
    BY <1>5, NameSets
  <2> HIDE DEF c, A
  <2>2. file[c] # Missing
    BY <2>1 DEF NoneMissing
  <2>3. Makes(A[i], c, Added(c, rows, f), "rows")
    BY <1>2, <2>1, <2>2, AppendWriteIs DEF Added
  <2> QED
    BY <2>3 DEF c
<1>7. /\ I \in Seq(AnyWrite)
      /\ row > 0 => /\ Len(I) = 3
                    /\ \A i \in 1 .. 3 : I[i] = AtRow(IndexColumns[i + 1], row,
                                                      Value(IndexColumns[i + 1]))
      /\ row = 0 => /\ Len(I) = 4
                    /\ \A i \in 1 .. 4 : I[i] = AtEnd(IndexColumns[i],
                                                      Value(IndexColumns[i]))
  BY <1>2, <1>3, IndexWrites DEF row
<1>8. \A c \in ToSet(IndexColumns) : Value(c) \in IndexType(c)
  BY <1>2, <1>3, IndexValueFits
<1> HIDE DEF A, I, Value
<1>9. /\ W \in Seq(AnyWrite) /\ Len(W) = Len(A) + Len(I)
      /\ \A j \in 1 .. Len(A) : W[j] = A[j]
      /\ \A m \in 1 .. Len(I) : W[Len(A) + m] = I[m]
  <2>1. A \in Seq(AnyWrite) /\ I \in Seq(AnyWrite)
    BY <1>5, <1>7
  <2> QED
    BY <2>1, ConcatAt
<1> HIDE DEF W
<1>l. Len(A) = 3 /\ (row > 0 => Len(I) = 3) /\ (row = 0 => Len(I) = 4)
  BY <1>5, <1>7
<1>10. \A i \in 1 .. 3 : W[i] = A[i]
  BY <1>l, <1>9
<1>11. ASSUME row > 0
       PROVE  /\ Len(W) = 6
              /\ \A i \in 1 .. 3 :
                    LET c == IndexColumns[i + 1]
                    IN  Makes(W[3 + i], c, NewIndex(c, row, Value(c)), "index")
  <2>1. Len(W) = 6 /\ \A i \in 1 .. 3 : W[3 + i] = I[i]
    <3>1. Len(A) = 3 /\ Len(I) = 3
      BY <1>l, <1>11
    <3>2. Len(W) = Len(A) + Len(I)
      BY <1>9
    <3>3. \A i \in 1 .. Len(I) : W[Len(A) + i] = I[i]
      BY <1>9
    <3>4. Len(W) = 6
      BY <3>1, <3>2
    <3> QED
      BY <3>1, <3>3, <3>4
  <2>2. ASSUME NEW i \in 1 .. 3
        PROVE  LET c == IndexColumns[i + 1]
               IN  Makes(W[3 + i], c, NewIndex(c, row, Value(c)), "index")
    <3> DEFINE c == IndexColumns[i + 1]
    <3>1. c \in ToSet(IndexColumns) /\ c # "day"
      <4>1. i + 1 \in 1 .. 4 /\ i + 1 # 1 /\ 1 \in 1 .. 4
        OBVIOUS
      <4>2. IndexColumns[1] = "day"
        BY DEF IndexColumns
      <4>3. IndexColumns[i + 1] # IndexColumns[1]
        BY <4>1, Distinct
      <4> QED
        BY <4>1, <4>2, <4>3, NameSets
    <3>2. W[3 + i] = AtRow(c, row, Value(c))
      BY <1>7, <1>11, <2>1
    <3> HIDE DEF c
    <3>3. row \in DOMAIN file[c]
      BY <1>4, <1>11, <3>1, RowOfIndex
    <3>4. NewIndex(c, row, Value(c)) = [file[c] EXCEPT ![row] = Value(c)]
      BY <1>4, <1>11, <3>1 DEF NewIndex
    <3>5. Makes(W[3 + i], c, NewIndex(c, row, Value(c)), "index")
      BY <1>8, <3>1, <3>2, <3>3, <3>4, AtRowIs
    <3> QED
      BY <3>5 DEF c
  <2> QED
    BY <2>1, <2>2
<1>12. ASSUME row = 0
       PROVE  /\ Len(W) = 7
              /\ \A i \in 1 .. 4 :
                    LET c == IndexColumns[i]
                    IN  Makes(W[3 + i], c, NewIndex(c, row, Value(c)), "index")
  <2>1. Len(W) = 7 /\ \A i \in 1 .. 4 : W[3 + i] = I[i]
    <3>1. Len(A) = 3 /\ Len(I) = 4
      BY <1>l, <1>12
    <3>2. Len(W) = Len(A) + Len(I)
      BY <1>9
    <3>3. \A i \in 1 .. Len(I) : W[Len(A) + i] = I[i]
      BY <1>9
    <3>4. Len(W) = 7
      BY <3>1, <3>2
    <3> QED
      BY <3>1, <3>3, <3>4
  <2>2. ASSUME NEW i \in 1 .. 4
        PROVE  LET c == IndexColumns[i]
               IN  Makes(W[3 + i], c, NewIndex(c, row, Value(c)), "index")
    <3> DEFINE c == IndexColumns[i]
    <3>1. c \in ToSet(IndexColumns)
      BY NameSets
    <3>2. W[3 + i] = AtEnd(c, Value(c))
      BY <1>7, <1>12, <2>1
    <3> HIDE DEF c
    <3>3. NewIndex(c, row, Value(c)) = Append(file[c], Value(c))
      BY <1>12 DEF NewIndex
    <3>4. Makes(W[3 + i], c, NewIndex(c, row, Value(c)), "index")
      BY <1>8, <3>1, <3>2, <3>3, AtEndIs
    <3> QED
      BY <3>4 DEF c
  <2> QED
    BY <2>1, <2>2
<1>13. \A i \in 1 .. 3 : Makes(W[i], DataColumns[i], Added(DataColumns[i], rows, f), "rows")
  BY <1>6, <1>10
<1> QED
  BY <1>1, <1>9, <1>11, <1>12, <1>13 DEF f, row, offset, Value

\* What an insert leaves: its rows and its entry, or, stopped, some of its
\* rows behind the ones the index names.
LEMMA InsertLeaves ==
    ASSUME Typed, NoneMissing, Consistent, NEW d \in Days, NEW rows \in RowCounts,
           Len(fetched) < MaxFetches, Survived',
           Perform(InsertOf(d, rows))
    PROVE  LET f   == Len(fetched) + 1
               row == row_of(d)
               Value(c) == IndexValue(c, d, Len(file[OffsetSource]), rows, f)
           IN  /\ file'[Mark] = file[Mark]
               /\ \A c \in ToSet(DataColumns) :
                     file'[c] = file[c] \/ file'[c] = Added(c, rows, f)
               /\ \/ /\ session' = session
                     /\ \A c \in ToSet(DataColumns) : file'[c] = Added(c, rows, f)
                     /\ \A c \in ToSet(IndexColumns) :
                           file'[c] = NewIndex(c, row, Value(c))
                  \/ /\ session' = "Closed"
                     /\ \A c \in ToSet(IndexColumns) : file'[c] = file[c]
<1> DEFINE f == Len(fetched) + 1
           row == row_of(d)
           Value(c) == IndexValue(c, d, Len(file[OffsetSource]), rows, f)
           W == InsertOf(d, rows)
           n == Len(W)
           New(c) == NewIndex(c, row, Value(c))
<1>1. /\ W \in Seq(AnyWrite)
      /\ \A i \in 1 .. 3 : Makes(W[i], DataColumns[i], Added(DataColumns[i], rows, f), "rows")
      /\ row > 0 =>
            /\ n = 6
            /\ \A i \in 1 .. 3 : Makes(W[3 + i], IndexColumns[i + 1],
                                       New(IndexColumns[i + 1]), "index")
      /\ row = 0 =>
            /\ n = 7
            /\ \A i \in 1 .. 4 : Makes(W[3 + i], IndexColumns[i],
                                       New(IndexColumns[i]), "index")
  BY InsertWrites
<1>2. row \in Nat /\ (row > 0 => "day" \in DOMAIN file)
  BY RowOf, NameSets DEF Typed, Names
<1> HIDE DEF f, row, Value, New, W
<1>l. /\ row > 0 => n = 6
      /\ row = 0 => n = 7
  BY <1>1
<1> HIDE DEF n
<1>3. n \in {6, 7}
  BY <1>l, <1>2
<1>4. \A i \in 1 .. 3 : /\ W[i].name = DataColumns[i] /\ W[i].possible
                        /\ W[i].phase = "rows"
                        /\ W[i].to = Added(DataColumns[i], rows, f)
  BY <1>1 DEF Makes
<1>5. ASSUME NEW j \in 4 .. n
      PROVE  /\ W[j].possible /\ W[j].phase = "index"
             /\ \E i \in 1 .. 4 : W[j].name = IndexColumns[i]
  <2> DEFINE m == j - 3
  <2>1. j = 3 + m /\ m \in 1 .. (n - 3)
    BY <1>3
  <2> HIDE DEF m
  <2>2. CASE row > 0
    <3>1. m \in 1 .. 3 /\ m + 1 \in 1 .. 4
      BY <1>l, <2>1, <2>2
    <3>2. Makes(W[j], IndexColumns[m + 1], New(IndexColumns[m + 1]), "index")
      BY <1>1, <2>1, <2>2, <3>1
    <3> QED
      BY <3>1, <3>2 DEF Makes
  <2>3. CASE row = 0
    <3>1. m \in 1 .. 4
      BY <1>l, <2>1, <2>3
    <3>2. Makes(W[j], IndexColumns[m], New(IndexColumns[m]), "index")
      BY <1>1, <2>1, <2>3, <3>1
    <3> QED
      BY <3>1, <3>2 DEF Makes
  <2> QED
    BY <1>2, <2>2, <2>3
<1>6. \A j \in 1 .. n : j \in 1 .. 3 \/ j \in 4 .. n
  BY <1>3
<1>7. \A j \in 1 .. n : W[j].possible
  BY <1>4, <1>5, <1>6
<1>8. \/ file' = After(W, n) /\ session' = session
      \/ /\ session' = "Closed"
         /\ \E k \in 0 .. n - 1 : /\ file' = After(W, k)
                                  /\ W[k + 1].phase \in {"rows", "delete", "unlinked"}
  BY <1>1, <1>7, Ends DEF W, n
<1>9. PICK k \in 0 .. n :
         /\ file' = After(W, k)
         /\ \/ k = n /\ session' = session
            \/ k \in 0 .. 3 /\ session' = "Closed"
  <2>1. ASSUME NEW k \in 0 .. n - 1, W[k + 1].phase \in {"rows", "delete", "unlinked"}
        PROVE  k \in 0 .. 3 /\ k \in 0 .. n
    <3>1. k + 1 \in 1 .. n
      BY <1>3
    <3>2. k + 1 \notin 4 .. n
      BY <1>5, <2>1
    <3> QED
      BY <1>3, <3>1, <3>2
  <2> QED
    BY <1>3, <1>8, <2>1
<1>10. \A name \in Names : name \in DOMAIN file
  BY DEF Typed
<1>11. ASSUME NEW c \in ToSet(DataColumns)
       PROVE  \E i \in 1 .. 3 : file'[c] = IF i <= k THEN Added(c, rows, f) ELSE file[c]
  <2>1. PICK i \in 1 .. 3 : c = DataColumns[i]
    BY Distinct
  <2>2. WrittenAt(W, n, i, c)
    <3>1. ASSUME NEW j \in 1 .. n, j # i PROVE W[j].name # c
      BY <1>4, <1>5, <1>6, <2>1, <3>1, Distinct
    <3> QED
      BY <1>3, <1>4, <2>1, <3>1 DEF WrittenAt
  <2>3. c \in DOMAIN file /\ W[i].to = Added(c, rows, f)
    BY <1>4, <1>10, <2>1, TypeOfNames
  <2>4. file'[c] = IF i <= k THEN Added(c, rows, f) ELSE file[c]
    BY <1>9, <2>2, <2>3, OneWrite
  <2> QED
    BY <2>4
<1>12. file'[Mark] = file[Mark]
  <2>1. NotWritten(W, n, Mark)
    BY <1>3, <1>4, <1>5, <1>6, Distinct DEF NotWritten
  <2>2. Mark \in DOMAIN file
    BY <1>10, TypeOfNames
  <2> QED
    BY <1>9, <2>1, <2>2, NoWrite
<1>13. ASSUME NEW c \in ToSet(IndexColumns), k \in 0 .. 3 PROVE file'[c] = file[c]
  <2>1. NotWritten(W, 3, c)
    BY <1>4, Distinct DEF NotWritten
  <2>2. c \in DOMAIN file
    BY <1>10, TypeOfNames
  <2> QED
    BY <1>9, <1>13, <2>1, <2>2, NoWrite
<1>14. ASSUME NEW c \in ToSet(IndexColumns), k = n PROVE file'[c] = New(c)
  <2>1. PICK i \in 1 .. 4 : c = IndexColumns[i]
    BY Distinct
  <2>2. c \in DOMAIN file /\ k \in 0 .. n
    BY <1>10, TypeOfNames
  <2>3. CASE row = 0
    <3>1. \A m \in 1 .. 4 : W[3 + m].name = IndexColumns[m] /\ W[3 + m].to = New(IndexColumns[m])
      BY <1>1, <2>3 DEF Makes
    <3>2. WrittenAt(W, n, 3 + i, c)
      <4>1. ASSUME NEW j \in 1 .. n, j # 3 + i PROVE W[j].name # c
        <5>1. CASE j \in 1 .. 3
          BY <1>4, <2>1, <5>1, Distinct
        <5>2. CASE j \in 4 .. n
          <6> DEFINE m == j - 3
          <6>1. j = 3 + m /\ m \in 1 .. 4 /\ m # i
            BY <1>l, <2>3, <4>1, <5>2
          <6> QED
            BY <2>1, <3>1, <6>1, Distinct
        <5> QED
          BY <1>6, <5>1, <5>2
      <4>2. n = 7 /\ 3 + i \in 1 .. n
        BY <1>l, <2>3
      <4> QED
        BY <2>1, <3>1, <4>1, <4>2 DEF WrittenAt
    <3>3. 3 + i <= k
      BY <1>l, <1>14, <2>3
    <3> QED
      BY <1>9, <2>1, <2>2, <3>1, <3>2, <3>3, OneWrite
  <2>4. CASE row > 0 /\ i > 1
    <3> DEFINE p == 2 + i
    <3>1. \A m \in 1 .. 3 : /\ W[3 + m].name = IndexColumns[m + 1]
                            /\ W[3 + m].to = New(IndexColumns[m + 1])
      BY <1>1, <2>4 DEF Makes
    <3>2. p = 3 + (i - 1) /\ i - 1 \in 1 .. 3 /\ (i - 1) + 1 = i
      BY <2>4
    <3>3. W[p].name = c /\ W[p].to = New(c)
      BY <2>1, <3>1, <3>2
    <3>4. WrittenAt(W, n, p, c)
      <4>1. ASSUME NEW j \in 1 .. n, j # p PROVE W[j].name # c
        <5>1. CASE j \in 1 .. 3
          BY <1>4, <2>1, <5>1, Distinct
        <5>2. CASE j \in 4 .. n
          <6> DEFINE m == j - 3
          <6>1. j = 3 + m /\ m \in 1 .. 3 /\ m + 1 # i /\ m + 1 \in 1 .. 4
            BY <1>l, <2>4, <4>1, <5>2
          <6>2. IndexColumns[m + 1] # IndexColumns[i]
            BY <6>1, Distinct
          <6> QED
            BY <2>1, <3>1, <6>1, <6>2
        <5> QED
          BY <1>6, <5>1, <5>2
      <4>2. n = 6 /\ p \in 1 .. n
        BY <1>l, <2>4
      <4> QED
        BY <3>3, <4>1, <4>2 DEF WrittenAt
    <3>5. p <= k
      BY <1>l, <1>14, <2>4
    <3> HIDE DEF p
    <3> QED
      BY <1>9, <2>2, <3>3, <3>4, <3>5, OneWrite
  <2>5. CASE row > 0 /\ i = 1
    <3>1. \A m \in 1 .. 3 : W[3 + m].name = IndexColumns[m + 1]
      BY <1>1, <2>5 DEF Makes
    <3>2. NotWritten(W, n, c)
      <4>1. ASSUME NEW j \in 1 .. n PROVE W[j].name # c
        <5>1. CASE j \in 1 .. 3
          BY <1>4, <2>1, <5>1, Distinct
        <5>2. CASE j \in 4 .. n
          <6> DEFINE m == j - 3
          <6>1. j = 3 + m /\ m \in 1 .. 3 /\ m + 1 # i /\ m + 1 \in 1 .. 4
            BY <1>l, <2>5, <5>2
          <6>2. IndexColumns[m + 1] # IndexColumns[i]
            BY <6>1, Distinct
          <6> QED
            BY <2>1, <3>1, <6>1, <6>2
        <5> QED
          BY <1>6, <5>1, <5>2
      <4> QED
        BY <1>3, <4>1 DEF NotWritten
    <3>3. file'[c] = file[c]
      BY <1>9, <2>2, <3>2, NoWrite
    <3>4. c = "day"
      BY <2>1, <2>5 DEF IndexColumns
    <3> QED
      BY <1>2, <2>5, <3>3, <3>4 DEF New, NewIndex
  <2> QED
    BY <1>2, <2>3, <2>4, <2>5
<1>15. CASE k = n /\ session' = session
  <2>1. \A c \in ToSet(DataColumns) : file'[c] = Added(c, rows, f)
    BY <1>3, <1>11, <1>15
  <2> QED
    BY <1>12, <1>14, <1>15, <2>1 DEF f, row, Value, New
<1>16. CASE k \in 0 .. 3 /\ session' = "Closed"
  <2>1. \A c \in ToSet(DataColumns) : file'[c] = file[c] \/ file'[c] = Added(c, rows, f)
    BY <1>11
  <2> QED
    BY <1>12, <1>13, <1>16, <2>1 DEF f
<1> QED
  BY <1>9, <1>15, <1>16

NewRow(row)   == IF row = 0 THEN Len(file["day"]) + 1 ELSE row
NewLength(row) == IF row = 0 THEN Len(file["day"]) + 1 ELSE Len(file["day"])

\* The new index column differs from the one before in one row.
LEMMA NewIndexIs ==
    ASSUME Typed, Consistent, NEW c \in ToSet(IndexColumns), NEW d \in Days,
           NEW value \in IndexType(c), c = "day" => value = d
    PROVE  LET row == row_of(d)
               new == NewIndex(c, row, value)
               r   == NewRow(row)
               n   == NewLength(row)
           IN  /\ n \in Nat /\ r \in 1 .. n
               /\ Len(new) = n /\ new[r] = value
               /\ \A j \in 1 .. n : j # r =>
                     /\ j \in 1 .. Len(file["day"])
                     /\ new[j] = file[c][j]
<1> DEFINE row == row_of(d)
           new == NewIndex(c, row, value)
           r == NewRow(row)
           n == NewLength(row)
           m == Len(file["day"])
<1>1. file["day"] \in Seq(Days) /\ m \in Nat
  BY TypeOfNames, NameSets DEF Typed
<1>2. /\ row \in 0 .. m
      /\ row > 0 => file["day"][row] = d
  BY RowOf
<1>3. file[c] \in Seq(IndexType(c)) /\ Len(file[c]) = m
  BY IndexTypes DEF Consistent
<1> DEFINE s == file[c]
           T == IndexType(c)
<1>4. s \in Seq(T) /\ Len(s) = m /\ value \in T
  BY <1>3
<1>5. /\ row = 0 => new = Append(s, value)
      /\ row # 0 /\ c = "day" => new = s /\ s[row] = value
      /\ row # 0 /\ c # "day" => new = [s EXCEPT ![row] = value]
  BY <1>2 DEF NewIndex
<1>6. /\ r = IF row = 0 THEN m + 1 ELSE row
      /\ n = IF row = 0 THEN m + 1 ELSE m
  BY DEF NewRow, NewLength
<1> HIDE DEF row, new, r, n, m, s, T
<1>7. CASE row = 0
  <2>1. /\ Len(Append(s, value)) = m + 1 /\ Append(s, value)[m + 1] = value
        /\ \A j \in 1 .. m : Append(s, value)[j] = s[j]
    BY <1>1, <1>4, AppendProperties
  <2>2. r = m + 1 /\ n = m + 1 /\ new = Append(s, value)
    BY <1>5, <1>6, <1>7
  <2>3. \A j \in 1 .. n : j # r => j \in 1 .. m
    BY <1>1, <2>2
  <2>4. n \in Nat /\ r \in 1 .. n
    BY <1>1, <2>2
  <2> QED
    BY <2>1, <2>2, <2>3, <2>4 DEF row, new, r, n, m, s
<1>8. CASE row # 0 /\ c # "day"
  <2> DEFINE t == [s EXCEPT ![row] = value]
  <2>1. row \in 1 .. Len(s) /\ row \in 1 .. m
    BY <1>1, <1>2, <1>4, <1>8
  <2>2. t \in Seq(T) /\ Len(t) = m /\ t[row] = value /\ \A j \in 1 .. m : j # row => t[j] = s[j]
    BY <1>4, <2>1, ExceptSeq
  <2>3. r = row /\ n = m /\ new = t
    BY <1>5, <1>6, <1>8
  <2> HIDE DEF t
  <2> QED
    BY <1>1, <2>1, <2>2, <2>3 DEF row, new, r, n, m, s
<1>9. CASE row # 0 /\ c = "day"
  <2>1. r = row /\ n = m /\ new = s /\ s[row] = value
    BY <1>5, <1>6, <1>9
  <2>2. row \in 1 .. m
    BY <1>1, <1>2, <1>9
  <2> QED
    BY <1>1, <1>4, <2>1, <2>2 DEF row, new, r, n, m, s
<1> QED
  BY <1>7, <1>8, <1>9

\* A data column that grew has its earlier rows, and those of the fetch behind them.
LEMMA AddedIs ==
    ASSUME Typed, NoneMissing, NEW c \in ToSet(DataColumns), NEW rows \in Nat,
           NEW f \in 1 .. MaxFetches
    PROVE  LET new == Added(c, rows, f)
           IN  /\ new \in Seq(AnyRow)
               /\ Len(new) = Len(file[c]) + rows
               /\ \A j \in 1 .. Len(file[c]) : new[j] = file[c][j]
               /\ \A n \in 1 .. rows : new[Len(file[c]) + n] = <<f, n>>
<1> DEFINE t == [n \in 1 .. rows |-> <<f, n>>]
           s == file[c]
<1>1. t \in Seq(AnyRow) /\ Len(t) = rows /\ \A n \in 1 .. rows : t[n] = <<f, n>>
  BY DEF AnyRow
<1>2. s \in Seq(AnyRow)
  BY DataTypes
<1>3. Added(c, rows, f) = s \o t
  BY DEF Added
<1> HIDE DEF s, t
<1>4. /\ s \o t \in Seq(AnyRow)
      /\ Len(s \o t) = Len(s) + Len(t)
      /\ \A j \in 1 .. Len(s) : (s \o t)[j] = s[j]
      /\ \A m \in 1 .. Len(t) : (s \o t)[Len(s) + m] = t[m]
  <2>1. t \in Seq(AnyRow)
    BY <1>1
  <2> QED
    BY <1>2, <2>1, ConcatAt
<1> QED
  BY <1>1, <1>3, <1>4 DEF s

\* A data column that kept its rows, with or without others behind them,
\* still has the rows of every entry.
LEMMA RowsStay ==
    ASSUME Typed, NoneMissing, Consistent, NEW c \in ToSet(DataColumns), NEW new,
           Len(new) \in Nat, Len(file[c]) <= Len(new),
           \A j \in 1 .. Len(file[c]) : new[j] = file[c][j],
           NEW i \in 1 .. Len(file["day"])
    PROVE  /\ End(i) <= Len(new)
           /\ \A n \in 1 .. file["count"][i] : new[Start(i) + n] = file[c][Start(i) + n]
<1>1. /\ Start(i) \in Nat /\ file["count"][i] \in Nat /\ End(i) \in Nat
      /\ End(i) = Start(i) + file["count"][i]
  BY RowOfIndex
<1>2. Len(file[c]) \in Nat /\ End(i) <= Len(file[c])
  BY DataTypes DEF Consistent, Own
<1>3. End(i) <= Len(new)
  BY <1>1, <1>2
<1>4. ASSUME NEW n \in 1 .. file["count"][i] PROVE new[Start(i) + n] = file[c][Start(i) + n]
  <2>1. Start(i) + n \in 1 .. Len(file[c])
    BY <1>1, <1>2
  <2> QED
    BY <2>1
<1> QED
  BY <1>3, <1>4

\* An entry has rows of its own after a step where its columns say so.
LEMMA OwnAfter ==
    ASSUME NEW i, NEW g, NEW start, NEW count,
           file'["offset"][i] = start, file'["count"][i] = count,
           file'["fetched_at"][i] = g, g \in 1 .. Len(fetched'),
           fetched'[g].day = file'["day"][i], fetched'[g].rows = count,
           \A c \in ToSet(DataColumns) :
              /\ start + count <= Len(file'[c])
              /\ \A n \in 1 .. count : file'[c][start + n] = <<g, n>>
    PROVE  Own(i)'
<1>1. Start(i)' = start /\ End(i)' = start + count
  BY DEF Start, End
<1> QED
  BY <1>1 DEF Own

\* An insert keeps the invariant, done or stopped.
LEMMA InsertSound ==
    ASSUME Typed, Sound, Survived',
           NEW d \in Days, NEW rows \in RowCounts, insert_or_replace_day(d, rows)
    PROVE  Sound'
<1> DEFINE f == Len(fetched) + 1
           row == row_of(d)
           offset == Len(file[OffsetSource])
           Value(c) == IndexValue(c, d, offset, rows, f)
           New(c) == NewIndex(c, row, Value(c))
           r == NewRow(row)
           m == Len(file["day"])
           n == NewLength(row)
<1>1. /\ session = "Open" /\ NoneMissing /\ Consistent /\ Parallel
      /\ Len(fetched) < MaxFetches
      /\ fetched' = Append(fetched, [day |-> d, rows |-> rows])
  BY DEF Sound, insert_or_replace_day
<1>2. /\ fetched \in Seq([day : Days, rows : RowCounts]) /\ Len(fetched) \in Nat
  BY DEF Typed
<1>3. /\ Len(fetched') = f /\ fetched'[f] = [day |-> d, rows |-> rows]
      /\ \A g \in 1 .. Len(fetched) : g \in 1 .. Len(fetched') /\ fetched'[g] = fetched[g]
      /\ f \in 1 .. f /\ f \in 1 .. MaxFetches
  BY <1>1, <1>2, AppendProperties, ConstantsAssumption
<1>4. rows \in Nat
  BY ConstantsAssumption
<1>5. offset \in Nat
  BY <1>1, NameSets, DataTypes DEF OffsetSource
<1>6. Perform(InsertOf(d, rows))
  BY <1>3 DEF insert_or_replace_day, InsertOf
<1>7. /\ file'[Mark] = file[Mark]
      /\ \A c \in ToSet(DataColumns) :
            file'[c] = file[c] \/ file'[c] = Added(c, rows, f)
      /\ \/ /\ session' = session
            /\ \A c \in ToSet(DataColumns) : file'[c] = Added(c, rows, f)
            /\ \A c \in ToSet(IndexColumns) : file'[c] = New(c)
         \/ /\ session' = "Closed"
            /\ \A c \in ToSet(IndexColumns) : file'[c] = file[c]
  BY <1>1, <1>6, InsertLeaves
<1> HIDE DEF f, row, offset, Value, New, r, m, n
<1>8. ASSUME NEW c \in ToSet(DataColumns)
      PROVE  LET new == Added(c, rows, f)
             IN  /\ new \in Seq(AnyRow) /\ new # Missing
                 /\ Len(new) = Len(file[c]) + rows
                 /\ Len(new) \in Nat /\ Len(file[c]) <= Len(new)
                 /\ \A j \in 1 .. Len(file[c]) : new[j] = file[c][j]
                 /\ \A k \in 1 .. rows : new[Len(file[c]) + k] = <<f, k>>
                 /\ Len(file[c]) = offset
  <2> DEFINE new == Added(c, rows, f)
  <2>1. /\ new \in Seq(AnyRow) /\ Len(new) = Len(file[c]) + rows
        /\ \A j \in 1 .. Len(file[c]) : new[j] = file[c][j]
        /\ \A k \in 1 .. rows : new[Len(file[c]) + k] = <<f, k>>
    BY <1>1, <1>3, <1>4, AddedIs
  <2> HIDE DEF new
  <2>2. Len(file[c]) \in Nat /\ new # Missing
    BY <1>1, <2>1, DataTypes, MissingAssumption
  <2>3. Len(file[c]) = offset
    BY <1>1 DEF Parallel, offset
  <2> QED
    BY <1>4, <2>1, <2>2, <2>3 DEF new
<1>9. NoneMissing'
  BY <1>1, <1>7, <1>8 DEF NoneMissing
<1>10. ASSUME NEW c \in ToSet(DataColumns), NEW i \in 1 .. m
       PROVE  /\ End(i) <= Len(file'[c])
              /\ \A k \in 1 .. file["count"][i] :
                    file'[c][Start(i) + k] = file[c][Start(i) + k]
  <2>1. Len(file[c]) \in Nat
    BY <1>1, DataTypes
  <2>2. /\ Len(file'[c]) \in Nat /\ Len(file[c]) <= Len(file'[c])
        /\ \A j \in 1 .. Len(file[c]) : file'[c][j] = file[c][j]
    BY <1>7, <1>8, <2>1
  <2> QED
    BY <1>1, <2>2, RowsStay DEF m
<1>11. CASE /\ session' = "Closed"
            /\ \A c \in ToSet(IndexColumns) : file'[c] = file[c]
  <2>1. Consistent'
    BY <1>1, <1>3, <1>10, <1>11, IndexStands DEF m
  <2> QED
    BY <1>9, <1>11, <2>1 DEF Sound
<1>12. CASE /\ session' = session
            /\ \A c \in ToSet(DataColumns) : file'[c] = Added(c, rows, f)
            /\ \A c \in ToSet(IndexColumns) : file'[c] = New(c)
  <2>1. ASSUME NEW c \in ToSet(IndexColumns)
        PROVE  /\ n \in Nat /\ r \in 1 .. n
               /\ Len(file'[c]) = n /\ file'[c][r] = Value(c)
               /\ \A j \in 1 .. n : j # r => /\ j \in 1 .. m
                                             /\ file'[c][j] = file[c][j]
    <3>1. Value(c) \in IndexType(c) /\ (c = "day" => Value(c) = d)
      BY <1>3, <1>4, <1>5, IndexValueFits DEF Value, IndexValue
    <3>2. file'[c] = New(c)
      BY <1>12
    <3> DEFINE value == Value(c)
    <3> HIDE DEF value
    <3>3. value \in IndexType(c) /\ (c = "day" => value = d)
      BY <3>1 DEF value
    <3>4. New(c) = NewIndex(c, row_of(d), value)
      BY DEF New, row, value
    <3> QED
      BY <1>1, <3>2, <3>3, <3>4, NewIndexIs DEF n, r, m, row, value
  <2>2. /\ "day" \in ToSet(IndexColumns) /\ "offset" \in ToSet(IndexColumns)
        /\ "count" \in ToSet(IndexColumns) /\ "fetched_at" \in ToSet(IndexColumns)
    BY NameSets
  <2>3. /\ Value("day") = d /\ Value("offset") = offset
        /\ Value("count") = rows /\ Value("fetched_at") = f
    BY DEF Value, IndexValue
  <2>4. Len(file'["day"]) = n /\ n \in Nat /\ r \in 1 .. n
    BY <2>1, <2>2
  <2>5. \A c \in ToSet(IndexColumns) : Len(file'[c]) = Len(file'["day"])
    BY <2>1, <2>4
  <2>6. ASSUME NEW j \in 1 .. n, j # r
        PROVE  j \in 1 .. m /\ file'["day"][j] = file["day"][j] /\ file["day"][j] # d
    <3>1. j \in 1 .. m /\ file'["day"][j] = file["day"][j]
      BY <2>1, <2>2, <2>6
    <3>2. row \in 0 .. m /\ m \in Nat
      <4>1. file["day"] \in Seq(Days)
        BY TypeOfNames, NameSets DEF Typed
      <4> QED
        BY <4>1, RowOf DEF row, m
    <3>3. CASE row = 0
      BY <3>1, <3>3, RowOf DEF row, m
    <3>4. CASE row # 0
      <4>1. file["day"][row] = d /\ row \in 1 .. m
        BY <3>2, <3>4, RowOf DEF row
      <4>2. r = row
        BY <3>4 DEF r, NewRow
      <4> QED
        BY <1>1, <2>6, <3>1, <4>1, <4>2 DEF Consistent, m
    <3> QED
      BY <3>1, <3>3, <3>4
  <2>7. \A i, j \in 1 .. Len(file'["day"]) : file'["day"][i] = file'["day"][j] => i = j
    <3> SUFFICES ASSUME NEW i \in 1 .. n, NEW j \in 1 .. n,
                        file'["day"][i] = file'["day"][j]
                 PROVE  i = j
      BY <2>4
    <3>1. file'["day"][r] = d
      BY <2>1, <2>2, <2>3
    <3> QED
      BY <1>1, <2>6, <3>1 DEF Consistent, m
  <2>8. ASSUME NEW i \in 1 .. n, i # r PROVE Own(i)'
    <3>1. /\ i \in 1 .. m
          /\ file'["day"][i] = file["day"][i] /\ file'["offset"][i] = file["offset"][i]
          /\ file'["count"][i] = file["count"][i]
          /\ file'["fetched_at"][i] = file["fetched_at"][i]
      BY <2>1, <2>2, <2>8
    <3> DEFINE g == file["fetched_at"][i]
               count == file["count"][i]
               start == Start(i)
    <3>2. /\ g \in 1 .. Len(fetched) /\ fetched[g].day = file["day"][i]
          /\ fetched[g].rows = count
          /\ \A c \in ToSet(DataColumns), k \in 1 .. count : file[c][start + k] = <<g, k>>
      BY <1>1, <3>1 DEF Consistent, m, Own
    <3>3. g \in 1 .. Len(fetched') /\ fetched'[g] = fetched[g]
      BY <1>3, <3>2
    <3>4. /\ file'["offset"][i] = start /\ file'["count"][i] = count
          /\ file'["fetched_at"][i] = g /\ End(i) = start + count
      BY <3>1 DEF Start, End
    <3>5. ASSUME NEW c \in ToSet(DataColumns)
          PROVE  /\ start + count <= Len(file'[c])
                 /\ \A k \in 1 .. count : file'[c][start + k] = <<g, k>>
      BY <1>10, <3>1, <3>2, <3>4
    <3> HIDE DEF g, count, start
    <3>6. fetched'[g].day = file'["day"][i] /\ fetched'[g].rows = count
      BY <3>1, <3>2, <3>3
    <3> QED
      BY <3>3, <3>4, <3>5, <3>6, OwnAfter
  <2>9. ASSUME NEW i \in 1 .. n, i = r PROVE Own(i)'
    <3>1. /\ file'["day"][i] = d /\ file'["offset"][i] = offset
          /\ file'["count"][i] = rows /\ file'["fetched_at"][i] = f
      BY <2>1, <2>2, <2>3, <2>9
    <3>2. /\ f \in 1 .. Len(fetched') /\ fetched'[f].day = file'["day"][i]
          /\ fetched'[f].rows = rows
      BY <1>3, <3>1
    <3>3. ASSUME NEW c \in ToSet(DataColumns)
          PROVE  /\ offset + rows <= Len(file'[c])
                 /\ \A k \in 1 .. rows : file'[c][offset + k] = <<f, k>>
      <4>1. file'[c] = Added(c, rows, f)
        BY <1>12
      <4>2. /\ Len(file[c]) = offset /\ Len(Added(c, rows, f)) = Len(file[c]) + rows
            /\ \A k \in 1 .. rows : Added(c, rows, f)[Len(file[c]) + k] = <<f, k>>
        BY <1>8
      <4> QED
        BY <1>4, <1>5, <4>1, <4>2
    <3> QED
      BY <3>1, <3>2, <3>3, OwnAfter
  <2>10. Consistent'
    BY <2>4, <2>5, <2>7, <2>8, <2>9 DEF Consistent
  <2>11. Parallel'
    <3>1. \A c \in ToSet(DataColumns) : Len(file'[c]) = offset + rows
      BY <1>8, <1>12
    <3> QED
      BY <3>1, NameSets DEF Parallel, OffsetSource
  <2> QED
    BY <1>1, <1>9, <1>12, <2>10, <2>11 DEF Sound
<1> QED
  BY <1>7, <1>11, <1>12

-----------------------------------------------------------------------------
\* Deleting days keeps the invariant.

\* Two lists of one, put together.
LEMMA PairIs ==
    ASSUME NEW a, NEW b
    PROVE  <<a>> \o <<b>> = <<a, b>>
<1> DEFINE s == <<a>>
           t == <<b>>
           both == <<a, b>>
<1>1. s \in Seq({a, b}) /\ t \in Seq({a, b}) /\ both \in Seq({a, b})
  BY OneOrTwo
<1>2. Len(s) = 1 /\ Len(t) = 1 /\ Len(both) = 2
  OBVIOUS
<1>3. s[1] = a /\ t[1] = b /\ both[1] = a /\ both[2] = b
  OBVIOUS
<1> HIDE DEF s, t, both
<1>4. /\ s \o t \in Seq({a, b}) /\ Len(s \o t) = Len(s) + Len(t)
      /\ \A j \in 1 .. Len(s) : (s \o t)[j] = s[j]
      /\ \A m \in 1 .. Len(t) : (s \o t)[Len(s) + m] = t[m]
  BY <1>1, ConcatAt
<1>5. Len(s \o t) = 2
  BY <1>2, <1>4
<1>6. (s \o t)[1] = a
  BY <1>2, <1>3, <1>4
<1>7. (s \o t)[1 + 1] = b
  BY <1>2, <1>3, <1>4
<1>8. \A i \in 1 .. 2 : (s \o t)[i] = both[i]
  <2>1. \A i \in 1 .. 2 : i = 1 \/ i = 1 + 1
    OBVIOUS
  <2>2. both[1 + 1] = b
    BY <1>3
  <2> QED
    BY <1>3, <1>6, <1>7, <2>1, <2>2
<1>9. s \o t = both
  BY <1>1, <1>2, <1>4, <1>5, <1>8, SeqEqual
<1> QED
  BY <1>9 DEF s, t, both

\* A rejected plan leaves every column as it was.
LEMMA RejectedLeaves ==
    ASSUME Typed, Perform(InFlight \o Rejected), NEW c \in Columns
    PROVE  file'[c] = file[c] /\ session' \in {session, "Closed"}
<1> DEFINE w1 == Write(Mark, "InFlight", "delete", TRUE)
           w2 == Write("day", file["day"], "delete", FALSE)
           W == <<w1, w2>>
<1>1. InFlight \o Rejected = W
  <2>1. InFlight = <<w1>> /\ Rejected = <<w2>>
    BY DEF InFlight, Rejected
  <2> HIDE DEF w1, w2
  <2> QED
    BY <2>1, PairIs
<1>2. W \in Seq(AnyWrite) /\ Len(W) = 2 /\ W[1] = w1 /\ W[2] = w2
  <2>1. Makes(w1, Mark, "InFlight", "delete")
    BY TypeOfNames, WriteMakes DEF Phases
  <2>2. Fits(w2, "day", "delete")
    BY NameSets, TypeOfNames, WriteFits DEF Phases, Typed
  <2>3. w1 \in AnyWrite /\ w2 \in AnyWrite
    BY <2>1, <2>2 DEF Makes, Fits
  <2> HIDE DEF w1, w2
  <2> QED
    BY <2>3, OneOrTwo
<1>3. /\ w1.name = Mark /\ w2.name = "day" /\ w2.to = file["day"]
  BY DEF Write
<1> HIDE DEF w1, w2, W
<1>4. c \in DOMAIN file /\ c # Mark
  BY NameSets DEF Typed, Names
<1>5. ASSUME NEW k \in 0 .. 2 PROVE After(W, k)[c] = file[c]
  <2>1. \/ After(W, k)[c] = file[c]
        \/ \E i \in 1 .. k : W[i].name = c /\ After(W, k)[c] = W[i].to
    BY <1>4, AfterIs
  <2>2. ASSUME NEW i \in 1 .. k, W[i].name = c PROVE W[i].to = file[c]
    <3>1. i = 1 \/ i = 2
      OBVIOUS
    <3> QED
      BY <1>2, <1>3, <1>4, <2>2, <3>1
  <2> QED
    BY <2>1, <2>2
<1>6. Reach(W) \in 0 .. Len(W)
  BY <1>2, ReachIs
<1> QED
  BY <1>1, <1>2, <1>5, <1>6 DEF Perform, StopsAfter

\* The places of the writes of a delete.
LEMMA Twelve ==
    ASSUME NEW j \in 1 .. 12
    PROVE  \/ j = 1 \/ j = 12
           \/ \E i \in 1 .. 3 : j = 2 * i \/ j = 2 * i + 1
           \/ \E i \in 1 .. 4 : j = 7 + i
<1>1. \/ j = 1 \/ j = 12
      \/ j = 2 * 1 \/ j = 2 * 2 \/ j = 2 * 3
      \/ j = 2 * 1 + 1 \/ j = 2 * 2 + 1 \/ j = 2 * 3 + 1
      \/ j = 7 + 1 \/ j = 7 + 2 \/ j = 7 + 3 \/ j = 7 + 4
  OBVIOUS
<1>2. 1 \in 1 .. 3 /\ 2 \in 1 .. 3 /\ 3 \in 1 .. 3
  OBVIOUS
<1>3. 1 \in 1 .. 4 /\ 2 \in 1 .. 4 /\ 3 \in 1 .. 4 /\ 4 \in 1 .. 4
  OBVIOUS
<1> QED
  BY <1>1, <1>2, <1>3

\* How far a delete got: nowhere, to its end, or between, with its mark in
\* the file and no column unlinked or one.
LEMMA DeleteLeaves ==
    ASSUME Typed, NoneMissing, Survived',
           NEW kept, NEW laid, NEW cutoff, Plan(kept, laid, cutoff),
           \A c \in ToSet(DataColumns) : Copies(c, laid),
           ~Overlaps(laid), Perform(retain_days(kept, laid))
    PROVE  \/ session' = "Closed" /\ \A name \in Names : file'[name] = file[name]
           \/ /\ session' = "Closed" /\ file'[Mark] = "InFlight"
              /\ \A c \in ToSet(DataColumns) : file'[c] # Missing
           \/ /\ session' = "Closed" /\ file'[Mark] = "InFlight"
              /\ \E c \in ToSet(DataColumns) : file'[c] = Missing
              /\ <<"unlinked", "Killed">> \in stopped'
           \/ /\ session' = session /\ file'[Mark] = "Settled"
              /\ \A c \in ToSet(DataColumns) : file'[c] = FlattenSeq(Extents(c, laid))
              /\ \A c \in ToSet(IndexColumns) : file'[c] = KeptColumn(c, kept, laid)
<1> DEFINE W == InFlight \o Moved(kept, laid)
           Column(c) == FlattenSeq(Extents(c, laid))
           Entry(c) == KeptColumn(c, kept, laid)
<1>1. W \in Seq(AnyWrite) /\ Perform(W)
  BY DeleteIs, DeleteFits
<1>2. /\ Len(W) = 12
      /\ Makes(W[1], Mark, "InFlight", "delete")
      /\ \A i \in 1 .. 3 : /\ Makes(W[2 * i], DataColumns[i], Missing, "delete")
                           /\ Makes(W[2 * i + 1], DataColumns[i],
                                    Column(DataColumns[i]), "unlinked")
      /\ \A i \in 1 .. 4 : Makes(W[7 + i], IndexColumns[i], Entry(IndexColumns[i]), "delete")
      /\ Makes(W[12], Mark, "Settled", "delete")
  BY MovedIs
<1>3. \A c \in ToSet(DataColumns) : Column(c) # Missing
  <2> SUFFICES ASSUME NEW c \in ToSet(DataColumns) PROVE Column(c) # Missing
    OBVIOUS
  <2>1. Copies(c, laid)
    OBVIOUS
  <2>2. Column(c) \in Seq(AnyRow)
    BY <2>1, MovedColumn
  <2> QED
    BY <2>2, MissingAssumption
<1> HIDE DEF W, Column, Entry
<1>4. /\ W[1].name = Mark /\ W[1].to = "InFlight" /\ W[1].possible /\ W[1].phase = "delete"
      /\ W[12].name = Mark /\ W[12].to = "Settled" /\ W[12].possible /\ W[12].phase = "delete"
  BY <1>2 DEF Makes
<1>5. \A i \in 1 .. 3 :
         /\ W[2 * i].name = DataColumns[i] /\ W[2 * i].to = Missing
         /\ W[2 * i].possible /\ W[2 * i].phase = "delete"
         /\ W[2 * i + 1].name = DataColumns[i] /\ W[2 * i + 1].to = Column(DataColumns[i])
         /\ W[2 * i + 1].possible /\ W[2 * i + 1].phase = "unlinked"
  BY <1>2 DEF Makes
<1>6. \A i \in 1 .. 4 :
         /\ W[7 + i].name = IndexColumns[i] /\ W[7 + i].to = Entry(IndexColumns[i])
         /\ W[7 + i].possible /\ W[7 + i].phase = "delete"
  BY <1>2 DEF Makes
<1>7. ASSUME NEW j \in 1 .. 12
      PROVE  W[j].possible
  BY <1>4, <1>5, <1>6, Twelve
<1>8. PICK k \in 0 .. 12 :
         /\ file' = After(W, k)
         /\ \/ k = 12 /\ session' = session
            \/ /\ k # 12 /\ session' = "Closed"
               /\ W[k + 1].phase \in {"rows", "delete", "unlinked"}
               /\ <<W[k + 1].phase, "Killed">> \in stopped'
  <2>1. Len(W) = 12
    BY <1>2
  <2>2. \A j \in 1 .. Len(W) : W[j].possible
    BY <1>7, <2>1
  <2>3. \/ file' = After(W, Len(W)) /\ session' = session
        \/ /\ session' = "Closed"
           /\ \E k \in 0 .. Len(W) - 1 :
                 /\ file' = After(W, k)
                 /\ W[k + 1].phase \in {"rows", "delete", "unlinked"}
                 /\ <<W[k + 1].phase, "Killed">> \in stopped'
    BY <1>1, <2>2, Ends
  <2> QED
    BY <2>1, <2>3
<1>9. k \in Nat /\ \A name \in Names : name \in DOMAIN file
  BY DEF Typed
<1>u. k \in 1 .. 11 /\ W[k + 1].phase = "unlinked"
         => \E i \in 1 .. 3 : k = 2 * i
  <2> SUFFICES ASSUME k \in 1 .. 11, W[k + 1].phase = "unlinked"
               PROVE  \E i \in 1 .. 3 : k = 2 * i
    OBVIOUS
  <2>1. PICK j \in 1 .. 12 : j = k + 1
    OBVIOUS
  <2>2. W[j].phase = "unlinked"
    BY <2>1
  <2>3. PICK i \in 1 .. 3 : j = 2 * i + 1
    BY <1>4, <1>5, <1>6, <2>2, Twelve
  <2> QED
    BY <2>1, <2>3
<1>10. ASSUME NEW c \in ToSet(DataColumns),
              k = 12 \/ k = 0 \/ W[k + 1].phase # "unlinked"
       PROVE  /\ file'[c] # Missing
              /\ k = 12 => file'[c] = Column(c)
  <2>1. PICK i \in 1 .. 3 : c = DataColumns[i]
    BY Distinct
  <2>2. c \in DOMAIN file
    BY <1>9, TypeOfNames
  <2>3. ASSUME NEW j \in 1 .. 12, j # 2 * i, j # 2 * i + 1 PROVE W[j].name # c
    BY <1>4, <1>5, <1>6, <2>1, <2>3, Distinct, Twelve
  <2>4. k # 2 * i
    BY <1>5, <1>10
  <2>5. CASE k < 2 * i
    <3>1. \A j \in 1 .. k : W[j].name # c
      BY <2>3, <2>5
    <3>2. After(W, k)[c] = file[c]
      BY <1>9, <2>2, <3>1, AfterIs
    <3> QED
      BY <1>8, <2>5, <3>2 DEF NoneMissing
  <2>6. CASE k > 2 * i
    <3> DEFINE p == 2 * i + 1
    <3>1. p \in 1 .. k /\ \A j \in p + 1 .. k : W[j].name # c
      BY <2>3, <2>6
    <3>2. W[p].name = c /\ W[p].to = Column(c)
      BY <1>5, <2>1
    <3> HIDE DEF p
    <3>3. After(W, k)[c] = Column(c)
      BY <1>9, <2>2, <3>1, <3>2, AfterIs
    <3> QED
      BY <1>3, <1>8, <3>3
  <2> QED
    BY <2>4, <2>5, <2>6
<1>11. ASSUME NEW c \in ToSet(IndexColumns), k = 12 PROVE file'[c] = Entry(c)
  <2>1. PICK i \in 1 .. 4 : c = IndexColumns[i]
    BY Distinct
  <2>2. c \in DOMAIN file
    BY <1>9, TypeOfNames
  <2>3. WrittenAt(W, 12, 7 + i, c)
    <3>1. ASSUME NEW j \in 1 .. 12, j # 7 + i PROVE W[j].name # c
      BY <1>4, <1>5, <1>6, <2>1, <3>1, Distinct, Twelve
    <3>2. W[7 + i].name = c /\ 7 + i \in 1 .. 12
      BY <1>6, <2>1
    <3> QED
      BY <3>1, <3>2 DEF WrittenAt
  <2>4. W[7 + i].to = Entry(c) /\ 7 + i <= k
    BY <1>6, <1>11, <2>1
  <2> QED
    BY <1>8, <2>2, <2>3, <2>4, OneWrite
<1>12. /\ k = 12 => file'[Mark] = "Settled"
       /\ k \in 1 .. 11 => file'[Mark] = "InFlight"
  <2>1. Mark \in DOMAIN file
    BY <1>9, TypeOfNames
  <2>2. ASSUME NEW j \in 2 .. 11 PROVE W[j].name # Mark
    <3>1. \/ \E i \in 1 .. 3 : j = 2 * i \/ j = 2 * i + 1
          \/ \E i \in 1 .. 4 : j = 7 + i
      BY Twelve
    <3> QED
      BY <1>5, <1>6, <3>1, Distinct
  <2>3. CASE k = 12
    <3>1. 12 \in 1 .. k /\ \A j \in 12 + 1 .. k : W[j].name # Mark
      BY <2>3
    <3>2. After(W, k)[Mark] = W[12].to
      BY <1>4, <1>9, <2>1, <3>1, AfterIs
    <3> QED
      BY <1>4, <1>8, <2>3, <3>2
  <2>4. CASE k \in 1 .. 11
    <3>1. 1 \in 1 .. k /\ \A j \in 1 + 1 .. k : W[j].name # Mark
      BY <2>2, <2>4
    <3>2. After(W, k)[Mark] = W[1].to
      BY <1>4, <1>9, <2>1, <3>1, AfterIs
    <3> QED
      BY <1>4, <1>8, <2>4, <3>2
  <2> QED
    BY <2>3, <2>4
<1>13. CASE k = 0
  <2>1. ASSUME NEW name \in Names PROVE file'[name] = file[name]
    <3>1. \A j \in 1 .. k : W[j].name # name
      BY <1>13
    <3> QED
      BY <1>8, <1>9, <3>1, AfterIs
  <2> QED
    BY <1>8, <1>13, <2>1
<1>14. CASE k \in 1 .. 11
  <2>1. CASE W[k + 1].phase # "unlinked"
    BY <1>8, <1>10, <1>12, <1>14, <2>1
  <2>2. CASE W[k + 1].phase = "unlinked"
    <3>1. PICK i \in 1 .. 3 : k = 2 * i
      BY <1>14, <1>u, <2>2
    <3>2. DataColumns[i] \in ToSet(DataColumns) /\ DataColumns[i] \in DOMAIN file
      BY <1>9, NameSets, TypeOfNames
    <3>3. k \in 1 .. k /\ \A j \in k + 1 .. k : W[j].name # DataColumns[i]
      BY <1>14
    <3>4. W[k].name = DataColumns[i] /\ W[k].to = Missing
      BY <1>5, <3>1
    <3>5. After(W, k)[DataColumns[i]] = Missing
      BY <1>9, <3>2, <3>3, <3>4, AfterIs
    <3>6. file'[DataColumns[i]] = Missing
      BY <1>8, <3>5
    <3>7. <<"unlinked", "Killed">> \in stopped' /\ session' = "Closed"
      BY <1>8, <1>14, <2>2
    <3> QED
      BY <1>12, <1>14, <3>2, <3>6, <3>7
  <2> QED
    BY <2>1, <2>2
<1>15. CASE k = 12
  <2>1. \A c \in ToSet(DataColumns) : file'[c] = Column(c)
    BY <1>10, <1>15
  <2>2. \A c \in ToSet(IndexColumns) : file'[c] = Entry(c)
    BY <1>11, <1>15
  <2>3. session' = session /\ file'[Mark] = "Settled"
    BY <1>8, <1>12, <1>15
  <2> QED
    BY <2>1, <2>2, <2>3 DEF Column, Entry
<1>16. k = 0 \/ k \in 1 .. 11 \/ k = 12
  OBVIOUS
<1> QED
  BY <1>13, <1>14, <1>15, <1>16

\* The rows of an index column over the rows kept.
LEMMA KeptColumnIs ==
    ASSUME Typed, NEW kept, NEW laid, NEW cutoff, Plan(kept, laid, cutoff),
           NEW c \in ToSet(IndexColumns)
    PROVE  /\ Len(KeptColumn(c, kept, laid)) = Len(kept)
           /\ \A k \in 1 .. Len(kept) :
                 KeptColumn(c, kept, laid)[k]
                   = IF c = "offset" THEN NewOffset(laid, kept[k]) ELSE file[c][kept[k]]
<1> DEFINE Value(k) == IF c = "offset" THEN NewOffset(laid, kept[k]) ELSE file[c][kept[k]]
           n == Len(kept)
<1>1. DOMAIN kept = 1 .. n /\ n \in Nat
  BY PlanIs
<1>2. KeptColumn(c, kept, laid) = [k \in 1 .. n |-> Value(k)]
  BY <1>1 DEF KeptColumn
<1> HIDE DEF Value, n
<1>3. Len([k \in 1 .. n |-> Value(k)]) = n
  BY <1>1
<1> QED
  BY <1>2, <1>3 DEF Value, n

\* A delete that is done: the entries kept still name their own rows, where
\* those were moved to.
LEMMA MovedSound ==
    ASSUME Typed, NoneMissing, Consistent,
           NEW kept, NEW laid, NEW cutoff, Plan(kept, laid, cutoff),
           \A c \in ToSet(DataColumns) : Copies(c, laid),
           fetched' = fetched,
           \A c \in ToSet(DataColumns) : file'[c] = FlattenSeq(Extents(c, laid)),
           \A c \in ToSet(IndexColumns) : file'[c] = KeptColumn(c, kept, laid)
    PROVE  NoneMissing' /\ Consistent' /\ Parallel'
<1> DEFINE n == Len(kept)
<1>1. /\ n \in Nat /\ DOMAIN kept = 1 .. n
      /\ \A k \in 1 .. n : kept[k] \in Kept(cutoff)
  BY PlanIs
<1>2. Kept(cutoff) \subseteq 1 .. Len(file["day"])
  <2>1. file["day"] \in Seq(Days)
    BY TypeOfNames, NameSets DEF Typed
  <2> QED
    BY <2>1 DEF Kept
<1>3. ASSUME NEW c \in ToSet(IndexColumns)
      PROVE  /\ Len(file'[c]) = n
             /\ \A k \in 1 .. n :
                   file'[c][k] = IF c = "offset" THEN NewOffset(laid, kept[k])
                                                 ELSE file[c][kept[k]]
  BY KeptColumnIs
<1>4. /\ "day" \in ToSet(IndexColumns) /\ "offset" \in ToSet(IndexColumns)
      /\ "count" \in ToSet(IndexColumns) /\ "fetched_at" \in ToSet(IndexColumns)
  BY NameSets
<1> HIDE DEF n
<1>5. ASSUME NEW k \in 1 .. n
      PROVE  /\ file'["day"][k] = file["day"][kept[k]]
             /\ file'["offset"][k] = NewOffset(laid, kept[k])
             /\ file'["count"][k] = file["count"][kept[k]]
             /\ file'["fetched_at"][k] = file["fetched_at"][kept[k]]
  <2>1. \A c \in ToSet(IndexColumns) :
           file'[c][k] = IF c = "offset" THEN NewOffset(laid, kept[k])
                                         ELSE file[c][kept[k]]
    BY <1>3
  <2> QED
    BY <1>4, <2>1
<1>6. \A c \in ToSet(IndexColumns) : Len(file'[c]) = Len(file'["day"])
  BY <1>3, <1>4
<1>7. Len(file'["day"]) = n
  BY <1>3, <1>4
<1>8. ASSUME NEW i \in 1 .. n, NEW j \in 1 .. n, file'["day"][i] = file'["day"][j]
      PROVE  i = j
  <2>1. kept[i] = kept[j]
    BY <1>1, <1>2, <1>5, <1>8 DEF Consistent
  <2>2. \A a, b \in 1 .. n : a < b => kept[a] < kept[b]
    BY <1>1 DEF Plan, KeptRows
  <2>3. kept[i] \in Nat /\ kept[j] \in Nat
    BY <1>1, <1>2
  <2>4. ~(i < j) /\ ~(j < i)
    BY <2>1, <2>2, <2>3
  <2> QED
    BY <1>1, <2>4
<1>9. ASSUME NEW c \in ToSet(DataColumns)
      PROVE  LET moved == FlattenSeq(Extents(c, laid))
                 end   == Compacted(laid)
             IN  /\ moved \in Seq(AnyRow)
                 /\ Len(moved) = end[Len(laid)]
                 /\ \A i \in 1 .. Len(laid) :
                       /\ end[i - 1] + file["count"][laid[i]] <= Len(moved)
                       /\ \A m \in 1 .. file["count"][laid[i]] :
                             moved[end[i - 1] + m] = file[c][Start(laid[i]) + m]
  <2>1. Copies(c, laid)
    OBVIOUS
  <2> QED
    BY <2>1, MovedColumn
<1>10. ASSUME NEW k \in 1 .. n PROVE Own(k)'
  <2> DEFINE r == kept[k]
             g == file["fetched_at"][r]
             count == file["count"][r]
             start == NewOffset(laid, r)
  <2>1. r \in Kept(cutoff) /\ r \in 1 .. Len(file["day"])
    BY <1>1, <1>2
  <2>2. PICK i \in 1 .. Len(laid) :
           laid[i] = r /\ start = Compacted(laid)[i - 1] /\ start \in Nat
    BY <2>1, NewOffsetIs
  <2>3. /\ g \in 1 .. Len(fetched) /\ fetched[g].day = file["day"][r]
        /\ fetched[g].rows = count
        /\ \A c \in ToSet(DataColumns), m \in 1 .. count : file[c][Start(r) + m] = <<g, m>>
    BY <2>1 DEF Consistent, Own
  <2>4. /\ file'["offset"][k] = start /\ file'["count"][k] = count
        /\ file'["fetched_at"][k] = g /\ file'["day"][k] = file["day"][r]
    BY <1>5
  <2> HIDE DEF g, count, start, r
  <2>5. ASSUME NEW c \in ToSet(DataColumns)
        PROVE  /\ start + count <= Len(file'[c])
               /\ \A m \in 1 .. count : file'[c][start + m] = <<g, m>>
    <3> DEFINE moved == FlattenSeq(Extents(c, laid))
    <3>1. /\ start + count <= Len(moved)
          /\ \A m \in 1 .. count : moved[start + m] = file[c][Start(r) + m]
      <4>1. /\ Compacted(laid)[i - 1] + file["count"][laid[i]] <= Len(moved)
            /\ \A m \in 1 .. file["count"][laid[i]] :
                  moved[Compacted(laid)[i - 1] + m] = file[c][Start(laid[i]) + m]
        BY <1>9
      <4> HIDE DEF moved
      <4>2. count = file["count"][laid[i]] /\ start = Compacted(laid)[i - 1]
        BY <2>2 DEF count
      <4> QED
        BY <2>2, <4>1, <4>2
    <3>2. file'[c] = moved
      OBVIOUS
    <3> HIDE DEF moved
    <3> QED
      BY <2>3, <3>1, <3>2
  <2>6. /\ g \in 1 .. Len(fetched') /\ fetched'[g].day = file'["day"][k]
        /\ fetched'[g].rows = count
    BY <2>3, <2>4
  <2> QED
    BY <2>4, <2>5, <2>6, OwnAfter
<1>11. Consistent'
  <2>1. \A i, j \in 1 .. Len(file'["day"]) : file'["day"][i] = file'["day"][j] => i = j
    BY <1>7, <1>8
  <2>2. \A i \in 1 .. Len(file'["day"]) : Own(i)'
    BY <1>7, <1>10
  <2> QED
    BY <1>6, <2>1, <2>2 DEF Consistent
<1>12. NoneMissing' /\ Parallel'
  <2>1. \A c \in ToSet(DataColumns) : file'[c] # Missing
    <3> SUFFICES ASSUME NEW c \in ToSet(DataColumns) PROVE file'[c] # Missing
      OBVIOUS
    <3> DEFINE moved == FlattenSeq(Extents(c, laid))
    <3>1. file'[c] = moved /\ moved \in Seq(AnyRow)
      BY <1>9
    <3> HIDE DEF moved
    <3> QED
      BY <3>1, MissingAssumption
  <2>2. \A c \in ToSet(DataColumns) : Len(file'[c]) = Compacted(laid)[Len(laid)]
    BY <1>9
  <2>3. OffsetSource \in ToSet(DataColumns)
    BY NameSets DEF OffsetSource
  <2> QED
    BY <2>1, <2>2, <2>3 DEF NoneMissing, Parallel
<1> QED
  BY <1>11, <1>12

\* Every extent a delete keeps can be copied out of every column.
LEMMA AllCopies ==
    ASSUME Typed, NoneMissing, Consistent,
           NEW kept, NEW laid, NEW cutoff, Plan(kept, laid, cutoff),
           NEW c \in ToSet(DataColumns)
    PROVE  Copies(c, laid)
<1>1. \A i \in DOMAIN laid : laid[i] \in Kept(cutoff)
  BY PlanIs
<1>2. Kept(cutoff) \subseteq 1 .. Len(file["day"])
  <2>1. file["day"] \in Seq(Days)
    BY TypeOfNames, NameSets DEF Typed
  <2> QED
    BY <2>1 DEF Kept
<1>3. \A i \in DOMAIN laid : End(laid[i]) <= Len(file[c])
  BY <1>1, <1>2 DEF Consistent, Own
<1> QED
  BY <1>3 DEF Copies, NoneMissing

\* An operation that leaves every column alone keeps the index and the columns right.
LEMMA UntouchedSound ==
    ASSUME Typed, NoneMissing, Consistent, Parallel, fetched' = fetched,
           \A c \in Columns : file'[c] = file[c]
    PROVE  NoneMissing' /\ Consistent' /\ Parallel'
<1>1. /\ \A c \in ToSet(DataColumns) : file'[c] = file[c]
      /\ \A c \in ToSet(IndexColumns) : file'[c] = file[c]
      /\ file'[OffsetSource] = file[OffsetSource]
  BY NameSets DEF Columns, OffsetSource
<1>2. ASSUME NEW c \in ToSet(DataColumns), NEW i \in 1 .. Len(file["day"])
      PROVE  /\ End(i) <= Len(file'[c])
             /\ \A n \in 1 .. file["count"][i] :
                   file'[c][Start(i) + n] = file[c][Start(i) + n]
  BY <1>1 DEF Consistent, Own
<1>3. Consistent'
  BY <1>1, <1>2, IndexStands
<1> QED
  BY <1>1, <1>3 DEF NoneMissing, Parallel

\* A delete keeps the invariant, done, stopped or rejected.
LEMMA DeleteSound ==
    ASSUME Typed, Sound, Survived',
           NEW cutoff, delete_days_before(cutoff)
    PROVE  Sound' \/ Stuck'
<1>1. PICK kept \in KeptRows(cutoff) : \E laid \in Laid(kept) :
         /\ \A c \in ToSet(IndexColumns), i \in DOMAIN kept : kept[i] \in DOMAIN file[c]
         /\ Perform(retain_days(kept, laid))
         /\ session = "Open" /\ fetched' = fetched
  BY DEF delete_days_before
<1>2. PICK laid \in Laid(kept) :
         /\ \A c \in ToSet(IndexColumns), i \in DOMAIN kept : kept[i] \in DOMAIN file[c]
         /\ Perform(retain_days(kept, laid))
         /\ session = "Open" /\ fetched' = fetched
  BY <1>1
<1>3. NoneMissing /\ Consistent /\ Parallel
  BY <1>2 DEF Sound
<1>4. Plan(kept, laid, cutoff)
  BY <1>2 DEF Plan
<1>5. \A c \in ToSet(DataColumns) : Copies(c, laid)
  BY <1>3, <1>4, AllCopies
<1>6. \A c \in Columns : c \in Names
  BY DEF Names
<1>7. CASE Overlaps(laid)
  <2>1. Perform(InFlight \o Rejected)
    BY <1>2, <1>7, DeleteIs
  <2>2. \A c \in Columns : file'[c] = file[c] /\ session' \in {session, "Closed"}
    BY <2>1, RejectedLeaves
  <2>3. session' \in {session, "Closed"}
    BY <2>2, NameSets
  <2>4. NoneMissing' /\ Consistent' /\ Parallel'
    BY <1>2, <1>3, <2>2, UntouchedSound
  <2> QED
    BY <1>2, <2>3, <2>4 DEF Sound
<1>8. CASE ~Overlaps(laid)
  <2>1. \/ session' = "Closed" /\ \A name \in Names : file'[name] = file[name]
        \/ /\ session' = "Closed" /\ file'[Mark] = "InFlight"
           /\ \A c \in ToSet(DataColumns) : file'[c] # Missing
        \/ /\ session' = "Closed" /\ file'[Mark] = "InFlight"
           /\ \E c \in ToSet(DataColumns) : file'[c] = Missing
           /\ <<"unlinked", "Killed">> \in stopped'
        \/ /\ session' = session /\ file'[Mark] = "Settled"
           /\ \A c \in ToSet(DataColumns) : file'[c] = FlattenSeq(Extents(c, laid))
           /\ \A c \in ToSet(IndexColumns) : file'[c] = KeptColumn(c, kept, laid)
    BY <1>2, <1>3, <1>4, <1>5, <1>8, DeleteLeaves
  <2>2. CASE session' = "Closed" /\ \A name \in Names : file'[name] = file[name]
    <3>1. NoneMissing' /\ Consistent' /\ Parallel'
      BY <1>2, <1>3, <1>6, <2>2, UntouchedSound
    <3> QED
      BY <2>2, <3>1 DEF Sound
  <2>3. CASE /\ session' = "Closed" /\ file'[Mark] = "InFlight"
             /\ \A c \in ToSet(DataColumns) : file'[c] # Missing
    BY <2>3 DEF Sound, NoneMissing, IsSettled
  <2>4. CASE /\ session' = session /\ file'[Mark] = "Settled"
             /\ \A c \in ToSet(DataColumns) : file'[c] = FlattenSeq(Extents(c, laid))
             /\ \A c \in ToSet(IndexColumns) : file'[c] = KeptColumn(c, kept, laid)
    <3>1. NoneMissing' /\ Consistent' /\ Parallel'
      BY <1>2, <1>3, <1>4, <1>5, <2>4, MovedSound
    <3> QED
      BY <1>2, <2>4, <3>1 DEF Sound
  <2>5. CASE /\ session' = "Closed" /\ file'[Mark] = "InFlight"
             /\ \E c \in ToSet(DataColumns) : file'[c] = Missing
             /\ <<"unlinked", "Killed">> \in stopped'
    BY <2>5 DEF Stuck, NoneMissing
  <2> QED
    BY <2>1, <2>2, <2>3, <2>4, <2>5
<1> QED
  BY <1>7, <1>8

\* Nothing gets an archive out of the delete that left a column unlinked: an open
\* empties the index, and fails on the column before it clears the mark.
LEMMA StuckStays ==
    ASSUME Typed, Stuck, [Next]_vars
    PROVE  Stuck' /\ fetched' = fetched
<1>1. CASE UNCHANGED vars
  BY <1>1 DEF vars, Stuck, NoneMissing
<1>2. ASSUME NEW recovery, open_or_create(recovery)
      PROVE  Stuck' /\ fetched' = fetched
  <2> DEFINE W == recover_interrupted_delete
  <2>1. W = open_writes
    BY DEF open_writes, IsSettled, Stuck
  <2>2. /\ W \in Seq(AnyWrite) /\ Len(W) = 8
        /\ \A i \in 1 .. 4 : Makes(W[i], IndexColumns[i], <<>>, "recovery")
        /\ \A i \in 1 .. 3 : W[4 + i] = DropWrite(DataColumns[i])
        /\ Makes(W[8], Mark, "Settled", "recovery")
    BY RecoveryWrites
  <2> HIDE DEF W
  <2>3. PICK c \in ToSet(DataColumns) : file[c] = Missing
    BY DEF Stuck, NoneMissing
  <2>4. PICK m \in 1 .. 3 : c = DataColumns[m]
    BY Distinct
  <2>5. /\ \A i \in 1 .. 4 : W[i].name = IndexColumns[i]
        /\ \A i \in 1 .. 3 : W[4 + i].name = DataColumns[i]
        /\ ~W[4 + m].possible
    <3>1. \A i \in 1 .. 4 : W[i].name = IndexColumns[i]
      BY <2>2 DEF Makes
    <3>2. \A i \in 1 .. 3 : DropWrite(DataColumns[i]).name = DataColumns[i]
      BY DEF DropWrite, Write
    <3>3. file[DataColumns[m]] = Missing => ~DropWrite(DataColumns[m]).possible
      BY DEF DropWrite, Write
    <3> QED
      BY <2>2, <2>3, <2>4, <3>1, <3>2, <3>3
  <2>6. Reach(W) \in 0 .. 8 /\ Reach(W) < 4 + m
    <3>1. 4 + m \in 1 .. Len(W)
      BY <2>2
    <3>2. Reach(W) \in 0 .. Len(W)
      BY <2>2, ReachIs
    <3>3. Reach(W) < 4 + m
      BY <2>2, <2>5, <3>1, ReachIs
    <3> QED
      BY <2>2, <3>2, <3>3
  <2>7. PICK k \in 0 .. 7 : k < 4 + m /\ file' = After(W, k)
    BY <1>2, <2>1, <2>6 DEF open_or_create, StopsAfter
  <2>8. session' # "Open" /\ stopped' = stopped /\ fetched' = fetched
    <3>1. IsRefused(W)
      BY <2>2, <2>6 DEF IsRefused
    <3> QED
      BY <1>2, <2>1, <3>1 DEF open_or_create
  <2>9. c \in DOMAIN file /\ Mark \in DOMAIN file
    BY TypeOfNames DEF Typed
  <2>10. ASSUME NEW j \in 1 .. k PROVE W[j].name # c /\ W[j].name # Mark
    <3>1. CASE j \in 1 .. 4
      BY <2>4, <2>5, <3>1, Distinct
    <3>2. CASE j \notin 1 .. 4
      <4>1. PICK i \in 1 .. 3 : j = 4 + i
        <5>1. j - 4 \in 1 .. 3 /\ j = 4 + (j - 4)
          BY <3>2
        <5> QED
          BY <5>1
      <4>2. i # m
        BY <2>7, <4>1
      <4> QED
        BY <2>4, <2>5, <4>1, <4>2, Distinct
    <3> QED
      BY <3>1, <3>2
  <2>11. After(W, k)[c] = file[c] /\ After(W, k)[Mark] = file[Mark]
    BY <2>9, <2>10, AfterIs
  <2> QED
    BY <2>3, <2>7, <2>8, <2>11 DEF Stuck, NoneMissing
<1> QED
  BY <1>1, <1>2 DEF Next, Stuck, insert_or_replace_day, delete_days_before, CloseArchive

\* Every operation keeps the invariant.
LEMMA SoundStep ==
    ASSUME Typed, Sound, Survived', [Next]_vars
    PROVE  Sound' \/ Stuck'
<1>1. ASSUME NEW recovery, open_or_create(recovery) PROVE Sound'
  BY <1>1, CutSound, RecoverySound
<1>2. CASE CloseArchive
  <2>1. file' = file /\ fetched' = fetched /\ session' = "Closed" /\ session = "Open"
    BY <1>2 DEF CloseArchive
  <2>2. NoneMissing /\ Consistent /\ Parallel
    BY <2>1 DEF Sound
  <2>3. NoneMissing' /\ Consistent' /\ Parallel'
    BY <2>1, <2>2, UntouchedSound
  <2> QED
    BY <2>1, <2>3 DEF Sound
<1>3. CASE UNCHANGED vars
  <2>1. file' = file /\ fetched' = fetched /\ session' = session
    BY <1>3 DEF vars
  <2> QED
    BY <2>1 DEF Sound, NoneMissing, Parallel, IsSettled, Consistent, Own, Start, End
<1> QED
  BY <1>1, <1>2, <1>3, InsertSound, DeleteSound DEF Next

LEMMA UprightStep ==
    ASSUME Typed, Upright, [Next]_vars
    PROVE  Upright'
<1> SUFFICES ASSUME Survived' PROVE Sound' \/ Stuck'
  BY DEF Upright
<1>1. Sound \/ Stuck
  BY SurvivedBefore DEF Upright
<1> QED
  BY <1>1, SoundStep, StuckStays

\* The invariant always holds.
LEMMA UprightAlways == Spec => [](Typed /\ Upright)
<1>1. Init => Typed /\ Upright
  BY TypedInit, SoundInit DEF Upright
<1>2. (Typed /\ Upright) /\ [Next]_vars => (Typed /\ Upright)'
  BY TypedStep, UprightStep
<1> QED
  BY <1>1, <1>2, PTL DEF Spec

\* What the invariant says of a day the index holds.
LEMMA OwnRowsNamed ==
    ASSUME Typed, Upright PROVE EntriesNameTheirOwnRows
<1> SUFFICES ASSUME Survived, IsSettled, NEW d \in Days, row_of(d) > 0
             PROVE  LET row == row_of(d)
                    IN  /\ \A c \in ToSet(IndexColumns) : row \in DOMAIN file[c]
                        /\ fetched[file["fetched_at"][row]].day = d
                        /\ \A c \in ToSet(DataColumns) :
                              /\ file[c] # Missing
                              /\ End(row) <= Len(file[c])
                              /\ SubSeq(file[c], Start(row) + 1, End(row))
                                    = Rows(file["fetched_at"][row])
  BY DEF EntriesNameTheirOwnRows
<1> DEFINE row == row_of(d)
<1>1. NoneMissing /\ Consistent
  BY DEF Upright, Sound, Stuck, IsSettled
<1>2. row \in 1 .. Len(file["day"]) /\ file["day"][row] = d
  <2>1. file["day"] \in Seq(Days)
    BY TypeOfNames, NameSets DEF Typed
  <2> QED
    BY <2>1, RowOf
<1> HIDE DEF row
<1>3. /\ \A c \in ToSet(IndexColumns) : row \in DOMAIN file[c]
      /\ Start(row) \in Nat /\ file["count"][row] \in Nat /\ End(row) \in Nat
      /\ End(row) = Start(row) + file["count"][row]
  BY <1>1, <1>2, RowOfIndex
<1> DEFINE f == file["fetched_at"][row]
           count == file["count"][row]
           a == Start(row)
           b == End(row)
<1>4. /\ fetched[f].day = d /\ fetched[f].rows = count
      /\ \A c \in ToSet(DataColumns) :
            b <= Len(file[c]) /\ \A n \in 1 .. count : file[c][a + n] = <<f, n>>
  BY <1>1, <1>2 DEF Consistent, Own
<1>5. a \in Nat /\ b \in Nat /\ count \in Nat /\ b = a + count
  BY <1>3
<1> HIDE DEF f, count, a, b
<1>6. ASSUME NEW c \in ToSet(DataColumns)
      PROVE  file[c] # Missing /\ b <= Len(file[c]) /\ SubSeq(file[c], a + 1, b) = Rows(f)
  <2> DEFINE s == file[c]
             t == SubSeq(s, a + 1, b)
  <2>1. s \in Seq(AnyRow) /\ b <= Len(s) /\ \A n \in 1 .. count : s[a + n] = <<f, n>>
    BY <1>1, <1>4, DataTypes
  <2> HIDE DEF s
  <2>2. \A j \in a + 1 .. b : s[j] \in AnyRow
    BY <1>5, <2>1
  <2>3. /\ t \in Seq(AnyRow)
        /\ Len(t) = IF a + 1 <= b THEN b - (a + 1) + 1 ELSE 0
        /\ \A j \in 1 .. b - (a + 1) + 1 : t[j] = s[(a + 1) + j - 1]
    BY <1>5, <2>2, SubSeqProperties
  <2> HIDE DEF t
  <2>4. Len(t) = count
    BY <1>5, <2>3
  <2>5. ASSUME NEW n \in 1 .. count PROVE t[n] = <<f, n>>
    <3>1. n \in 1 .. b - (a + 1) + 1 /\ (a + 1) + n - 1 = a + n
      BY <1>5
    <3> QED
      BY <2>1, <2>3, <3>1
  <2>6. t = [n \in 1 .. count |-> <<f, n>>]
    <3>1. t = [n \in 1 .. count |-> t[n]]
      BY <2>3, <2>4
    <3> QED
      BY <2>5, <3>1
  <2>7. Rows(f) = [n \in 1 .. count |-> <<f, n>>]
    BY <1>4 DEF Rows
  <2> QED
    BY <1>1, <2>1, <2>6, <2>7 DEF NoneMissing, s, t
<1> QED
  BY <1>3, <1>4, <1>6 DEF row, f, a, b

\* Once an archive is settled, the entry of a day names the rows of one fetch of
\* that day, in every column: a process that dies while an insert appends rows
\* or anywhere in a delete, and an open stopped anywhere (prune.rs, lib.rs), make
\* no entry name the rows of another day or rows that are gone.  Where an insert
\* is stopped in its index, or a write fails, nothing is said from then on.
THEOREM EntriesStayTrue == Spec => []EntriesNameTheirOwnRows
BY UprightAlways, OwnRowsNamed, PTL

-----------------------------------------------------------------------------
\* Where every stored day has rows, the rows of two days are never the same, so no
\* extents overlap and no delete rejects its plan.
LEMMA NoOverlap ==
    ASSUME Typed, NoneMissing, Consistent, NoEmptyDay,
           NEW kept, NEW laid, NEW cutoff, Plan(kept, laid, cutoff)
    PROVE  ~Overlaps(laid)
<1> SUFFICES ASSUME NEW i \in 2 .. Len(laid), Start(laid[i]) < End(laid[i - 1])
             PROVE  FALSE
  BY DEF Overlaps
<1> DEFINE p == laid[i - 1]
           q == laid[i]
<1>1. Kept(cutoff) \subseteq 1 .. Len(file["day"])
  <2>1. file["day"] \in Seq(Days)
    BY TypeOfNames, NameSets DEF Typed
  <2> QED
    BY <2>1 DEF Kept
<1>2. laid \in Seq(Kept(cutoff)) /\ Len(laid) \in Nat /\ DOMAIN laid = 1 .. Len(laid)
  BY PlanIs
<1>3. i - 1 \in DOMAIN laid /\ i \in DOMAIN laid /\ i - 1 < i
  BY <1>2
<1>4. p \in 1 .. Len(file["day"]) /\ q \in 1 .. Len(file["day"])
  BY <1>1, <1>2, <1>3
<1>5. Start(p) < Start(q) \/ (Start(p) = Start(q) /\ p < q)
  BY <1>3 DEF Plan, Laid
<1> HIDE DEF p, q
<1>6. /\ Start(p) \in Nat /\ End(p) = Start(p) + file["count"][p] /\ file["count"][p] \in Nat
      /\ Start(q) \in Nat /\ file["count"][q] \in Nat /\ p \in Nat /\ q \in Nat
  BY <1>4, RowOfIndex
<1>7. Start(p) <= Start(q) /\ p # q /\ Start(q) < End(p)
  BY <1>5, <1>6 DEF p, q
<1> DEFINE c == OffsetSource
           a == Start(p)
           b == Start(q)
           sp == file["count"][p]
           sq == file["count"][q]
           n == b - a + 1
           fp == file["fetched_at"][p]
           fq == file["fetched_at"][q]
<1>8. Own(p) /\ Own(q) /\ c \in ToSet(DataColumns)
  BY <1>4, NameSets DEF Consistent, OffsetSource
<1>9. /\ \A m \in 1 .. sp : file[c][a + m] = <<fp, m>>
      /\ fetched[fp].day = file["day"][p]
  BY <1>8 DEF Own
<1>10. /\ fq \in 1 .. Len(fetched) /\ fetched[fq].rows = sq
       /\ \A m \in 1 .. sq : file[c][b + m] = <<fq, m>>
       /\ fetched[fq].day = file["day"][q]
  BY <1>8 DEF Own
<1>11. a \in Nat /\ b \in Nat /\ sp \in Nat /\ sq \in Nat /\ a <= b /\ b < a + sp
  BY <1>6, <1>7
<1> HIDE DEF c, a, b, sp, sq, fp, fq
<1>12. sq # 0
  <2>1. fetched \in Seq([day : Days, rows : RowCounts])
    BY DEF Typed
  <2>2. fq \in DOMAIN fetched
    BY <1>10, <2>1
  <2>3. fetched[fq].rows > 0
    BY <2>2 DEF NoEmptyDay
  <2> QED
    BY <1>10, <2>3
<1>13. n \in 1 .. sp /\ a + n = b + 1 /\ 1 \in 1 .. sq
  BY <1>11, <1>12
<1> HIDE DEF n
<1>14. <<fp, n>> = <<fq, 1>>
  BY <1>9, <1>10, <1>13
<1>15. fp = fq
  BY <1>14
<1> QED
  BY <1>4, <1>7, <1>9, <1>10, <1>15 DEF Consistent

\* An open archive has no delete under way.
OpenSettled == session = "Open" => IsSettled

\* Every operation leaves an open archive settled, where no plan is rejected.
LEMMA OpenSettledStep ==
    ASSUME Typed, Sound, OpenSettled, NoEmptyDay, Survived', [Next]_vars
    PROVE  OpenSettled'
<1>1. ASSUME NEW d \in Days, NEW rows \in RowCounts, insert_or_replace_day(d, rows)
      PROVE  OpenSettled'
  <2>1. /\ session = "Open" /\ Len(fetched) < MaxFetches
        /\ fetched' = Append(fetched, [day |-> d, rows |-> rows])
    BY <1>1 DEF insert_or_replace_day
  <2>2. NoneMissing /\ Consistent /\ IsSettled
    BY <2>1 DEF Sound, OpenSettled
  <2>3. Len(fetched') = Len(fetched) + 1
    BY <2>1, AppendProperties DEF Typed
  <2>4. Perform(InsertOf(d, rows))
    BY <1>1, <2>3 DEF insert_or_replace_day, InsertOf
  <2>5. file'[Mark] = file[Mark]
    BY <2>1, <2>2, <2>4, InsertLeaves
  <2> QED
    BY <2>2, <2>5 DEF OpenSettled, IsSettled
<1>2. ASSUME NEW cutoff, delete_days_before(cutoff) PROVE OpenSettled'
  <2>1. PICK kept \in KeptRows(cutoff) : \E laid \in Laid(kept) :
           /\ \A c \in ToSet(IndexColumns), i \in DOMAIN kept : kept[i] \in DOMAIN file[c]
           /\ Perform(retain_days(kept, laid))
           /\ session = "Open"
    BY <1>2 DEF delete_days_before
  <2>2. PICK laid \in Laid(kept) :
           /\ \A c \in ToSet(IndexColumns), i \in DOMAIN kept : kept[i] \in DOMAIN file[c]
           /\ Perform(retain_days(kept, laid))
           /\ session = "Open"
    BY <2>1
  <2>3. NoneMissing /\ Consistent /\ Plan(kept, laid, cutoff)
    BY <2>2 DEF Sound, Plan
  <2>4. \A c \in ToSet(DataColumns) : Copies(c, laid)
    BY <2>3, AllCopies
  <2>5. ~Overlaps(laid)
    BY <2>3, NoOverlap
  <2>6. session' = "Closed" \/ file'[Mark] = "Settled"
    BY <2>2, <2>3, <2>4, <2>5, DeleteLeaves
  <2> QED
    BY <2>6 DEF OpenSettled, IsSettled
<1>3. ASSUME NEW recovery, open_or_create(recovery) PROVE OpenSettled'
  <2>1. CASE IsSettled
    BY <1>3, <2>1, CutSound DEF OpenSettled, IsSettled
  <2>2. CASE ~IsSettled
    BY <1>3, <2>2, RecoverySound DEF OpenSettled
  <2> QED
    BY <2>1, <2>2
<1>4. CASE CloseArchive
  BY <1>4 DEF CloseArchive, OpenSettled
<1>5. CASE UNCHANGED vars
  BY <1>5 DEF vars, OpenSettled, IsSettled
<1> QED
  BY <1>1, <1>2, <1>3, <1>4, <1>5 DEF Next

\* An archive that is whole was whole before.
LEMMA WholeBefore ==
    ASSUME Typed, [Next]_vars, Whole'
    PROVE  Whole
<1>1. Survived
  BY SurvivedBefore DEF Whole
<1>2. ASSUME NEW i \in DOMAIN fetched
      PROVE  i \in DOMAIN fetched' /\ fetched'[i] = fetched[i]
  <2>1. fetched' = fetched \/ \E d \in Days, rows \in RowCounts :
                                 fetched' = Append(fetched, [day |-> d, rows |-> rows])
    BY DEF Next, insert_or_replace_day, delete_days_before, open_or_create,
           CloseArchive, vars
  <2>2. fetched \in Seq([day : Days, rows : RowCounts])
    BY DEF Typed
  <2>3. CASE fetched' = fetched
    BY <1>2, <2>3
  <2>4. ASSUME NEW d \in Days, NEW rows \in RowCounts,
               fetched' = Append(fetched, [day |-> d, rows |-> rows])
        PROVE  i \in DOMAIN fetched' /\ fetched'[i] = fetched[i]
    <3> DEFINE new == [day |-> d, rows |-> rows]
    <3>1. new \in [day : Days, rows : RowCounts] /\ i \in 1 .. Len(fetched)
      BY <1>2, <2>2
    <3> HIDE DEF new
    <3>2. /\ Len(Append(fetched, new)) = Len(fetched) + 1
          /\ Append(fetched, new) \in Seq([day : Days, rows : RowCounts])
          /\ Append(fetched, new)[i] = fetched[i]
      BY <2>2, <3>1, AppendProperties
    <3>3. i \in DOMAIN Append(fetched, new)
      BY <2>2, <3>1, <3>2
    <3> QED
      BY <2>4, <3>2, <3>3 DEF new
  <2> QED
    BY <2>1, <2>3, <2>4
<1> QED
  BY <1>1, <1>2 DEF Whole, NoEmptyDay

\* What holds of an archive that is whole, for ever.
Clear == Whole => OpenSettled

LEMMA ClearStep ==
    ASSUME Typed, Upright, Clear, [Next]_vars
    PROVE  Clear'
<1> SUFFICES ASSUME Whole' PROVE OpenSettled'
  BY DEF Clear
<1>1. /\ Whole /\ OpenSettled /\ NoEmptyDay /\ Survived'
      /\ Sound \/ Stuck
  BY WholeBefore DEF Clear, Upright, Whole
<1>2. CASE Sound
  BY <1>1, <1>2, OpenSettledStep
<1>3. CASE Stuck
  BY <1>3, StuckStays DEF Stuck, OpenSettled
<1> QED
  BY <1>1, <1>2, <1>3

\* The invariant and that open archives are settled always hold.
LEMMA ClearAlways == Spec => [](Typed /\ Upright /\ Clear)
<1>1. Init => Clear
  BY NameSets DEF Init, Clear, OpenSettled, IsSettled
<1>2. (Typed /\ Upright /\ Clear) /\ [Next]_vars => Clear'
  BY ClearStep
<1> QED
  BY <1>1, <1>2, UprightAlways, PTL DEF Spec

\* The invariant makes an open archive right.
LEMMA OpenRight ==
    ASSUME Typed, Upright, Clear PROVE OpenPutsTheArchiveRight
<1> SUFFICES ASSUME Whole
             PROVE  /\ session = "Refused" => <<"unlinked", "Killed">> \in stopped
                    /\ OpenColumnsAreParallel
                    /\ session = "Open" => IsSettled
  BY DEF OpenPutsTheArchiveRight
<1>1. Sound \/ Stuck
  BY DEF Upright, Whole
<1>2. CASE Stuck
  BY <1>2 DEF Stuck, OpenColumnsAreParallel
<1>3. CASE Sound
  <2>1. SUFFICES ASSUME session = "Open" PROVE OpenColumnsAreParallel /\ IsSettled
    BY <1>3 DEF OpenColumnsAreParallel, Sound
  <2>2. NoneMissing /\ Consistent /\ Parallel
    BY <1>3, <2>1 DEF Sound
  <2>3. ASSUME NEW c \in ToSet(DataColumns)
        PROVE  file[c] # Missing /\ Len(file[c]) = Len(file[OffsetSource])
               /\ Len(file[c]) >= rows_reached
    <3>1. rows_reached <= Len(file[c]) /\ rows_reached \in Nat /\ Len(file[c]) \in Nat
      BY <2>2, ReachedIsThere, RowsReached, DataTypes
    <3> QED
      BY <2>2, <3>1 DEF NoneMissing, Parallel
  <2> QED
    BY <2>1, <2>2, <2>3 DEF OpenColumnsAreParallel, Consistent, Clear, OpenSettled
<1> QED
  BY <1>1, <1>2, <1>3

\* After a process that died while an insert appended rows or anywhere in a
\* delete, and opens stopped anywhere, and where no day was stored without rows:
\* the columns of an open session are of one length and no delete is in flight,
\* and only where the process died with a column unlinked is an open refused.
\* Nothing is said where an insert is stopped in its index, where a write of an
\* insert or of a delete fails, or where an empty day was stored.
THEOREM OpensPutRight == Spec => []OpenPutsTheArchiveRight
BY ClearAlways, OpenRight, PTL

-----------------------------------------------------------------------------
\* The store as the rows of the index have it.
StoredByRow ==
    \A d \in Days :
       /\ \A i \in 1 .. Len(file["day"]) :
             file["day"][i] = d => FetchOfEachDay[d] = file["fetched_at"][i]
       /\ (\A i \in 1 .. Len(file["day"]) : file["day"][i] # d)
             => FetchOfEachDay[d] = 0

\* FetchOfEachDay reads the fetch of a day from its row.
LEMMA StoredIs == Typed /\ Consistent /\ IsSettled => StoredByRow
<1> SUFFICES ASSUME Typed, Consistent, IsSettled, NEW d \in Days
             PROVE  /\ \A i \in 1 .. Len(file["day"]) :
                          file["day"][i] = d => FetchOfEachDay[d] = file["fetched_at"][i]
                    /\ (\A i \in 1 .. Len(file["day"]) : file["day"][i] # d)
                          => FetchOfEachDay[d] = 0
  BY DEF StoredByRow
<1> DEFINE row == row_of(d)
           m == Len(file["day"])
<1>1. /\ row \in 0 .. m
      /\ row > 0 => file["day"][row] = d
      /\ row = 0 => \A i \in 1 .. m : file["day"][i] # d
  BY RowOf
<1>2. /\ file["day"] \in Seq(Days) /\ m \in Nat
  BY TypeOfNames, NameSets DEF Typed
<1>3. DOMAIN file["fetched_at"] = 1 .. m
  <2> DEFINE T == 1 .. MaxFetches
  <2> HIDE DEF T
  <2>1. file["fetched_at"] \in Seq(T)
    BY TypeOfNames, NameSets DEF Typed, T
  <2>2. Len(file["fetched_at"]) = m
    BY NameSets DEF Consistent
  <2> QED
    BY <2>1, <2>2
<1>4. FetchOfEachDay[d] = IF row \in DOMAIN file["fetched_at"]
                          THEN file["fetched_at"][row] ELSE 0
  BY DEF FetchOfEachDay
<1> HIDE DEF row
<1>5. ASSUME NEW i \in 1 .. m, file["day"][i] = d
      PROVE  FetchOfEachDay[d] = file["fetched_at"][i]
  <2>1. row \in 1 .. m
    BY <1>1, <1>2, <1>5
  <2>2. row = i
    BY <1>1, <1>5, <2>1 DEF Consistent
  <2> QED
    BY <1>3, <1>4, <2>1, <2>2
<1>6. ASSUME \A i \in 1 .. m : file["day"][i] # d PROVE FetchOfEachDay[d] = 0
  <2>1. row = 0
    BY <1>1, <1>2, <1>6
  <2> QED
    BY <1>2, <1>3, <1>4, <2>1
<1> QED
  BY <1>5, <1>6

\* So it does after a step.
LEMMA StoredNext == Typed' /\ Consistent' /\ IsSettled' => StoredByRow'
BY StoredIs, PTL

\* A delete that was interrupted leaves nothing stored.
LEMMA NothingStored ==
    /\ ~IsSettled => FetchOfEachDay = [d \in Days |-> 0]
    /\ ~IsSettled' => FetchOfEachDay' = [d \in Days |-> 0]
BY DEF FetchOfEachDay

\* The store stays as it is where the day index and the mark do.
LEMMA StoreStands ==
    ASSUME file'["day"] = file["day"], file'["fetched_at"] = file["fetched_at"],
           file'[Mark] = file[Mark]
    PROVE  FetchOfEachDay' = FetchOfEachDay /\ IsSettled' = IsSettled
BY DEF FetchOfEachDay, IsSettled, row_of

\* An insert that is done stores the day, and one that is stopped stores nothing.
LEMMA InsertStores ==
    ASSUME Typed, Sound, OpenSettled, Typed', Sound' \/ Stuck', Whole, Whole',
           NEW d \in Days, NEW rows \in RowCounts, insert_or_replace_day(d, rows)
    PROVE  Store!Insert(d) \/ Store!InsertIsStopped
<1> DEFINE f == Len(fetched) + 1
           row == row_of(d)
           offset == Len(file[OffsetSource])
           Value(c) == IndexValue(c, d, offset, rows, f)
           r == NewRow(row)
           m == Len(file["day"])
           n == NewLength(row)
<1>1. /\ session = "Open" /\ NoneMissing /\ Consistent /\ IsSettled
      /\ Len(fetched) < MaxFetches
      /\ fetched' = Append(fetched, [day |-> d, rows |-> rows])
  BY DEF Sound, OpenSettled, insert_or_replace_day
<1>2. Len(fetched') = f /\ f \in 1 .. MaxFetches
  <2>1. Len(fetched) \in Nat
    BY DEF Typed
  <2>2. Len(fetched') = f
    BY <1>1, AppendProperties DEF Typed
  <2> QED
    BY <1>1, <2>1, <2>2, ConstantsAssumption
<1>3. Perform(InsertOf(d, rows))
  BY <1>2 DEF insert_or_replace_day, InsertOf
<1>4. /\ file'[Mark] = file[Mark]
      /\ \/ /\ session' = session
            /\ \A c \in ToSet(IndexColumns) : file'[c] = NewIndex(c, row, Value(c))
         \/ /\ session' = "Closed"
            /\ \A c \in ToSet(IndexColumns) : file'[c] = file[c]
  BY <1>1, <1>3, InsertLeaves DEF Whole
<1>5. IsSettled' /\ Consistent'
  BY <1>1, <1>4 DEF IsSettled, Sound, Stuck
<1>6. "day" \in ToSet(IndexColumns) /\ "fetched_at" \in ToSet(IndexColumns)
  BY NameSets
<1>7. rows \in Nat /\ offset \in Nat
  BY <1>1, ConstantsAssumption, NameSets, DataTypes DEF OffsetSource
<1> HIDE DEF f, row, offset, Value, r, m, n
<1>8. CASE /\ session' = "Closed"
           /\ \A c \in ToSet(IndexColumns) : file'[c] = file[c]
  <2>1. FetchOfEachDay' = FetchOfEachDay
    BY <1>4, <1>6, <1>8, StoreStands
  <2> QED
    BY <1>1, <1>2, <1>5, <2>1 DEF Store!InsertIsStopped, Store!Usable, f
<1>9. CASE \A c \in ToSet(IndexColumns) : file'[c] = NewIndex(c, row, Value(c))
  <2>1. Value("day") = d /\ Value("fetched_at") = f
    BY DEF Value, IndexValue
  <2>2. ASSUME NEW c \in ToSet(IndexColumns)
        PROVE  /\ n \in Nat /\ r \in 1 .. n
               /\ Len(file'[c]) = n /\ file'[c][r] = Value(c)
               /\ \A j \in 1 .. n : j # r => /\ j \in 1 .. m
                                             /\ file'[c][j] = file[c][j]
    <3> DEFINE value == Value(c)
    <3>1. value \in IndexType(c) /\ (c = "day" => value = d)
      BY <1>2, <1>7, <2>1, IndexValueFits DEF Value
    <3>2. file'[c] = NewIndex(c, row_of(d), value)
      BY <1>9 DEF row
    <3> HIDE DEF value
    <3>3. /\ n \in Nat /\ r \in 1 .. n
          /\ Len(file'[c]) = n /\ file'[c][r] = value
          /\ \A j \in 1 .. n : j # r => /\ j \in 1 .. m
                                        /\ file'[c][j] = file[c][j]
      BY <1>1, <3>1, <3>2, NewIndexIs DEF n, r, m, row
    <3> QED
      BY <3>3 DEF value
  <2>3. /\ n \in Nat /\ r \in 1 .. n
        /\ Len(file'["day"]) = n
        /\ file'["day"][r] = d /\ file'["fetched_at"][r] = f
    BY <1>6, <2>1, <2>2
  <2>4. \A j \in 1 .. n : j # r =>
           /\ j \in 1 .. m
           /\ file'["day"][j] = file["day"][j]
           /\ file'["fetched_at"][j] = file["fetched_at"][j]
    BY <1>6, <2>2
  <2>5. ASSUME NEW i \in 1 .. m PROVE i \in 1 .. n /\ (i = r => file["day"][i] = d)
    <3>1. m \in Nat /\ row \in 0 .. m /\ (row > 0 => file["day"][row] = d)
      <4>1. file["day"] \in Seq(Days)
        BY TypeOfNames, NameSets DEF Typed
      <4> QED
        BY <4>1, RowOf DEF row, m
    <3>2. /\ n = IF row = 0 THEN m + 1 ELSE m
          /\ r = IF row = 0 THEN m + 1 ELSE row
      BY DEF n, r, NewLength, NewRow, m
    <3> QED
      BY <3>1, <3>2
  <2>6. StoredByRow /\ StoredByRow'
    BY <1>1, <1>5, StoredIs, StoredNext
  <2>7. FetchOfEachDay'[d] = f
    BY <2>3, <2>6 DEF StoredByRow
  <2>8. ASSUME NEW e \in Days, e # d PROVE FetchOfEachDay'[e] = FetchOfEachDay[e]
    <3>1. CASE \E i \in 1 .. m : file["day"][i] = e
      <4>1. PICK i \in 1 .. m : file["day"][i] = e
        BY <3>1
      <4>2. i \in 1 .. n /\ i # r
        BY <2>5, <2>8, <4>1
      <4>3. file'["day"][i] = e /\ file'["fetched_at"][i] = file["fetched_at"][i]
        BY <2>4, <4>1, <4>2
      <4>4. FetchOfEachDay[e] = file["fetched_at"][i]
        BY <2>6, <4>1 DEF StoredByRow, m
      <4>5. FetchOfEachDay'[e] = file'["fetched_at"][i]
        BY <2>3, <2>6, <4>2, <4>3 DEF StoredByRow
      <4> QED
        BY <4>3, <4>4, <4>5
    <3>2. CASE \A i \in 1 .. m : file["day"][i] # e
      <4>1. \A i \in 1 .. n : file'["day"][i] # e
        BY <2>3, <2>4, <2>8, <3>2
      <4>2. FetchOfEachDay[e] = 0
        BY <2>6, <3>2 DEF StoredByRow, m
      <4>3. FetchOfEachDay'[e] = 0
        BY <2>3, <2>6, <4>1 DEF StoredByRow
      <4> QED
        BY <4>2, <4>3
    <3> QED
      BY <3>1, <3>2
  <2>9. FetchOfEachDay' = [FetchOfEachDay EXCEPT ![d] = f]
    <3>1. /\ FetchOfEachDay = [e \in Days |-> FetchOfEachDay[e]]
          /\ FetchOfEachDay' = [e \in Days |-> FetchOfEachDay'[e]]
      BY DEF FetchOfEachDay
    <3> QED
      BY <2>7, <2>8, <3>1
  <2> QED
    BY <1>1, <1>2, <1>5, <2>9 DEF Store!Insert, Store!Usable, f
<1> QED
  BY <1>4, <1>8, <1>9

\* The days are bounded by the greatest of them.
LEMMA GreatestDay == Max(Days) \in Days /\ \A d \in Days : d <= Max(Days)
<1>1. PICK n \in Nat : ExistsBijection(1 .. n, Days)
  BY ConstantsAssumption, FS_NatBijection
<1>2. PICK f \in Bijection(1 .. n, Days) : TRUE
  BY <1>1 DEF ExistsBijection
<1>3. f \in [1 .. n -> Days] /\ \A d \in Days : \E i \in 1 .. n : f[i] = d
  BY <1>2 DEF Bijection, Injection, Surjection, IsInjective
<1>4. f \in [1 .. n -> Nat]
  BY <1>3, ConstantsAssumption
<1>5. PICK b \in Nat : \A i \in 1 .. n : f[i] <= b
  BY <1>4, Bounded
<1>6. \A d \in Days : d <= b
  BY <1>3, <1>5
<1> QED
  BY <1>6, ConstantsAssumption, Greatest

\* Every cutoff is a number, and the one that is no day is beyond every day.
LEMMA Cutoffs ==
    ASSUME NEW cutoff \in Days \cup {Max(Days) + 1}
    PROVE  /\ cutoff \in Nat /\ Days \subseteq Nat
           /\ cutoff \in Days \/ \A d \in Days : d < cutoff
<1> DEFINE g == Max(Days)
<1>1. Days \subseteq Nat
  BY ConstantsAssumption
<1>2. g \in Days /\ \A d \in Days : d <= g
  BY GreatestDay
<1>3. cutoff \in Days \/ cutoff = g + 1
  OBVIOUS
<1> HIDE DEF g
<1>4. CASE cutoff \in Days
  BY <1>1, <1>4
<1>5. CASE cutoff = g + 1
  <2>1. g \in Nat
    BY <1>1, <1>2
  <2>2. cutoff \in Nat
    BY <1>5, <2>1
  <2>3. ASSUME NEW d \in Days PROVE d < cutoff
    <3>1. d \in Nat /\ d <= g
      BY <1>1, <1>2
    <3> QED
      BY <1>5, <2>1, <3>1
  <2> QED
    BY <1>1, <2>2, <2>3
<1> QED
  BY <1>3, <1>4, <1>5

\* A delete that is done removes the days before its cutoff; one that is stopped
\* removes nothing, or everything once its mark is in the file.
LEMMA DeleteStores ==
    ASSUME Typed, Sound, OpenSettled, Typed', Sound' \/ Stuck', Whole, Whole',
           NEW cutoff \in Days \cup {Max(Days) + 1}, delete_days_before(cutoff)
    PROVE  Store!Next \/ UNCHANGED Store!vars
<1>1. PICK kept \in KeptRows(cutoff) : \E laid \in Laid(kept) :
         /\ \A c \in ToSet(IndexColumns), i \in DOMAIN kept : kept[i] \in DOMAIN file[c]
         /\ Perform(retain_days(kept, laid))
         /\ session = "Open" /\ fetched' = fetched
  BY DEF delete_days_before
<1>2. PICK laid \in Laid(kept) :
         /\ \A c \in ToSet(IndexColumns), i \in DOMAIN kept : kept[i] \in DOMAIN file[c]
         /\ Perform(retain_days(kept, laid))
         /\ session = "Open" /\ fetched' = fetched
  BY <1>1
<1>3. NoneMissing /\ Consistent /\ IsSettled /\ Plan(kept, laid, cutoff)
  BY <1>2 DEF Sound, OpenSettled, Plan
<1>4. (\A c \in ToSet(DataColumns) : Copies(c, laid)) /\ ~Overlaps(laid)
  BY <1>3, AllCopies, NoOverlap DEF Whole
<1>5. \/ session' = "Closed" /\ \A name \in Names : file'[name] = file[name]
      \/ session' = "Closed" /\ file'[Mark] = "InFlight"
      \/ /\ session' = session /\ file'[Mark] = "Settled"
         /\ \A c \in ToSet(IndexColumns) : file'[c] = KeptColumn(c, kept, laid)
  BY <1>2, <1>3, <1>4, DeleteLeaves DEF Whole
<1>6. CASE \A name \in Names : file'[name] = file[name]
  <2>1. FetchOfEachDay' = FetchOfEachDay /\ IsSettled' = IsSettled
    BY <1>6, NameSets, StoreStands DEF Names
  <2> QED
    BY <1>2, <2>1 DEF Store!vars
<1>7. CASE file'[Mark] = "InFlight"
  <2>1. ~IsSettled'
    BY <1>7 DEF IsSettled
  <2>2. FetchOfEachDay' = [d \in Days |-> 0]
    BY <2>1, NothingStored
  <2> QED
    BY <1>2, <1>3, <2>1, <2>2 DEF Store!Next, Store!DeleteIsStopped, Store!Nothing, Store!Usable
<1>8. CASE /\ session' = session /\ file'[Mark] = "Settled"
           /\ \A c \in ToSet(IndexColumns) : file'[c] = KeptColumn(c, kept, laid)
  <2> DEFINE n == Len(kept)
             m == Len(file["day"])
  <2>1. IsSettled' /\ Consistent'
    BY <1>8 DEF IsSettled, Sound, Stuck
  <2>2. StoredByRow /\ StoredByRow'
    BY <1>3, <2>1, StoredIs, StoredNext
  <2>3. /\ n \in Nat /\ DOMAIN kept = 1 .. n /\ ToSet(kept) = Kept(cutoff)
        /\ \A k \in 1 .. n : kept[k] \in Kept(cutoff)
    BY <1>3, PlanIs
  <2>4. /\ file["day"] \in Seq(Days)
        /\ Kept(cutoff) = {i \in 1 .. m : file["day"][i] >= cutoff}
    <3>1. file["day"] \in Seq(Days)
      BY TypeOfNames, NameSets DEF Typed
    <3> QED
      BY <3>1 DEF Kept
  <2>5. cutoff \in Nat /\ Days \subseteq Nat
    BY Cutoffs
  <2>6. ASSUME NEW c \in {"day", "fetched_at"}
        PROVE  Len(file'[c]) = n /\ \A k \in 1 .. n : file'[c][k] = file[c][kept[k]]
    <3>1. c \in ToSet(IndexColumns) /\ c # "offset"
      BY NameSets
    <3>2. file'[c] = KeptColumn(c, kept, laid)
      BY <1>8, <3>1
    <3> QED
      BY <1>3, <3>1, <3>2, KeptColumnIs
  <2>7. /\ Len(file'["day"]) = n
        /\ \A k \in 1 .. n : /\ file'["day"][k] = file["day"][kept[k]]
                             /\ file'["fetched_at"][k] = file["fetched_at"][kept[k]]
    BY <2>6
  <2> HIDE DEF n, m
  <2>8. ASSUME NEW d \in Days
        PROVE  FetchOfEachDay'[d] = IF d < cutoff THEN 0 ELSE FetchOfEachDay[d]
    <3>1. CASE d >= cutoff /\ \E i \in 1 .. m : file["day"][i] = d
      <4>1. PICK i \in 1 .. m : file["day"][i] = d
        BY <3>1
      <4>2. i \in Kept(cutoff)
        BY <2>4, <3>1, <4>1
      <4>3. PICK k \in 1 .. n : kept[k] = i
        BY <2>3, <4>2 DEF ToSet
      <4>4. file'["day"][k] = d /\ file'["fetched_at"][k] = file["fetched_at"][i]
        BY <2>7, <4>1, <4>3
      <4>5. FetchOfEachDay'[d] = file'["fetched_at"][k]
        BY <2>2, <2>7, <4>4 DEF StoredByRow
      <4>6. FetchOfEachDay[d] = file["fetched_at"][i]
        BY <2>2, <4>1 DEF StoredByRow, m
      <4>7. ~(d < cutoff)
        BY <2>5, <3>1
      <4> QED
        BY <4>4, <4>5, <4>6, <4>7
    <3>2. CASE d < cutoff \/ \A i \in 1 .. m : file["day"][i] # d
      <4>1. ASSUME NEW k \in 1 .. n PROVE file'["day"][k] # d
        <5>1. kept[k] \in 1 .. m /\ file["day"][kept[k]] >= cutoff
          BY <2>3, <2>4
        <5>2. file["day"][kept[k]] # d
          BY <2>5, <3>2, <5>1
        <5> QED
          BY <2>7, <5>2
      <4>2. FetchOfEachDay'[d] = 0
        BY <2>2, <2>7, <4>1 DEF StoredByRow
      <4>3. d < cutoff \/ FetchOfEachDay[d] = 0
        BY <2>2, <3>2 DEF StoredByRow, m
      <4> QED
        BY <4>2, <4>3
    <3> QED
      BY <2>5, <3>1, <3>2
  <2>9. FetchOfEachDay' = [d \in Days |-> IF d < cutoff THEN 0 ELSE FetchOfEachDay[d]]
    <3>1. FetchOfEachDay' = [d \in Days |-> FetchOfEachDay'[d]]
      BY DEF FetchOfEachDay
    <3> QED
      BY <2>8, <3>1
  <2>10. CASE cutoff \in Days
    <3>1. Store!DeleteBefore(cutoff)
      BY <1>2, <1>3, <2>1, <2>9 DEF Store!DeleteBefore, Store!Usable
    <3> QED
      BY <2>10, <3>1 DEF Store!Next
  <2>11. CASE cutoff \notin Days
    <3>1. \A d \in Days : d < cutoff
      BY <2>11, Cutoffs
    <3>2. FetchOfEachDay' = [d \in Days |-> 0]
      BY <2>9, <3>1
    <3>3. Store!DeleteAll
      BY <1>2, <1>3, <2>1, <3>2 DEF Store!DeleteAll, Store!Nothing, Store!Usable
    <3> QED
      BY <3>3 DEF Store!Next
  <2> QED
    BY <2>10, <2>11
<1> QED
  BY <1>5, <1>6, <1>7, <1>8

\* An open stores and removes nothing, but what an interrupted delete left.
LEMMA OpenStores ==
    ASSUME Typed, Sound, Whole, Whole', NEW recovery, open_or_create(recovery)
    PROVE  Store!Next \/ UNCHANGED Store!vars
<1>1. fetched' = fetched
  BY DEF open_or_create
<1>2. CASE IsSettled
  <2>1. FetchOfEachDay' = FetchOfEachDay /\ IsSettled' = IsSettled
    BY <1>2, CutSound, NameSets, StoreStands
  <2> QED
    BY <1>1, <2>1 DEF Store!vars
<1>3. CASE ~IsSettled
  <2>1. FetchOfEachDay = [d \in Days |-> 0]
    BY <1>3, NothingStored
  <2>2. CASE session' = "Open"
    <3>1. IsSettled' /\ file'["day"] = <<>> /\ file'["fetched_at"] = <<>>
      BY <1>3, <2>2, RecoverySound, NameSets
    <3>2. ASSUME NEW d \in Days PROVE FetchOfEachDay'[d] = 0
      <4>1. DOMAIN file'["fetched_at"] = {}
        BY <3>1
      <4> QED
        BY <4>1 DEF FetchOfEachDay
    <3>3. FetchOfEachDay' = [d \in Days |-> 0]
      <4>1. FetchOfEachDay' = [d \in Days |-> FetchOfEachDay'[d]]
        BY DEF FetchOfEachDay
      <4> QED
        BY <3>2, <4>1
    <3> QED
      BY <1>1, <1>3, <2>1, <3>1, <3>3 DEF Store!Next, Store!Recover
  <2>3. CASE session' # "Open"
    <3>1. ~IsSettled'
      BY <1>3, <2>3, RecoverySound
    <3>2. FetchOfEachDay' = [d \in Days |-> 0]
      BY <3>1, NothingStored
    <3> QED
      BY <1>1, <1>3, <2>1, <3>1, <3>2 DEF Store!vars
  <2> QED
    BY <2>2, <2>3
<1> QED
  BY <1>2, <1>3

\* Every step of the archive is one of the store, or none.
LEMMA StoreStep ==
    ASSUME Typed, Upright, Clear, Typed', Upright', [Next]_vars
    PROVE  [Store!Next]_Store!vars
<1>1. CASE ~Whole'
  BY <1>1 DEF Store!Next, Store!Tear
<1>2. CASE Whole'
  <2>1. Whole /\ OpenSettled /\ (Sound \/ Stuck) /\ (Sound' \/ Stuck')
    BY <1>2, WholeBefore DEF Clear, Upright, Whole
  <2>2. ASSUME Sound, NEW d \in Days, NEW rows \in RowCounts,
               insert_or_replace_day(d, rows)
        PROVE  Store!Next
    BY <1>2, <2>1, <2>2, InsertStores DEF Store!Next
  <2>3. CASE file' = file /\ fetched' = fetched
    <3>1. FetchOfEachDay' = FetchOfEachDay /\ IsSettled' = IsSettled
      BY <2>3, StoreStands
    <3> QED
      BY <1>2, <2>1, <2>3, <3>1 DEF Store!vars
  <2>4. CASE Stuck
    <3>1. ~IsSettled /\ ~IsSettled' /\ fetched' = fetched
      BY <2>4, StuckStays DEF Stuck, IsSettled
    <3>2. FetchOfEachDay' = FetchOfEachDay
      BY <3>1, NothingStored
    <3> QED
      BY <1>2, <2>1, <3>1, <3>2 DEF Store!vars
  <2>5. CASE Sound
    BY <1>2, <2>1, <2>2, <2>3, <2>5, DeleteStores, OpenStores DEF Next, CloseArchive, vars
  <2> QED
    BY <2>1, <2>4, <2>5
<1> QED
  BY <1>1, <1>2

\* The archive starts as an empty store.
LEMMA StoreInit == Init => Store!Init
<1> SUFFICES ASSUME Init PROVE Store!Init
  OBVIOUS
<1>1. /\ file["day"] = <<>> /\ file["fetched_at"] = <<>> /\ fetched = <<>> /\ IsSettled
  BY NameSets DEF Init, IsSettled
<1>2. ASSUME NEW d \in Days PROVE FetchOfEachDay[d] = 0
  <2>1. DOMAIN file["fetched_at"] = {}
    BY <1>1
  <2> QED
    BY <2>1 DEF FetchOfEachDay
<1>3. FetchOfEachDay = [d \in Days |-> 0]
  <2>1. FetchOfEachDay = [d \in Days |-> FetchOfEachDay[d]]
    BY DEF FetchOfEachDay
  <2> QED
    BY <1>2, <2>1
<1> QED
  BY <1>1, <1>3 DEF Store!Init, Store!Nothing, Init, Whole, Survived, NoEmptyDay

-----------------------------------------------------------------------------
\* The archive implements the store of DayStore.  Until the store is torn, by
\* what OpensPutRight says nothing of, an insert stores its day or changes no day,
\* a delete removes the days before its cutoff or nothing or, stopped once its
\* mark is in the file, everything, and neither an open nor a close stores or
\* removes a day.
THEOREM StoreIsImplemented == Spec => ImplementsDayStore
<1>1. (Typed /\ Upright /\ Clear) /\ (Typed /\ Upright /\ Clear)' /\ [Next]_vars
        => [Store!Next]_Store!vars
  BY StoreStep
<1> QED
  BY <1>1, StoreInit, ClearAlways, PTL DEF Spec, ImplementsDayStore, Store!Spec

=============================================================================
