----------------------------- MODULE DayArchive -----------------------------
(***************************************************************************)
(* An archive of fetched days (crates/gt-hdf5-archive, with the insert of  *)
(* gt-flare-store and gt-jam-store): one row level of parallel data        *)
(* columns, and a day index with one row per stored day.                   *)
(*                                                                         *)
(* An operation holds the store's mutex and the file lock from its first   *)
(* read to its last write, so nothing runs between its writes: what can    *)
(* happen there is that the operation stops.  An operation is therefore    *)
(* one action, which performs all of its writes or a prefix of them.       *)
(* It stops early when a column is not what it expects, when a write fails *)
(* ("Error": the session goes on) or when the process dies ("Killed": the  *)
(* archive is opened again).  The history variable stopped records where   *)
(* inserts and deletes were stopped so far: not every stop can be put      *)
(* right, and the properties name those they hold under.                   *)
(*                                                                         *)
(* A write that was performed before a stop is taken to be in the file,    *)
(* and the writes after it are taken not to be.                            *)
(***************************************************************************)
EXTENDS Integers, Sequences, FiniteSets, SequencesExt

CONSTANTS
    Days,           \* the days, as numbers
    RowCounts,      \* how many rows a fetched day may have
    MaxFetches,     \* bound: days fetched in one behaviour
    Replaces,       \* insert_or_replace_day, or insert_day that refuses
    Missing         \* an unlinked column

ASSUME ConstantsAssumption ==
    /\ Days \subseteq Nat /\ Days # {} /\ IsFiniteSet(Days)
    /\ RowCounts \subseteq Nat
    /\ MaxFetches \in Nat
    /\ Replaces \in BOOLEAN

VARIABLES
    file,       \* the columns of the file, and its delete-in-flight mark
    fetched,    \* what was fetched so far, the stored rows of fetch f being
                \* <<f, 1>>, <<f, 2>> ...
    session,    \* "Open", "Closed", or "Refused" when the last open failed
    stopped     \* history: the stops inserts and deletes met, <<phase, how>>

vars == <<file, fetched, session, stopped>>

DataColumns == <<"id", "begin", "peak">>
\* The column whose length is the offset of the next day.
OffsetSource == "begin"
\* fetched_at stands for the host as well, written right after it.
IndexColumns == <<"day", "offset", "count", "fetched_at">>
Mark == "delete_in_flight"

Columns == ToSet(DataColumns) \cup ToSet(IndexColumns)

IsSettled == file[Mark] = "Settled"

Rows(f) == [n \in 1..fetched[f].rows |-> <<f, n>>]

AnyRow == (1..MaxFetches) \X Nat
ASSUME MissingAssumption == Missing \notin Seq(AnyRow)

\* The parts of operations that writes belong to, and the stops: which write an
\* operation was stopped before, and whether that write failed or the process
\* died.
Phases == {"rows", "index", "delete", "unlinked", "recovery", "cut"}
Stops == Phases \X {"Error", "Killed"}

TypeOK ==
    /\ file[Mark] \in {"Settled", "InFlight"}
    /\ \A c \in ToSet(DataColumns) :
          file[c] = Missing \/ file[c] \in Seq(AnyRow)
    /\ file["day"] \in Seq(Days)
    /\ \A c \in {"offset", "count"} : file[c] \in Seq(Nat)
    /\ file["fetched_at"] \in Seq(1..MaxFetches)
    /\ fetched \in Seq([day : Days, rows : RowCounts])
    /\ Len(fetched) <= MaxFetches
    /\ session \in {"Open", "Closed", "Refused"}
    /\ stopped \subseteq Stops

\* create_with_empty_columns.
Init ==
    /\ file = [name \in Columns \cup {Mark} |->
                  IF name = Mark THEN "Settled" ELSE <<>>]
    /\ fetched = <<>>
    /\ session = "Open"
    /\ stopped = {}

-----------------------------------------------------------------------------
\* Writes, and how far an operation gets in them.

\* A write that leaves `to` in the column, made in a phase of an operation.
\* It is not possible where the column is not what the code expects.
Write(name, to, phase, possible) ==
    [name |-> name, to |-> to, phase |-> phase, possible |-> possible]

After(writes, k) ==
    [name \in DOMAIN file |->
        LET made == {i \in 1..k : writes[i].name = name}
        IN  IF made = {} THEN file[name] ELSE writes[Max(made)].to]

\* How many writes an operation that nothing stops gets to make.
Reach(writes) ==
    LET refused == {i \in DOMAIN writes : ~writes[i].possible}
    IN  IF refused = {} THEN Len(writes) ELSE Min(refused) - 1

IsRefused(writes) == Reach(writes) < Len(writes)

\* The operation stops after k of its writes, before the next one is made.
StopsAfter(writes, k) ==
    /\ k < Reach(writes)
    /\ file' = After(writes, k)

\* An insert or a delete of the open session, up to its end or to where it
\* stops.
Perform(writes) ==
    \/ /\ file' = After(writes, Reach(writes))
       /\ UNCHANGED <<session, stopped>>
    \/ \E k \in 0..Len(writes), how \in {"Error", "Killed"} :
          /\ StopsAfter(writes, k)
          /\ session' = IF how = "Killed" THEN "Closed" ELSE session
          /\ stopped' = stopped \cup {<<writes[k + 1].phase, how>>}

-----------------------------------------------------------------------------
\* Reading the day index.

\* row_of: the first row holding the day, 0 where there is none.
row_of(d) == Max({0} \cup {i \in DOMAIN file["day"] :
                     /\ file["day"][i] = d
                     /\ \A j \in 1..(i - 1) : file["day"][j] # d})

\* rows_reached: how far into the data columns the index reaches.
rows_reached ==
    LET both == DOMAIN file["offset"] \cap DOMAIN file["count"]
    IN  Max({0} \cup {file["offset"][i] + file["count"][i] : i \in both})

-----------------------------------------------------------------------------
\* Storing a day.

\* Slip: the day and its offset land in each other's column.
insert_or_replace_Swapped(d, offset, rows, f) ==
    LET AtEnd(c, value) == Write(c, Append(file[c], value), "index", TRUE)
    IN  << AtEnd("day", offset), AtEnd("offset", d),
           AtEnd("count", rows), AtEnd("fetched_at", f) >>

\* DayIndex::insert_or_replace, the writes of it.
insert_or_replace(d, offset, rows, f) ==
    LET row    == row_of(d)
        AtRow(c, value) ==
            IF row \in DOMAIN file[c]
            THEN Write(c, [file[c] EXCEPT ![row] = value], "index", TRUE)
            ELSE Write(c, file[c], "index", FALSE)
        AtEnd(c, value) == Write(c, Append(file[c], value), "index", TRUE)
    IN  IF row > 0
        THEN << AtRow("offset", offset), AtRow("count", rows),
                AtRow("fetched_at", f) >>
        ELSE << AtEnd("day", d), AtEnd("offset", offset),
                AtEnd("count", rows), AtEnd("fetched_at", f) >>

\* The rows of fetch f at the end of every data column, in column order.
append_rows(rows, f) ==
    [i \in DOMAIN DataColumns |->
        LET c == DataColumns[i]
        IN  IF file[c] = Missing
            THEN Write(c, Missing, "rows", FALSE)
            ELSE Write(c, file[c] \o [n \in 1..rows |-> <<f, n>>],
                       "rows", TRUE)]

insert_or_replace_day(d, rows) ==
    /\ session = "Open"
    /\ Len(fetched) < MaxFetches
    /\ Replaces \/ row_of(d) = 0
    /\ file[OffsetSource] # Missing
    /\ fetched' = Append(fetched, [day |-> d, rows |-> rows])
    /\ LET f == Len(fetched')
       IN  Perform(append_rows(rows, f) \o
                   insert_or_replace(d, Len(file[OffsetSource]), rows, f))

-----------------------------------------------------------------------------
\* Deleting days.

Start(row) == file["offset"][row]
End(row)   == file["offset"][row] + file["count"][row]

\* The sequences of the rows of a set that are in an order: one where the
\* order is total.
Listings(S) == {s \in [1..Cardinality(S) -> S] : ToSet(s) = S}

\* The rows of the index a delete keeps, in index order.
KeptRows(cutoff) ==
    {s \in Listings({i \in DOMAIN file["day"] : file["day"][i] >= cutoff}) :
        \A i, j \in DOMAIN s : i < j => s[i] < s[j]}

\* RowPlan::of lays the extents out in the order they sit in now.
Laid(kept) ==
    {s \in Listings(ToSet(kept)) :
        \A i, j \in DOMAIN s : i < j =>
            \/ Start(s[i]) < Start(s[j])
            \/ Start(s[i]) = Start(s[j]) /\ s[i] < s[j]}

Overlaps(laid) == \E i \in 2..Len(laid) : Start(laid[i]) < End(laid[i - 1])

\* Where the first i of the extents end once they are moved together.
Compacted(laid) ==
    LET end[i \in 0..Len(laid)] ==
            IF i = 0 THEN 0 ELSE end[i - 1] + file["count"][laid[i]]
    IN  end

\* The first row a kept day moves to.
NewOffset(laid, row) ==
    Compacted(laid)[(CHOOSE i \in DOMAIN laid : laid[i] = row) - 1]

\* rewrite_column: the column is unlinked, then created with the rows kept.
rewrite_column(c, laid) ==
    IF file[c] = Missing \/ \E i \in DOMAIN laid : End(laid[i]) > Len(file[c])
    THEN << Write(c, file[c], "delete", FALSE) >>
    ELSE LET extents == [i \in DOMAIN laid |->
                            SubSeq(file[c], Start(laid[i]) + 1, End(laid[i]))]
         IN  << Write(c, Missing, "delete", TRUE),
                Write(c, FlattenSeq(extents), "unlinked", TRUE) >>

\* Slip: the offsets are written back as they were before the rows moved.
overwrite_index_NotRebased(kept, laid) ==
    [i \in DOMAIN IndexColumns |->
        LET c == IndexColumns[i]
        IN  Write(c, [k \in DOMAIN kept |-> file[c][kept[k]]],
                  "delete", TRUE)]

\* Slip: the times of the fetches are cut to length but not moved.
overwrite_index_TimesLeft(kept, laid) ==
    [i \in DOMAIN IndexColumns |->
        LET c == IndexColumns[i]
        IN  Write(c, [k \in DOMAIN kept |->
                        IF c = "offset" THEN NewOffset(laid, kept[k])
                        ELSE IF c = "fetched_at" THEN file[c][k]
                        ELSE file[c][kept[k]]],
                  "delete", TRUE)]

overwrite_index(kept, laid) ==
    [i \in DOMAIN IndexColumns |->
        LET c == IndexColumns[i]
        IN  Write(c, [k \in DOMAIN kept |->
                        IF c = "offset" THEN NewOffset(laid, kept[k])
                                        ELSE file[c][kept[k]]],
                  "delete", TRUE)]

InFlight == << Write(Mark, "InFlight", "delete", TRUE) >>
Settled(phase) == << Write(Mark, "Settled", phase, TRUE) >>

\* Slip: the mark is not taken back.
retain_days_StaysInFlight(kept, laid) ==
    InFlight \o FlattenSeq([i \in DOMAIN DataColumns |->
                                rewrite_column(DataColumns[i], laid)])
    \o overwrite_index(kept, laid)

\* retain_days.  The rows are planned once the mark is in the file, so a plan
\* that is rejected leaves the mark there.
retain_days(kept, laid) ==
    InFlight \o
    (IF Overlaps(laid)
     THEN << Write("day", file["day"], "delete", FALSE) >>
     ELSE FlattenSeq([i \in DOMAIN DataColumns |->
                         rewrite_column(DataColumns[i], laid)])
          \o overwrite_index(kept, laid) \o Settled("delete"))

\* delete_days_before, and delete_all_days as a cutoff past every day.  A
\* delete that finds nothing to remove, or an index column cut short of the
\* days it keeps, returns before it writes.
delete_days_before(cutoff) ==
    \E kept \in KeptRows(cutoff) :
        /\ session = "Open"
        /\ Len(kept) < Len(file["day"])
        /\ \A c \in ToSet(IndexColumns), i \in DOMAIN kept :
              kept[i] \in DOMAIN file[c]
        /\ \E laid \in Laid(kept) : Perform(retain_days(kept, laid))
        /\ UNCHANGED fetched

-----------------------------------------------------------------------------
\* Opening the archive.

\* Slip: the mark is taken back before the columns are cut.
recover_interrupted_delete_MarkFirst ==
    Settled("recovery")
    \o [i \in DOMAIN IndexColumns |->
          Write(IndexColumns[i], <<>>, "recovery", TRUE)]
    \o [i \in DOMAIN DataColumns |->
          Write(DataColumns[i], <<>>, "recovery", TRUE)]

\* drop_every_day, the index first, and the mark after it.
recover_interrupted_delete ==
    [i \in DOMAIN IndexColumns |->
        Write(IndexColumns[i], <<>>, "recovery", TRUE)]
    \o [i \in DOMAIN DataColumns |->
          Write(DataColumns[i], IF file[DataColumns[i]] = Missing
                                THEN Missing ELSE <<>>,
                "recovery", file[DataColumns[i]] # Missing)]
    \o Settled("recovery")

\* Slip: only the column the next offset is read from is cut.
drop_unindexed_rows_SourceOnly ==
    << Write(OffsetSource, SubSeq(file[OffsetSource], 1, rows_reached),
             "cut", Len(file[OffsetSource]) >= rows_reached) >>

drop_unindexed_rows ==
    [i \in DOMAIN DataColumns |->
        LET c == DataColumns[i]
        IN  IF file[c] = Missing \/ Len(file[c]) < rows_reached
            THEN Write(c, file[c], "cut", FALSE)
            ELSE Write(c, SubSeq(file[c], 1, rows_reached), "cut", TRUE)]

\* What an open writes: after a recovery there is nothing left to cut.
open_writes ==
    IF IsSettled THEN drop_unindexed_rows ELSE recover_interrupted_delete

\* open_or_create_with_recovery_choice.  A declined recovery ends the open
\* before it writes anything.
open_or_create(recovery) ==
    /\ session # "Open"
    /\ IsSettled \/ recovery = "Recover"
    /\ \/ /\ file' = After(open_writes, Reach(open_writes))
          /\ session' = IF IsRefused(open_writes) THEN "Refused" ELSE "Open"
       \/ /\ \E k \in 0..Len(open_writes) : StopsAfter(open_writes, k)
          /\ session' = "Closed"
    /\ UNCHANGED <<fetched, stopped>>

\* The program ends with no operation running.
CloseArchive ==
    /\ session = "Open"
    /\ session' = "Closed"
    /\ UNCHANGED <<file, fetched, stopped>>

Next ==
    \/ \E d \in Days, rows \in RowCounts : insert_or_replace_day(d, rows)
    \/ \E cutoff \in Days \cup {Max(Days) + 1} : delete_days_before(cutoff)
    \/ \E recovery \in {"Decline", "Recover"} : open_or_create(recovery)
    \/ CloseArchive

Spec == Init /\ [][Next]_vars

-----------------------------------------------------------------------------

\* The stops an archive survives: a process that dies while the rows of a day
\* are appended or while a delete moves rows, which the next open recovers from,
\* and one that dies where the rewrite of a column has unlinked it and not
\* created it yet, after which no open succeeds.  Any other stop leaves an
\* archive in use, or one an open finds nothing wrong with, whose index and rows
\* do not agree: an insert stopped in its index, an append that fails, and a
\* delete that fails in a session that goes on.
SurvivedStops == {"rows", "delete", "unlinked"} \X {"Killed"}

Survived == stopped \subseteq SurvivedStops

\* No day was stored without rows: where one is replaced, its extent lies
\* within that of the day stored next, and every later delete is rejected.
NoEmptyDay == \A i \in DOMAIN fetched : fetched[i].rows > 0

\* Nothing befell the archive that it does not survive.
Whole == Survived /\ NoEmptyDay

\* "What an entry never does is name rows that are not its own" (prune.rs):
\* while no delete is in flight, and no insert or delete was stopped where the
\* archive does not survive it, the rows an index entry names are, in every
\* data column, exactly the rows fetched for its day by the fetch its own
\* fetched_at records.
EntriesNameTheirOwnRows ==
    Survived /\ IsSettled =>
        \A d \in Days : row_of(d) > 0 =>
            LET row == row_of(d)
            IN  /\ \A c \in ToSet(IndexColumns) : row \in DOMAIN file[c]
                /\ fetched[file["fetched_at"][row]].day = d
                /\ \A c \in ToSet(DataColumns) :
                      /\ file[c] # Missing
                      /\ End(row) <= Len(file[c])
                      /\ SubSeq(file[c], Start(row) + 1, End(row))
                            = Rows(file["fetched_at"][row])

\* The columns of an archive that is open for use are parallel: every data
\* column is as long as the one the next offset is read from, no longer and no
\* shorter, which is what the next insert relies on.
OpenColumnsAreParallel ==
    session = "Open" =>
        /\ \A c \in ToSet(DataColumns) :
              /\ file[c] # Missing
              /\ Len(file[c]) = Len(file[OffsetSource])
              /\ Len(file[c]) >= rows_reached
        /\ \A c \in ToSet(IndexColumns) : Len(file[c]) = Len(file["day"])

\* recover_interrupted_delete and drop_unindexed_rows exist to "bring an
\* archive back to a state its index and rows agree on" (prune.rs).  They do
\* after the stops the archive survives and where no empty day was stored: what
\* an open leaves is parallel, no session goes on using an archive whose delete
\* did not end, and the one archive an open that may write refuses is one whose
\* process died with a column unlinked.  After the other stops they do not.
OpenPutsTheArchiveRight ==
    Whole =>
        /\ session = "Refused" => <<"unlinked", "Killed">> \in stopped
        /\ OpenColumnsAreParallel
        /\ session = "Open" => IsSettled

\* A delete that nothing stopped ends with its rows moved and its mark taken
\* back, so the next open discards nothing.
UninterruptedDeleteSettles == stopped = {} => IsSettled

\* The columns, the index and the order of the writes implement the map from
\* day to fetch of DayStore, which the store is until it is torn by a stop the
\* archive does not survive or by an empty day.  Until then an insert stores its
\* day or changes no day, a delete keeps the days it does not remove, and only a
\* stopped delete loses any.
FetchOfEachDay ==
    [d \in Days |->
        IF IsSettled /\ row_of(d) \in DOMAIN file["fetched_at"]
        THEN file["fetched_at"][row_of(d)] ELSE 0]

Store ==
    INSTANCE DayStore WITH
        stored  <- FetchOfEachDay,
        lost    <- ~IsSettled,
        torn    <- ~Whole,
        fetches <- Len(fetched)

ImplementsDayStore == Store!Spec

=============================================================================
