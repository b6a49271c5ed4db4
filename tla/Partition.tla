------------------------------ MODULE Partition ------------------------------
(***************************************************************************)
(* The files of one partition: for each column a <col>.col of blocks and a *)
(* <col>.idx that names them.  The flush appends a block to every column   *)
(* and publishes ts last; the compactor re-cuts the columns into larger    *)
(* blocks next to the live files and swaps them in under a journal; the    *)
(* reader pairs the columns' blocks again by their durable ordinals.       *)
(*                                                                         *)
(* Column 0 is ts (ts_col_idx 0), the others hold values.  A cell is the   *)
(* number of the row it belongs to, or 0 for a zero.                       *)
(***************************************************************************)
EXTENDS Integers, FiniteSets, Sequences, SequencesExt, FiniteSetsExt

CONSTANTS
    MaxCols,        \* columns after every ALTER TABLE ADD COLUMN
    FirstCols,      \* columns of the table as created
    MaxRows,        \* rows inserted
    MemRows,        \* rows the memtable holds at most
    BlockPoints,    \* COMPACT_BLOCK_POINTS, rows of a compacted block
    Threshold,      \* blocks of ts that make a partition worth compacting
    MaxIOErrors,    \* failing writes
    MaxStops        \* crashes of the process

VARIABLES
    disk,       \* the files of the partition
    schema,     \* [ncols, born]: columns, and the last row older than each
    mem,        \* rows in the memtable, which the WAL also holds
    rows,       \* rows inserted so far
    held,       \* holder of compact_mtx: "none", "flush" or "swap"
    flush,      \* the running tsdb_part_flush_ex2
    comp,       \* the running compact_partition
    mode,       \* [redo, same]: WAL replay on restart; all rows at one time
    stored,     \* rows whose flush has returned or is known to recovery
    spoiled,    \* the schedules below that have happened
    ioErrors, stops

pvars == <<disk, schema, mem, rows, held, flush, comp, mode, stored, spoiled,
           ioErrors, stops>>

(***************************************************************************)
(* Schedules the code does not survive.                                    *)
(*   unrecovered  a partition with an interrupted swap is flushed into or  *)
(*                compacted before anything opens it                       *)
(*   overtaken    ... and then opened without compact_mtx in mid-flush     *)
(*   unjournaled  an opener without compact_mtx reads the journal while it *)
(*                is still empty, and unlinks it                           *)
(*   shared       flush and compactor use <col>.idx.tmp at the same time   *)
(*   refilled     a DELETE during phase 1, and flushes that bring the      *)
(*                block counts back to what the compactor remembers        *)
(*   appeared     the first block of an added column is published between  *)
(*                the pre-pass and phase 1                                 *)
(*   widened      an ALTER during a compaction                             *)
(***************************************************************************)
Columns == 0..(MaxCols - 1)
Schema == 0..(schema.ncols - 1)

NoIdx == [entries |-> <<>>, seq |-> 0, stamp |-> 0, long |-> FALSE]
NoMarker == [there |-> FALSE, cols |-> {}]
NoFiles == [col |-> [c \in Columns |-> <<>>], idx |-> [c \in Columns |-> NoIdx],
            coltmp |-> <<>>, idxtmp |-> <<>>, marker |-> NoMarker]
NoFlush == [pc |-> "idle", col |-> 0, ord |-> 0]
NoComp == [pc |-> "idle", col |-> 0, ts |-> <<>>, base |-> 0,
           seen |-> {0}, pad |-> [c \in Columns |-> 0], flat |-> <<>>, got |-> <<>>,
           failed |-> FALSE, pulled |-> FALSE]

Time(r) == IF mode.same THEN 1 ELSE r
Times(cells) == {Time(cells[i]) : i \in DOMAIN cells}
Cell(c, r) == IF r > schema.born[c] THEN r ELSE 0

Without(f, S) == [c \in DOMAIN f \ S |-> f[c]]
With(f, c, x) == [d \in DOMAIN f \cup {c} |-> IF d = c THEN x ELSE f[d]]

(***************************************************************************)
(* Blocks.  A block takes its header and its cells; an index entry finds   *)
(* it by offset and row count, and anything else at that offset fails the  *)
(* header or checksum test.                                                *)
(***************************************************************************)
Block(at, cells) == [at |-> at, cells |-> cells]
Extent(blocks) ==
    IF blocks = <<>> THEN 0
    ELSE LET last == blocks[Len(blocks)] IN last.at + 1 + Len(last.cells)
Unreadable == <<>>

BlockAt(blocks, e) ==
    LET hits == {i \in DOMAIN blocks : blocks[i].at = e.at /\ Len(blocks[i].cells) = e.n}
    IN  IF hits = {} THEN Unreadable ELSE blocks[Min(hits)].cells

Entry(at, n, times, ord) ==
    [at |-> at, n |-> n, lo |-> Min(times), hi |-> Max(times), ord |-> ord]

Ords(entries) == {entries[i].ord : i \in DOMAIN entries}
RowCount(entries) == FoldSeq(LAMBDA e, n : n + e.n, 0, entries)

NextOfIdx(entries) == Max({Len(entries)} \cup {o + 1 : o \in Ords(entries)})
NextOrdinalOfTs(d) == NextOfIdx(d.idx[0].entries)
NextOrdinal(d) == Max({NextOfIdx(d.idx[c].entries) : c \in Schema})

(***************************************************************************)
(* tsdb_part_open: complete an interrupted swap, take the blocks whose     *)
(* bytes are there, clamp to the durable prefix, and align every column to *)
(* the blocks of ts.                                                       *)
(***************************************************************************)
Recovered(d) ==
    LET Moved(live, tmp) ==
            [c \in Columns |-> IF c \in d.marker.cols \cap DOMAIN tmp
                               THEN tmp[c] ELSE live[c]]
    IN  [col |-> Moved(d.col, d.coltmp), idx |-> Moved(d.idx, d.idxtmp),
         coltmp |-> Without(d.coltmp, d.marker.cols),
         idxtmp |-> Without(d.idxtmp, d.marker.cols),
         marker |-> NoMarker]

Declared(d, c) == Len(d.idx[c].entries)
Mapped(d, c) ==
    SelectSeq(d.idx[c].entries, LAMBDA e : e.at + 1 + e.n <= Extent(d.col[c]))

Whole(d, c) == Declared(d, c) >= Declared(d, 0)
DurablePrefix(d) == Min({Len(Mapped(d, c)) : c \in {s \in Schema : Whole(d, s)}})
Metas(d, c) ==
    LET m == Mapped(d, c)
    IN  IF Whole(d, c) /\ DurablePrefix(d) < Len(Mapped(d, 0))
        THEN SubSeq(m, 1, DurablePrefix(d)) ELSE m

\* What a block of ts is answered with when no block of the column is.
Zero == -1
Hole == -2
Mismatch == -3

MetaAgrees(m, t) == m.n = t.n /\ m.lo = t.lo /\ m.hi = t.hi

AbsenceIsLateAdd(d, c) ==
    /\ \A later \in (c + 1)..(schema.ncols - 1) : Declared(d, later) = 0
    /\ d.idx[0].stamp = 0 \/ c >= d.idx[0].stamp

\* part_keyref_build: what the blocks are compared by.
FullKeys(m) == [k \in DOMAIN m |-> <<m[k].lo, m[k].hi, m[k].n>>]
RelKeys(m) == [k \in DOMAIN m |-> <<m[k].lo, m[k].n>>]

\* part_legacy_pair: by content, where the content of ts tells blocks apart.
LegacyPair(ts, cm) ==
    LET full(b) == {k \in DOMAIN cm : FullKeys(cm)[k] = FullKeys(ts)[b]}
        rel(b) == {k \in DOMAIN cm : RelKeys(cm)[k] = RelKeys(ts)[b]}
    IN  [b \in DOMAIN ts |->
            IF ~IsInjective(FullKeys(ts)) THEN Hole
            ELSE IF full(b) # {} THEN Max(full(b))
            ELSE IF IsInjective(RelKeys(ts)) /\ rel(b) # {} THEN Max(rel(b))
            ELSE Hole]

\* The content rule of part_align_column, when no ordinal of the column is
\* one of ts.
AlignByContent(ts, cm) ==
    LET short == Len(ts) - Len(cm)
        fits == {s \in 0..short : \A k \in DOMAIN cm : MetaAgrees(cm[k], ts[s + k])}
        at == Min(fits)
    IN  IF short <= 0 \/ fits = {} THEN LegacyPair(ts, cm)
        ELSE [b \in DOMAIN ts |->
                IF Cardinality(fits) > 1 THEN Hole
                ELSE IF b - at \in DOMAIN cm THEN b - at
                ELSE IF at = short THEN Zero ELSE Hole]

AlignColumn(d, c) ==
    LET ts == Metas(d, 0)
        cm == Metas(d, c)
        claims == [b \in DOMAIN ts |-> {k \in DOMAIN cm : cm[k].ord = ts[b].ord}]
        Agrees(b) == MetaAgrees(cm[Max(claims[b])], ts[b])
        named == {b \in DOMAIN ts : claims[b] # {}}
        paired == {b \in named : Agrees(b)}
        lateAdd == named = paired /\ paired = (Len(ts) - Cardinality(paired) + 1)..Len(ts)
        exact == /\ Len(cm) >= Len(ts)
                 /\ \A b \in DOMAIN ts : cm[b].ord = ts[b].ord /\ MetaAgrees(cm[b], ts[b])
    IN  IF exact THEN [b \in DOMAIN ts |-> b]
        ELSE IF cm = <<>>
        THEN [b \in DOMAIN ts |-> IF Declared(d, c) = 0 /\ AbsenceIsLateAdd(d, c)
                                  THEN Zero ELSE Hole]
        ELSE IF named = {} THEN AlignByContent(ts, cm)
        ELSE [b \in DOMAIN ts |-> IF b \in paired THEN Max(claims[b])
                                  ELSE IF b \in named THEN Mismatch
                                  ELSE IF lateAdd THEN Zero ELSE Hole]

\* What a query reads of a value column and of ts, block by block of ts.
ReadColumn(d, c) ==
    LET ts == Metas(d, 0)
        cm == Metas(d, c)
        pick == AlignColumn(d, c)
    IN  [b \in DOMAIN ts |->
            IF pick[b] > 0 THEN BlockAt(d.col[c], cm[pick[b]])
            ELSE IF pick[b] = Zero THEN [i \in 1..ts[b].n |-> 0] ELSE Unreadable]

ReadTs(d) ==
    LET ts == Metas(d, 0) IN [b \in DOMAIN ts |-> BlockAt(d.col[0], ts[b])]

(***************************************************************************)
(* Rows arrive in the memtable; an ALTER adds a column after flushing it.  *)
(***************************************************************************)
PartitionInit ==
    /\ disk = NoFiles
    /\ schema = [ncols |-> FirstCols, born |-> [c \in Columns |-> 0]]
    /\ mem = <<>> /\ rows = 0
    /\ held = "none"
    /\ flush = NoFlush
    /\ comp = NoComp
    /\ mode \in [redo : BOOLEAN, same : BOOLEAN]
    /\ stored = {}
    /\ spoiled = {}
    /\ ioErrors = 0 /\ stops = 0

Insert ==
    /\ rows < MaxRows
    /\ Len(mem) < MemRows
    /\ flush.pc = "idle"
    /\ rows' = rows + 1
    /\ mem' = Append(mem, rows + 1)
    /\ UNCHANGED <<disk, schema, held, flush, comp, mode, stored, spoiled, ioErrors, stops>>

\* compact_partition sized its arrays by the old schema: what an overlapping
\* ALTER makes of them is not modelled.
AddColumn ==
    /\ schema.ncols < MaxCols
    /\ held = "none" /\ mem = <<>>
    /\ schema' = [ncols |-> schema.ncols + 1,
                  born |-> [schema.born EXCEPT ![schema.ncols] = rows]]
    /\ spoiled' = spoiled \cup IF comp.pc = "idle" THEN {} ELSE {"widened"}
    /\ UNCHANGED <<disk, mem, rows, held, flush, comp, mode, stored, ioErrors, stops>>

\* tsdb_delete_range of the whole partition, after flushing what it covers.
DeletePartition ==
    /\ held = "none" /\ mem = <<>>
    /\ disk # NoFiles
    /\ disk' = NoFiles
    /\ stored' = {}
    /\ comp' = IF comp.pc = "idle" THEN comp ELSE [comp EXCEPT !.pulled = TRUE]
    /\ UNCHANGED <<schema, mem, rows, held, flush, mode, spoiled, ioErrors, stops>>

(***************************************************************************)
(* The flush, under compact_mtx: the value columns in order, then ts.      *)
(***************************************************************************)
FlushStart ==
    /\ held = "none" /\ mem # <<>>
    /\ held' = "flush"
    /\ flush' = [pc |-> "append", col |-> 1, ord |-> NextOrdinal(disk)]
    /\ spoiled' = spoiled \cup IF disk.marker.there THEN {"unrecovered"} ELSE {}
    /\ UNCHANGED <<disk, schema, mem, rows, comp, mode, stored, ioErrors, stops>>

NextOfFlush(c) == (c + 1) % schema.ncols
FlushCells(c) == [i \in DOMAIN mem |-> Cell(c, mem[i])]

\* col_writer_write_block and the fsync of the .col.
FlushAppend ==
    LET c == flush.col
    IN  /\ flush.pc = "append"
        /\ disk' = [disk EXCEPT !.col[c] = Append(@, Block(Extent(@), FlushCells(c)))]
        /\ flush' = [flush EXCEPT !.pc = "publish"]
        /\ UNCHANGED <<schema, mem, rows, held, comp, mode, stored, spoiled, ioErrors, stops>>

\* The index with this flush's block: entries, checkpoint and column stamp
\* in one.
FlushIdx(c) ==
    LET old == disk.idx[c]
        block == disk.col[c][Len(disk.col[c])]
    IN  [entries |-> Append(old.entries, Entry(block.at, Len(mem), Times(mem), flush.ord)),
         seq |-> IF mode.redo THEN Max({old.seq, mem[Len(mem)]}) ELSE old.seq,
         stamp |-> schema.ncols,
         long |-> FALSE]

Appendable(c) == disk.idx[c].entries # <<>> /\ ~disk.idx[c].long

\* col_idx_append_publish, [1] and [2]: the new entries, past the old end.
FlushEntries ==
    /\ flush.pc = "publish" /\ Appendable(flush.col)
    /\ disk' = [disk EXCEPT !.idx[flush.col].long = TRUE]
    /\ flush' = [flush EXCEPT !.pc = "header"]
    /\ UNCHANGED <<schema, mem, rows, held, comp, mode, stored, spoiled, ioErrors, stops>>

\* The full rewrite of col_writer_close, to <col>.idx.tmp.
FlushTmp ==
    LET c == flush.col
    IN  /\ flush.pc = "publish" /\ ~Appendable(c)
        /\ disk' = [disk EXCEPT !.idxtmp = With(@, c, FlushIdx(c))]
        /\ flush' = [flush EXCEPT !.pc = "rename"]
        /\ UNCHANGED <<schema, mem, rows, held, comp, mode, stored, spoiled, ioErrors, stops>>

AfterColumn ==
    flush' = IF flush.col = 0 THEN [flush EXCEPT !.pc = "done"]
             ELSE [flush EXCEPT !.pc = "append", !.col = NextOfFlush(@)]

\* [3]: count, checkpoint and stamp in one write of the header.
FlushHeader ==
    LET c == flush.col
    IN  /\ flush.pc = "header"
        /\ disk' = [disk EXCEPT !.idx[c] = FlushIdx(c)]
        /\ AfterColumn
        /\ UNCHANGED <<schema, mem, rows, held, comp, mode, stored, spoiled, ioErrors, stops>>

FlushRename ==
    LET c == flush.col
    IN  /\ flush.pc = "rename" /\ c \in DOMAIN disk.idxtmp
        /\ disk' = [disk EXCEPT !.idx[c] = disk.idxtmp[c], !.idxtmp = Without(@, {c})]
        /\ AfterColumn
        /\ UNCHANGED <<schema, mem, rows, held, comp, mode, stored, spoiled, ioErrors, stops>>

\* flush_and_clear_locked clears the memtable and the WAL and unlocks.
FlushDone ==
    /\ flush.pc = "done"
    /\ stored' = stored \cup ToSet(mem)
    /\ mem' = <<>>
    /\ held' = "none"
    /\ flush' = NoFlush
    /\ UNCHANGED <<disk, schema, rows, comp, mode, spoiled, ioErrors, stops>>

\* A write fails: this column is rolled back, the ones before it stay
\* published, and the rows stay in the memtable.  The temporary that is then
\* unlinked has the name of the compactor's.
FlushFails ==
    LET c == flush.col
    IN  /\ flush.pc \in {"append", "publish", "header", "rename"}
        /\ ioErrors < MaxIOErrors
        /\ ioErrors' = ioErrors + 1
        /\ disk' = [disk EXCEPT
                       !.col[c] = IF flush.pc = "append" THEN @ ELSE SubSeq(@, 1, Len(@) - 1),
                       !.idx[c].long = @ /\ flush.pc # "header",
                       !.idxtmp = IF flush.pc = "rename" THEN Without(@, {c}) ELSE @]
        /\ held' = "none"
        /\ flush' = NoFlush
        /\ spoiled' = spoiled \cup
                IF flush.pc = "rename" /\ c \in DOMAIN comp.got THEN {"shared"} ELSE {}
        /\ UNCHANGED <<schema, mem, rows, comp, mode, stored, stops>>

(***************************************************************************)
(* compact_partition.  The pre-pass and phase 1 read the live files        *)
(* without the lock; phase 2 swaps under it.                               *)
(***************************************************************************)
Compact(change) == comp' = change @@ comp
OnlyCompactor == UNCHANGED <<schema, mem, rows, flush, mode, stored, stops>>
Reads == UNCHANGED <<disk, held, spoiled, ioErrors>> /\ OnlyCompactor
Entries(c) == disk.idx[c].entries

CompactStart ==
    /\ comp.pc = "idle" /\ Entries(0) # <<>>
    /\ Compact([pc |-> "classify", col |-> 1, ts |-> Entries(0),
                base |-> NextOfIdx(Entries(0))])
    /\ spoiled' = spoiled \cup IF disk.marker.there THEN {"unrecovered"} ELSE {}
    /\ UNCHANGED <<disk, held, ioErrors>> /\ OnlyCompactor

SameRows(m, t) == m.ord = t.ord /\ m.n = t.n

\* One column against the manifest of ts read before: absent, on every block
\* of it, on a suffix of it, or the partition is left alone.
CompactClassify ==
    LET c == comp.col
        cm == Entries(c)
        miss == Len(comp.ts) - Len(cm)
        suffix == miss >= 0 /\ \A k \in DOMAIN cm : SameRows(cm[k], comp.ts[miss + k])
    IN  /\ comp.pc = "classify"
        /\ IF cm # <<>> /\ ~suffix THEN comp' = NoComp
           ELSE Compact([pc |-> IF c = schema.ncols - 1 THEN "number" ELSE "classify",
                         col |-> c + 1,
                         base |-> IF cm = <<>> THEN comp.base
                                  ELSE Max({comp.base} \cup {o + 1 : o \in Ords(cm)}),
                         seen |-> IF cm = <<>> THEN comp.seen ELSE comp.seen \cup {c},
                         pad |-> [comp.pad EXCEPT ![c] =
                                    IF cm = <<>> THEN 0
                                    ELSE RowCount(SubSeq(comp.ts, 1, miss))]])
        /\ Reads

\* The allocator every writer of the partition uses has the last word.
CompactNumber ==
    /\ comp.pc = "number"
    /\ Compact([pc |-> "recut", col |-> 0, base |-> Max({comp.base, NextOrdinal(disk)})])
    /\ Reads

\* The column's cells in file order, the blocks beyond the .col left out.
Decoded(c) ==
    FoldLeft(LAMBDA cells, e : cells \o BlockAt(disk.col[c], e), <<>>, Mapped(disk, c))
Broken(c) == \E i \in DOMAIN Mapped(disk, c) :
                BlockAt(disk.col[c], Mapped(disk, c)[i]) = Unreadable

Chunks(cells) ==
    [k \in 1..((Len(cells) + BlockPoints - 1) \div BlockPoints) |->
        Block((k - 1) * (BlockPoints + 1),
              SubSeq(cells, (k - 1) * BlockPoints + 1, Min({k * BlockPoints, Len(cells)})))]

\* The times of output chunk k are those of the same rows of ts.
RecutIdx(c, cells) ==
    LET blocks == Chunks(cells)
        ts == Chunks(SubSeq(IF c = 0 THEN cells ELSE comp.flat, 1, Len(cells)))
    IN  [entries |->
            [k \in DOMAIN blocks |->
                Entry(blocks[k].at, Len(blocks[k].cells), Times(ts[k].cells),
                      comp.base + k - 1)],
         seq |-> disk.idx[c].seq, stamp |-> disk.idx[c].stamp, long |-> FALSE]

Worthwhile ==
    /\ Declared(disk, 0) >= Threshold
    /\ Declared(disk, 0) > (RowCount(Entries(0)) + BlockPoints - 1) \div BlockPoints

NextColumn == IF comp.col = schema.ncols - 1 THEN "swap" ELSE "recut"

\* compact_column_file of a column without files, or of a ts not worth it.
CompactSkip ==
    LET c == comp.col
    IN  /\ comp.pc = "recut"
        /\ Entries(c) = <<>> \/ disk.col[c] = <<>> \/ (c = 0 /\ ~Worthwhile)
        /\ IF c = 0 THEN comp' = NoComp
           ELSE Compact([pc |-> NextColumn, col |-> c + 1])
        /\ Reads

Eligible(c) == Entries(c) # <<>> /\ disk.col[c] # <<>> /\ (c # 0 \/ Worthwhile)
Overlong(c) == c # 0 /\ comp.pad[c] + Len(Decoded(c)) > Len(comp.flat)

\* An eligible column that yields no pair of temporaries: a block that does
\* not decode, more rows than ts, or a failing write.
CompactFails ==
    LET c == comp.col
    IN  /\ comp.pc = "recut" /\ Eligible(c)
        /\ IF Broken(c) \/ Overlong(c) THEN ioErrors' = ioErrors
           ELSE ioErrors < MaxIOErrors /\ ioErrors' = ioErrors + 1
        /\ disk' = IF Broken(c) THEN disk
                   ELSE [disk EXCEPT !.coltmp = Without(@, {c}), !.idxtmp = Without(@, {c})]
        /\ IF c = 0 THEN comp' = NoComp
           ELSE Compact([pc |-> NextColumn, col |-> c + 1, failed |-> TRUE])
        /\ UNCHANGED <<held, spoiled>> /\ OnlyCompactor

\* The column is decoded, padded in front with the zeros of the rows before
\* its ALTER, and written to <col>.col.tmp and <col>.idx.tmp.
CompactColumn ==
    LET c == comp.col
        cells == [i \in 1..comp.pad[c] |-> 0] \o Decoded(c)
    IN  /\ comp.pc = "recut" /\ Eligible(c)
        /\ ~Broken(c) /\ ~Overlong(c)
        /\ disk' = [disk EXCEPT !.coltmp = With(@, c, Chunks(cells)),
                                !.idxtmp = With(@, c, RecutIdx(c, cells))]
        /\ Compact([pc |-> NextColumn, col |-> c + 1,
                    flat |-> IF c = 0 THEN cells ELSE comp.flat,
                    got |-> With(comp.got, c, Declared(disk, c))])
        /\ spoiled' = spoiled
             \cup (IF flush.pc = "rename" /\ flush.col = c THEN {"shared"} ELSE {})
             \cup (IF c \in comp.seen THEN {} ELSE {"appeared"})
        /\ UNCHANGED <<held, ioErrors>> /\ OnlyCompactor

Produced == DOMAIN comp.got
StaleUnchecked == comp.failed
Stale == comp.failed \/ \E c \in Produced : Declared(disk, c) # comp.got[c]

\* Phase 2 begins: a flush since phase 1, a failed column or a journal that
\* cannot be created gives the swap up.
SwapGivesUp ==
    /\ comp.pc = "swap" /\ held = "none"
    /\ \/ Stale /\ ioErrors' = ioErrors
       \/ ~Stale /\ ioErrors < MaxIOErrors /\ ioErrors' = ioErrors + 1
    /\ disk' = [disk EXCEPT !.coltmp = Without(@, Produced), !.idxtmp = Without(@, Produced)]
    /\ comp' = NoComp
    /\ UNCHANGED <<held, spoiled>> /\ OnlyCompactor

SwapStart ==
    /\ comp.pc = "swap" /\ held = "none" /\ ~Stale
    /\ held' = "swap"
    /\ disk' = [disk EXCEPT !.marker = [there |-> TRUE, cols |-> {}]]
    /\ Compact([pc |-> "journal"])
    /\ spoiled' = spoiled \cup IF comp.pulled THEN {"refilled"} ELSE {}
    /\ UNCHANGED ioErrors /\ OnlyCompactor

\* The column names reach the journal, unless a reader has unlinked it.
SwapJournal ==
    /\ comp.pc = "journal"
    /\ disk' = [disk EXCEPT !.marker.cols = IF disk.marker.there THEN Produced ELSE {}]
    /\ Compact([pc |-> "rename col", col |-> Min(Produced)])
    /\ UNCHANGED <<held, spoiled, ioErrors>> /\ OnlyCompactor

SwapCol ==
    LET c == comp.col
    IN  /\ comp.pc = "rename col"
        /\ disk' = IF c \in DOMAIN disk.coltmp
                   THEN [disk EXCEPT !.col[c] = disk.coltmp[c], !.coltmp = Without(@, {c})]
                   ELSE disk
        /\ Compact([pc |-> "rename idx"])
        /\ UNCHANGED <<held, spoiled, ioErrors>> /\ OnlyCompactor

SwapIdx ==
    LET c == comp.col
        left == {p \in Produced : p > c}
    IN  /\ comp.pc = "rename idx"
        /\ disk' = IF c \in DOMAIN disk.idxtmp
                   THEN [disk EXCEPT !.idx[c] = disk.idxtmp[c], !.idxtmp = Without(@, {c})]
                   ELSE disk
        /\ Compact(IF left = {} THEN [pc |-> "retire"]
                   ELSE [pc |-> "rename col", col |-> Min(left)])
        /\ UNCHANGED <<held, spoiled, ioErrors>> /\ OnlyCompactor

SwapDone ==
    /\ comp.pc = "retire"
    /\ disk' = [disk EXCEPT !.marker = NoMarker]
    /\ held' = "none"
    /\ comp' = NoComp
    /\ UNCHANGED <<spoiled, ioErrors>> /\ OnlyCompactor

(***************************************************************************)
(* Opening, which completes a swap it finds journalled, and the crash.     *)
(* EXPORT and the migration open without compact_mtx.                      *)
(***************************************************************************)
OpenPartition ==
    /\ disk' = Recovered(disk)
    /\ spoiled' = spoiled \cup
            IF ~disk.marker.there THEN {}
            ELSE (IF comp.pc = "journal" THEN {"unjournaled"} ELSE {})
                 \cup (IF held = "flush" THEN {"overtaken"} ELSE {})
    /\ UNCHANGED <<schema, mem, rows, held, flush, comp, mode, stored, ioErrors, stops>>

\* Recovery replays the WAL rows beyond the checkpoint of ts; with a flush on
\* every commit there are none.  Rows ts already names are stored.
Crash ==
    /\ stops < MaxStops
    /\ stops' = stops + 1
    /\ mem' = IF mode.redo THEN SelectSeq(mem, LAMBDA r : r > disk.idx[0].seq) ELSE <<>>
    /\ stored' = stored \cup IF flush.pc = "done" THEN ToSet(mem) ELSE {}
    /\ held' = "none"
    /\ flush' = NoFlush
    /\ comp' = NoComp
    /\ UNCHANGED <<disk, schema, rows, mode, spoiled, ioErrors>>

FlushStep == FlushStart \/ FlushAppend \/ FlushEntries \/ FlushTmp \/ FlushHeader
             \/ FlushRename \/ FlushDone \/ FlushFails
CompactStep == CompactStart \/ CompactClassify \/ CompactNumber \/ CompactSkip
               \/ CompactFails \/ CompactColumn
SwapStep == SwapGivesUp \/ SwapStart \/ SwapJournal \/ SwapCol \/ SwapIdx \/ SwapDone

PartitionNext ==
    \/ Insert \/ AddColumn \/ DeletePartition
    \/ FlushStep
    \/ CompactStep
    \/ SwapStep
    \/ OpenPartition
    \/ Crash

PartitionSpec == PartitionInit /\ [][PartitionNext]_pvars

(***************************************************************************)
(* Properties, of what a query that opens the partition under compact_mtx  *)
(* now would read.                                                         *)
(***************************************************************************)
\* The blocks of ts hold the stored rows, each of them once.
RowsReadOnce ==
    LET ts == ReadTs(Recovered(disk))
        places == UNION {{<<b, i>> : i \in DOMAIN ts[b]} : b \in DOMAIN ts}
    IN  /\ {ts[p[1]][p[2]] : p \in places} = stored
        /\ Cardinality(places) = Cardinality(stored)

\* Every stored row is in exactly one of the blocks that ts enumerates, and
\* nothing else is: whatever flushes, compactions, crashes and failed writes
\* came before, no row is lost in a swap, read twice after a recovery, or
\* brought back after a delete.
EveryRowReadOnce == held = "none" /\ spoiled = {} => RowsReadOnce

\* Column c was added later and has blocks here, but only of flushes that
\* failed or were cut short before ts.
OnlyOrphans(d, c) == Declared(d, c) > 0 /\ \A r \in stored : r <= schema.born[c]

\* Every value a query reads next to a row is that row's own, or zero if the
\* row is older than the column; no healthy block reads as an error.
CellsMatch ==
    held = "none" /\ spoiled = {} =>
        LET d == Recovered(disk)
            ts == ReadTs(d)
        IN  \A c \in Schema \ {0} : ~OnlyOrphans(d, c) =>
                ReadColumn(d, c) = [b \in DOMAIN ts |-> [i \in DOMAIN ts[b] |-> Cell(c, ts[b][i])]]

\* compaction.c: after a crash "tsdb_part_open's recovery then rolls any
\* interrupted swap forward"; part.c: "renaming them in rolls the partition
\* FORWARD to the complete post-compaction state".  So a crash during a swap
\* costs no stored row, whatever the restarted process does next.
SwapSurvivesRestart == held = "none" /\ spoiled \subseteq {"unrecovered"} => RowsReadOnce
=============================================================================
