----------------------------- MODULE TableStore -----------------------------
(***************************************************************************)
(* The write path of one table (src/storage/db.c, wal.c, part.c):          *)
(* batches append rows to the memtable, a commit makes them durable (a     *)
(* redo record in the WAL under TSDB_WAL_ONLY_COMMIT, a flush otherwise),  *)
(* a flush publishes the memtable partition by partition and stamps every  *)
(* partition with the commit sequence it covers, and a reopen replays the  *)
(* redo records no stamp covers.  The process may crash between any two    *)
(* steps and every disk operation may fail.                                *)
(*                                                                         *)
(* Abstractions.  A row is an opaque value; its timestamp matters only     *)
(* through the partition it lands in.  A partition's columns are           *)
(* published as one step: the ts column, published last, is its            *)
(* visibility marker.  flush_gen is kept as the bit that a batch compares  *)
(* (did it move since batch_begin).  Replica batch ids (TSDB_DEDUP) are    *)
(* left out, and so are the delete watermark and DROP TABLE.               *)
(***************************************************************************)
EXTENDS Integers, Sequences, FiniteSets

CONSTANTS
    Row,                 \* rows that clients may write, each at most once
    Part,                \* partitions, numbered in time order
    PartOf,              \* the partition of a row's timestamp
    BlockPoints,         \* schema->block_points: memtable capacity in rows
    FlushFloor,          \* rows from which memory pressure may force a flush
    DeleteOverlapsBatch, \* may DELETE run while a batch is open?
    Sharded,             \* may the replicate hook answer TSDB_SKIP_LOCAL?
    MaxCrashes, MaxFaults, MaxAlters   \* bounds

ASSUME PartAssumption == Part \subseteq Nat /\ IsFiniteSet(Part)
ASSUME RowAssumption == PartOf \in [Row -> Part]
ASSUME CapacityAssumption ==
    /\ BlockPoints \in Nat \ {0}
    /\ FlushFloor \in 1..BlockPoints
ASSUME SwitchAssumption ==
    DeleteOverlapsBatch \in BOOLEAN /\ Sharded \in BOOLEAN
ASSUME BoundAssumption ==
    MaxCrashes \in Nat /\ MaxFaults \in Nat /\ MaxAlters \in Nat

VARIABLES
    wal_only,        \* db->wal_only_commit
    \* on disk
    wal,             \* redo records [seq, rows, ncols], oldest first
    disk,            \* copies of each row published in its partition
    ckpt,            \* max_seq stamp of each partition (0: none on disk)
    ncols,           \* schema width
    \* table in memory
    mem,             \* memtable rows, in append order
    mem_logged,      \* rows of mem already covered by a redo record
    commit_seq,
    wal_incomplete,  \* log frozen: replay left acked records unread
    \* the open batch, which holds batch_mu
    bpc,             \* "none", "open", or "failed" (an operation returned an error)
    base_nrows,      \* memtable length at batch_begin
    straddled,       \* flush_gen moved since batch_begin
    brows,           \* rows the batch appended
    \* the holder of compact_mtx
    op,              \* who holds it ("none", "down": process not running)
    pc,              \* where it is
    todo,            \* partitions still to publish or remove
    nflush,          \* memtable rows the running flush captured
    rc,              \* what the last flush returned
    covered,         \* partitions a DELETE covers
    wal_tail,        \* redo record written but not yet fsynced
    \* recovery
    pos,             \* next record to replay
    last_complete,   \* seq of the last record applied in full
    cpmap,           \* checkpoints read when the table was opened
    \* history
    used, acked, deleted, remote, mishaps,
    crashes, faults

durable == <<wal, disk, ckpt, ncols>>
table   == <<mem, mem_logged, commit_seq, wal_incomplete>>
batch   == <<bpc, base_nrows, straddled, brows>>
holder  == <<op, pc, todo, nflush, rc, covered, wal_tail>>
replay  == <<pos, last_complete, cpmap>>
history == <<used, acked, deleted, remote, mishaps>>
bounds  == <<crashes, faults>>
vars    == <<wal_only, durable, table, batch, holder, replay, history, bounds>>

Record == [seq : Nat, rows : Seq(Row), ncols : Nat]

Op == {"none", "down", "row", "bulk", "commit", "log", "maint", "alter",
       "delete", "truncate", "close", "replay"}

\* What may have gone wrong so far.  "torn": a flush was cut short after some
\* but not all of its partitions; "orphaned": a partition was removed while the
\* log held a record only that partition's checkpoint settled; "abandoned": a
\* replay gave up on a record and the table was opened as if nothing was
\* missing.
Mishap == {"torn", "orphaned", "abandoned"}

\* The rows of a sequence, and the partitions they land in.
RowsIn(s) == {s[i] : i \in 1..Len(s)}
PartsOf(s) == {PartOf[s[i]] : i \in 1..Len(s)}
Occurrences(s, r) == Cardinality({i \in 1..Len(s) : s[i] = r})
Max2(a, b) == IF a >= b THEN a ELSE b
Mishaps(cond, m) == IF cond THEN mishaps \cup {m} ELSE mishaps

Init ==
    /\ wal_only \in BOOLEAN
    /\ wal = <<>> /\ disk = [r \in Row |-> 0] /\ ckpt = [p \in Part |-> 0]
    /\ ncols = 1
    /\ mem = <<>> /\ mem_logged = 0 /\ commit_seq = 0
    /\ wal_incomplete = FALSE
    /\ bpc = "none" /\ base_nrows = 0 /\ straddled = FALSE
    /\ brows = {}
    /\ op = "none" /\ pc = "idle" /\ todo = {} /\ nflush = 0
    /\ rc = "ok" /\ covered = {} /\ wal_tail = <<>>
    /\ pos = 1 /\ last_complete = 0 /\ cpmap = [p \in Part |-> 0]
    /\ used = {} /\ acked = {} /\ deleted = {} /\ remote = {}
    /\ mishaps = {}
    /\ crashes = 0 /\ faults = 0

-----------------------------------------------------------------------------
(* Batches.  batch_mu is held from batch_begin to the end of the batch by  *)
(* every server path; maintenance, ALTER and TRUNCATE take it too, DELETE  *)
(* does not.                                                               *)

Fault == faults < MaxFaults /\ faults' = faults + 1

BatchMuFree ==
    /\ bpc = "none"
    /\ op = "none" \/ (op = "delete" /\ DeleteOverlapsBatch)

BatchBegin ==
    /\ BatchMuFree
    /\ bpc' = "open" /\ base_nrows' = Len(mem) /\ straddled' = FALSE
    /\ brows' = {}
    /\ UNCHANGED <<wal_only, durable, table, holder, replay, history, bounds>>

\* One row (row_begin .. row_end) or one row of a bulk append: takes only the
\* memtable's own lock, so it interleaves with a DELETE that is flushing.
RowAppend(r) ==
    /\ bpc = "open" /\ op \in {"none", "delete"}
    /\ Len(mem) < BlockPoints
    /\ r \notin used
    /\ mem' = Append(mem, r)
    /\ brows' = brows \cup {r}
    /\ used' = used \cup {r}
    /\ UNCHANGED <<wal_only, durable, mem_logged, commit_seq, wal_incomplete,
                   bpc, base_nrows, straddled, holder, replay,
                   acked, deleted, remote, mishaps, bounds>>

Lock(who, where) == op' = who /\ pc' = where

\* Releasing compact_mtx: the locals of the operation are gone.
Unlock ==
    /\ op' = "none" /\ pc' = "idle" /\ todo' = {} /\ nflush' = 0
    /\ rc' = "ok" /\ covered' = {} /\ wal_tail' = <<>>

\* batch_commit and batch_discard free the batch.
BatchFreed ==
    /\ bpc' = "none" /\ base_nrows' = 0 /\ straddled' = FALSE /\ brows' = {}

\* maybe_flush_b: the memtable is full, or over the memory budget.
RowFlush ==
    /\ bpc = "open" /\ op = "none"
    /\ Len(mem) >= FlushFloor
    /\ Lock("row", "flush")
    /\ UNCHANGED <<wal_only, durable, table, batch, todo, nflush, rc, covered,
                   wal_tail, replay, history, bounds>>

\* append_bulk: a bulk batch that would not fit beside the rows already
\* buffered flushes those first, before its own first row.
BulkFlush ==
    /\ bpc = "open" /\ op = "none"
    /\ brows = {} /\ mem # <<>>
    /\ Lock("bulk", "flush")
    /\ UNCHANGED <<wal_only, durable, table, batch, todo, nflush, rc, covered,
                   wal_tail, replay, history, bounds>>

BatchAck == BatchFreed /\ acked' = acked \cup brows
BatchFails ==
    bpc' = "failed" /\ UNCHANGED <<base_nrows, straddled, brows, acked>>

\* redo_serialize: the rows no record covers yet.
RedoRecord ==
    [seq   |-> commit_seq + 1,
     rows  |-> SubSeq(mem, mem_logged + 1, Len(mem)),
     ncols |-> ncols]

\* batch_commit under TSDB_WAL_ONLY_COMMIT: redo_log_locked writes the rows
\* no record covers yet; a frozen log refuses, nothing new is a plain OK.
CommitLog ==
    /\ bpc = "open" /\ op = "none" /\ wal_only
    /\ \/ wal_incomplete /\ BatchFails /\ UNCHANGED <<op, pc, wal_tail>>
       \/ /\ ~wal_incomplete /\ Len(mem) <= mem_logged
          /\ BatchAck /\ UNCHANGED <<op, pc, wal_tail>>
       \/ /\ ~wal_incomplete /\ Len(mem) > mem_logged
          /\ wal_tail' = <<RedoRecord>>
          /\ Lock("log", "sync")
          /\ UNCHANGED <<batch, acked>>
    /\ UNCHANGED <<wal_only, durable, table, todo, nflush, rc, covered, replay,
                   used, deleted, remote, mishaps, bounds>>

\* append_durable returned OK: the record is on disk, the batch is acked.
LogSynced ==
    /\ op = "log"
    /\ wal' = wal \o wal_tail
    /\ commit_seq' = commit_seq + 1
    /\ mem_logged' = Len(mem)
    /\ Unlock
    /\ BatchAck
    /\ UNCHANGED <<wal_only, disk, ckpt, ncols, mem, wal_incomplete, replay,
                   used, deleted, remote, mishaps, bounds>>

\* The append or its fsync failed: the record is cut off again, the rows stay
\* in the memtable un-acked.
LogFailed ==
    /\ op = "log"
    /\ Fault
    /\ Unlock
    /\ BatchFails
    /\ UNCHANGED <<wal_only, durable, table, replay, used, deleted, remote,
                   mishaps, crashes>>

\* batch_commit in the default mode: flush, then sync the WAL.
CommitFlush ==
    /\ bpc = "open" /\ op = "none" /\ ~wal_only
    /\ Lock("commit", "flush")
    /\ UNCHANGED <<wal_only, durable, table, batch, todo, nflush, rc, covered,
                   wal_tail, replay, history, bounds>>

CommitFlushed ==
    /\ op = "commit" /\ pc = "ret"
    /\ Unlock
    /\ \/ rc = "ok" /\ BatchAck /\ UNCHANGED faults
       \/ rc = "ok" /\ BatchFails /\ Fault
       \/ rc = "err" /\ BatchFails /\ UNCHANGED faults
    /\ UNCHANGED <<wal_only, durable, table, replay, used, deleted, remote,
                   mishaps, crashes>>

\* A size flush returned to the writer: it goes on appending, or the append
\* fails.  A bulk batch re-takes its anchors.
BatchFlushed ==
    /\ op \in {"row", "bulk"} /\ pc = "ret"
    /\ Unlock
    /\ bpc' = IF rc = "ok" THEN bpc ELSE "failed"
    /\ IF rc = "ok" /\ op = "bulk"
       THEN base_nrows' = 0 /\ straddled' = FALSE
       ELSE UNCHANGED <<base_nrows, straddled>>
    /\ UNCHANGED <<wal_only, durable, table, brows, replay, history, bounds>>

\* Mutant: a discard rolls back the rows of earlier batches too.
DiscardToNothing == <<>>

\* batch_discard: roll the memtable back to the batch's own start, or empty it
\* when a flush has drained everything older.
DiscardTo ==
    IF straddled THEN <<>>
    ELSE IF base_nrows > Len(mem) THEN mem
    ELSE SubSeq(mem, 1, base_nrows)

BatchDiscard ==
    /\ bpc \in {"open", "failed"} /\ op = "none"
    /\ mem' = DiscardTo
    /\ BatchFreed
    /\ UNCHANGED <<wal_only, durable, mem_logged, commit_seq, wal_incomplete,
                   holder, replay, history, bounds>>

\* Callers that do not discard leave the failed batch's rows in the memtable.
BatchRetain ==
    /\ bpc = "failed" /\ op \in {"none", "delete"}
    /\ BatchFreed
    /\ UNCHANGED <<wal_only, durable, table, holder, replay, history, bounds>>

-----------------------------------------------------------------------------
(* flush_and_clear_locked, run by whichever operation holds compact_mtx.   *)

\* A batch received from a replica (local_only) skips the hook too; that is one
\* of the outcomes of a batch's flush.
SkipReplicate == op \in {"alter", "delete", "close", "replay"}

FlushReturns(r) == pc' = "ret" /\ rc' = r

\* wal_truncate_if_safe: its callers ignore a truncate that fails.
WalTruncateIfSafe == IF op = "replay" \/ wal_incomplete THEN wal ELSE <<>>
TruncateLog ==
    \/ wal' = WalTruncateIfSafe /\ UNCHANGED faults
    \/ wal' = wal /\ Fault

\* Nothing to flush, or the log is frozen.
FlushEmptyOrFrozen ==
    /\ pc = "flush"
    /\ \/ mem = <<>> /\ FlushReturns("ok")
       \/ mem # <<>> /\ wal_incomplete /\ FlushReturns("err")
    /\ UNCHANGED <<wal_only, durable, table, batch, op, todo, nflush, covered,
                   wal_tail, replay, history, bounds>>

\* Mutant: a flush forgets to reset mem_logged.
MemtableDrainedKeepsLogged ==
    /\ mem' = <<>> /\ mem_logged' = mem_logged
    /\ straddled' = (bpc # "none")

\* memtable_clear, and a batch that is open sees flush_gen move.
MemtableDrained ==
    /\ mem' = <<>> /\ mem_logged' = 0
    /\ straddled' = (bpc # "none")

\* The replicate hook answered TSDB_SKIP_LOCAL: remote owners hold the rows,
\* the local copy is dropped.
FlushSkipLocal ==
    /\ pc = "flush" /\ mem # <<>> /\ ~wal_incomplete
    /\ Sharded /\ ~SkipReplicate
    /\ MemtableDrained
    /\ TruncateLog
    /\ remote' = remote \cup RowsIn(mem)
    /\ FlushReturns("ok")
    /\ UNCHANGED <<wal_only, disk, ckpt, ncols, commit_seq, wal_incomplete, bpc,
                   base_nrows, brows, op, todo, nflush, covered,
                   wal_tail, replay, used, acked, deleted, mishaps, crashes>>

\* part_flush_ex2 captures the row count and the partitions they land in.
FlushStart ==
    /\ pc = "flush" /\ mem # <<>> /\ ~wal_incomplete
    /\ nflush' = Len(mem)
    /\ todo' = PartsOf(mem)
    /\ pc' = "publish"
    /\ UNCHANGED <<wal_only, durable, table, batch, op, rc, covered, wal_tail,
                   replay, history, bounds>>

\* Partitions are published in order of first appearance.
NextPart(p) ==
    \E i \in 1..nflush :
        /\ p = PartOf[mem[i]] /\ p \in todo
        /\ \A j \in 1..(i - 1) : PartOf[mem[j]] \notin todo

\* Mutant: a flush does not advance the checkpoint.
StampUnmoved(p) == ckpt[p]

\* The stamp is the commit_seq of the flush and never moves back.
Stamp(p) == Max2(ckpt[p], commit_seq)

FlushPublish(p) ==
    /\ pc = "publish" /\ NextPart(p)
    /\ disk' = [r \in Row |->
                  IF PartOf[r] = p
                  THEN disk[r] + Occurrences(SubSeq(mem, 1, nflush), r)
                  ELSE disk[r]]
    /\ ckpt' = [ckpt EXCEPT ![p] = Stamp(p)]
    /\ todo' = todo \ {p}
    /\ UNCHANGED <<wal_only, wal, ncols, table, batch, op, pc, nflush, rc,
                   covered, wal_tail, replay, history, bounds>>

PartlyPublished ==
    pc = "publish" /\ todo \notin {{}, PartsOf(SubSeq(mem, 1, nflush))}

\* A disk error on the next partition: the ones before it stay published, the
\* memtable and the log are kept.
FlushFail ==
    /\ pc = "publish" /\ todo # {}
    /\ Fault
    /\ FlushReturns("err")
    /\ todo' = {}
    /\ mishaps' = Mishaps(PartlyPublished, "torn")
    /\ UNCHANGED <<wal_only, durable, table, batch, op, nflush, covered,
                   wal_tail, replay, used, acked, deleted, remote, crashes>>

\* Every partition is published: drain the memtable, then shorten the log.
FlushFinish ==
    /\ pc = "publish" /\ todo = {}
    /\ MemtableDrained
    /\ TruncateLog
    /\ FlushReturns("ok")
    /\ UNCHANGED <<wal_only, disk, ckpt, ncols, commit_seq, wal_incomplete, bpc,
                   base_nrows, brows, op, todo, nflush, covered,
                   wal_tail, replay, history, crashes>>

-----------------------------------------------------------------------------
(* Maintenance flushes, ALTER, DELETE, TRUNCATE.                           *)

\* tsdb_db_flush_all, tsdb_table_flush and the idle-flush thread.
MaintFlush ==
    /\ bpc = "none" /\ op = "none"
    /\ Lock("maint", "flush")
    /\ UNCHANGED <<wal_only, durable, table, batch, todo, nflush, rc, covered,
                   wal_tail, replay, history, bounds>>

AlterAddColumn ==
    /\ bpc = "none" /\ op = "none" /\ ncols <= MaxAlters
    /\ Lock("alter", "flush")
    /\ UNCHANGED <<wal_only, durable, table, batch, todo, nflush, rc, covered,
                   wal_tail, replay, history, bounds>>

\* Maintenance is over; ALTER widens the schema only after its flush, and the
\* widening itself may fail.
FlushedAndDone ==
    /\ op \in {"maint", "alter"} /\ pc = "ret"
    /\ Unlock
    /\ \/ /\ ncols' = IF op = "alter" /\ rc = "ok" THEN ncols + 1 ELSE ncols
          /\ UNCHANGED faults
       \/ op = "alter" /\ rc = "ok" /\ ncols' = ncols /\ Fault
    /\ UNCHANGED <<wal_only, wal, disk, ckpt, table, batch, replay, history,
                   crashes>>

\* The partitions wholly below or wholly above a cutoff.
CoveredBy(c) == {{p \in Part : p <= c}, {p \in Part : p >= c}}

\* tsdb_delete_range: flush first iff the memtable holds a covered row.
DeleteRange ==
    /\ op = "none" /\ (bpc = "none" \/ DeleteOverlapsBatch)
    /\ \E c \in Part : \E cov \in CoveredBy(c) :
        /\ covered' = cov
        /\ IF PartsOf(mem) \cap cov # {}
           THEN Lock("delete", "flush") /\ UNCHANGED rc
           ELSE Lock("delete", "ret") /\ rc' = "ok"
    /\ UNCHANGED <<wal_only, durable, table, batch, todo, nflush, wal_tail,
                   replay, history, bounds>>

DeleteFlushed ==
    /\ op = "delete" /\ pc = "ret"
    /\ pc' = "remove" /\ todo' = covered
    /\ UNCHANGED <<wal_only, durable, table, batch, op, nflush, rc, covered,
                   wal_tail, replay, history, bounds>>

\* tsdb_wal_truncate, whose result both kinds of truncation ignore.
WalTruncate ==
    \/ wal' = <<>> /\ UNCHANGED faults
    \/ wal' = wal /\ Fault

\* TRUNCATE TABLE: memtable, then log, then every partition.
TruncateTable ==
    /\ bpc = "none" /\ op = "none"
    /\ Lock("truncate", "remove")
    /\ todo' = Part
    /\ mem' = <<>> /\ mem_logged' = 0 /\ wal_incomplete' = FALSE
    /\ WalTruncate
    /\ deleted' = deleted \cup used
    /\ UNCHANGED <<wal_only, disk, ckpt, ncols, commit_seq, batch, nflush, rc,
                   covered, wal_tail, replay, used, acked, remote, mishaps,
                   crashes>>

\* The log still holds a record that only partition p's checkpoint settles.
Orphans(p) ==
    \E i \in 1..Len(wal) :
        p \in PartsOf(wal[i].rows) /\ wal[i].seq <= ckpt[p]

\* rm_rf of one partition directory takes its checkpoint with it.
RemovePart(p) ==
    /\ pc = "remove" /\ p \in todo
    /\ disk' = [r \in Row |-> IF PartOf[r] = p THEN 0 ELSE disk[r]]
    /\ ckpt' = [ckpt EXCEPT ![p] = 0]
    /\ deleted' = deleted \cup {r \in Row : PartOf[r] = p /\ disk[r] > 0}
    /\ mishaps' = Mishaps(Orphans(p), "orphaned")
    /\ todo' = todo \ {p}
    /\ UNCHANGED <<wal_only, wal, ncols, table, batch, op, pc, nflush, rc,
                   covered, wal_tail, replay, used, acked, remote, bounds>>

RemoveDone ==
    /\ pc = "remove" /\ todo = {}
    /\ Unlock
    /\ UNCHANGED <<wal_only, durable, table, batch, replay, history, bounds>>

\* Mutant: anti-entropy does not ask whether the log is frozen.
LooksEmptyUnasked == mem = <<>> /\ \A r \in Row : disk[r] = 0

\* tsdb_truncate_table_if_empty (anti-entropy): refuses a frozen table.
LooksEmpty ==
    mem = <<>> /\ (\A r \in Row : disk[r] = 0) /\ ~wal_incomplete

TruncateIfEmpty ==
    /\ bpc = "none" /\ op = "none" /\ LooksEmpty
    /\ WalTruncate /\ mem_logged' = 0
    /\ ckpt' = [p \in Part |-> 0]
    /\ UNCHANGED <<wal_only, disk, ncols, mem, commit_seq, wal_incomplete,
                   batch, holder, replay, history, crashes>>

-----------------------------------------------------------------------------
(* Close, crash, reopen (tsdb_close, redo_recover_table).                  *)

\* What the process forgets.
MemoryLost ==
    /\ op' = "down" /\ pc' = "idle" /\ todo' = {} /\ nflush' = 0
    /\ rc' = "ok" /\ covered' = {} /\ wal_tail' = <<>>
    /\ mem' = <<>> /\ mem_logged' = 0 /\ commit_seq' = 0
    /\ wal_incomplete' = FALSE
    /\ BatchFreed
    /\ pos' = 1 /\ last_complete' = 0 /\ cpmap' = [p \in Part |-> 0]

\* A record written but not fsynced may or may not be there afterwards; a torn
\* one is cut off by tsdb_wal_repair before the log is used again.
Crash ==
    /\ op # "down" /\ crashes < MaxCrashes
    /\ crashes' = crashes + 1
    /\ wal' \in {wal, wal \o wal_tail}
    /\ mishaps' = Mishaps(PartlyPublished, "torn")
    /\ MemoryLost
    /\ UNCHANGED <<wal_only, disk, ckpt, ncols, used, acked, deleted, remote,
                   faults>>

\* tsdb_close flushes and ignores the flush's result.
Close ==
    /\ bpc = "none" /\ op = "none"
    /\ Lock("close", "flush")
    /\ UNCHANGED <<wal_only, durable, table, batch, todo, nflush, rc, covered,
                   wal_tail, replay, history, bounds>>

Closed ==
    /\ op = "close" /\ pc = "ret"
    /\ MemoryLost
    /\ UNCHANGED <<wal_only, durable, history, bounds>>

Open ==
    /\ op = "down"
    /\ Lock("replay", "scan")
    /\ pos' = 1 /\ cpmap' = ckpt
    /\ last_complete' \in {ckpt[p] : p \in Part}
    /\ \A p \in Part : ckpt[p] <= last_complete'
    /\ UNCHANGED <<wal_only, durable, table, batch, todo, nflush, rc, covered,
                   wal_tail, history, bounds>>

Walkable(rec) == rec.ncols = ncols

\* Mutant: a record is settled as soon as one of its partitions is.
CoveredByAny(rec) ==
    \E i \in 1..Len(rec.rows) : rec.seq <= cpmap[PartOf[rec.rows[i]]]

\* redo_rec_cutoff (seq <= MIN over the rows' partitions) and, for a record
\* laid out for another schema, redo_rec_cutoff_fallback (row 0 only).
Covered(rec) ==
    IF Walkable(rec)
    THEN \A i \in 1..Len(rec.rows) : rec.seq <= cpmap[PartOf[rec.rows[i]]]
    ELSE rec.seq <= cpmap[PartOf[rec.rows[1]]]

Scanning == op = "replay" /\ pc = "scan"

ReplaySkip ==
    /\ Scanning /\ pos <= Len(wal) /\ Covered(wal[pos])
    /\ pos' = pos + 1
    /\ UNCHANGED <<wal_only, durable, table, batch, holder, last_complete,
                   cpmap, history, bounds>>

\* Mutant: a record that fills the memtable exactly is taken not to fit.
FitsWithRoomToSpare(rec) == Len(mem) + Len(rec.rows) < BlockPoints

\* Does the memtable have room for the record's rows?
Fits(rec) == mem = <<>> \/ Len(mem) + Len(rec.rows) <= BlockPoints

MustApply == pos <= Len(wal) /\ ~Covered(wal[pos]) /\ Walkable(wal[pos])

ReplayApply ==
    /\ Scanning /\ MustApply /\ Fits(wal[pos])
    /\ mem' = mem \o wal[pos].rows
    /\ last_complete' = wal[pos].seq
    /\ pos' = pos + 1
    /\ UNCHANGED <<wal_only, durable, mem_logged, commit_seq, wal_incomplete,
                   batch, holder, cpmap, history, bounds>>

\* The record does not fit: flush what was applied so far, stamped with the
\* last record applied in full.
ReplayFlush ==
    /\ Scanning /\ MustApply /\ ~Fits(wal[pos])
    /\ commit_seq' = Max2(last_complete, commit_seq)
    /\ pc' = "flush"
    /\ UNCHANGED <<wal_only, durable, mem, mem_logged, wal_incomplete, batch,
                   op, todo, nflush, rc, covered, wal_tail, replay, history,
                   bounds>>

ReplayFlushed ==
    /\ op = "replay" /\ pc = "ret" /\ rc = "ok"
    /\ pc' = "scan"
    /\ UNCHANGED <<wal_only, durable, table, batch, op, todo, nflush, rc,
                   covered, wal_tail, replay, history, bounds>>

\* Mutant: recovery looks at the log only.
SeqsInLog == {wal[i].seq : i \in 1..Len(wal)} \cup {commit_seq}

\* commit_seq continues above every sequence number that ever existed.
SeqsSeen == {wal[i].seq : i \in 1..Len(wal)} \cup {cpmap[p] : p \in Part}
                \cup {commit_seq}
IsHighestSeq(m) == m \in SeqsSeen /\ \A s \in SeqsSeen : s <= m

RecoveryEnds ==
    /\ Unlock
    /\ \E m \in SeqsSeen : IsHighestSeq(m) /\ commit_seq' = m
    /\ mem_logged' = Len(mem)
    /\ pos' = 1 /\ last_complete' = 0 /\ cpmap' = [p \in Part |-> 0]
    /\ UNCHANGED <<wal_only, durable, mem, batch, used, acked, deleted, remote,
                   bounds>>

ReplayDone ==
    /\ Scanning /\ pos > Len(wal)
    /\ wal_incomplete' = FALSE /\ mishaps' = mishaps
    /\ RecoveryEnds

\* redo_tail_scan: is a record after the aborting one covered by no checkpoint?
UnreadUncovered ==
    \E i \in 1..Len(wal) : wal[i].seq > wal[pos].seq /\ ~Covered(wal[i])

\* The replay aborts on a record of another width no checkpoint covers, or on
\* a failed flush.  The log is frozen iff acked records stay unread.
ReplayAbort ==
    /\ \/ Scanning /\ pos <= Len(wal)
          /\ ~Covered(wal[pos]) /\ ~Walkable(wal[pos])
       \/ op = "replay" /\ pc = "ret" /\ rc = "err"
    /\ wal_incomplete' = UnreadUncovered
    /\ mishaps' = Mishaps(~UnreadUncovered, "abandoned")
    /\ RecoveryEnds

-----------------------------------------------------------------------------
Next ==
    \/ BatchBegin \/ RowFlush \/ BulkFlush \/ CommitLog \/ LogSynced
    \/ LogFailed \/ CommitFlush \/ CommitFlushed \/ BatchFlushed
    \/ BatchDiscard \/ BatchRetain
    \/ \E r \in Row : RowAppend(r)
    \/ FlushEmptyOrFrozen \/ FlushSkipLocal \/ FlushStart
    \/ \E p \in Part : FlushPublish(p)
    \/ FlushFail \/ FlushFinish
    \/ MaintFlush \/ AlterAddColumn \/ FlushedAndDone
    \/ DeleteRange \/ DeleteFlushed \/ TruncateTable
    \/ \E p \in Part : RemovePart(p)
    \/ RemoveDone \/ TruncateIfEmpty
    \/ Crash \/ Close \/ Closed \/ Open
    \/ ReplaySkip \/ ReplayApply \/ ReplayFlush \/ ReplayFlushed
    \/ ReplayDone \/ ReplayAbort

Spec == Init /\ [][Next]_vars

\* The steps of the thread that holds compact_mtx; none of them waits for
\* anything but the disk, which answers or fails.
HolderStep ==
    \/ LogSynced \/ CommitFlushed \/ BatchFlushed
    \/ FlushEmptyOrFrozen \/ FlushSkipLocal \/ FlushStart
    \/ \E p \in Part : FlushPublish(p) \/ RemovePart(p)
    \/ FlushFinish \/ FlushedAndDone \/ DeleteFlushed \/ RemoveDone \/ Closed
    \/ ReplaySkip \/ ReplayApply \/ ReplayFlush \/ ReplayFlushed
    \/ ReplayDone \/ ReplayAbort

LiveSpec == Spec /\ WF_vars(HolderStep)

-----------------------------------------------------------------------------
(* Properties *)

FlagType ==
    wal_only \in BOOLEAN /\ wal_incomplete \in BOOLEAN /\ straddled \in BOOLEAN
DurableType ==
    /\ wal \in Seq(Record) /\ disk \in [Row -> Nat] /\ ckpt \in [Part -> Nat]
    /\ ncols \in Nat
TableType ==
    /\ mem \in Seq(Row) /\ mem_logged \in 0..Len(mem) /\ commit_seq \in Nat
BatchType ==
    /\ bpc \in {"none", "open", "failed"} /\ base_nrows \in Nat
    /\ brows \subseteq Row
HolderType ==
    /\ op \in Op /\ rc \in {"ok", "err"}
    /\ pc \in {"idle", "flush", "publish", "ret", "remove", "sync", "scan"}
    /\ todo \subseteq Part /\ covered \subseteq Part /\ nflush \in Nat
    /\ wal_tail \in Seq(Record)
ReplayType ==
    pos \in Nat \ {0} /\ last_complete \in Nat /\ cpmap \in [Part -> Nat]
HistoryType ==
    /\ used \subseteq Row /\ acked \subseteq Row /\ deleted \subseteq Row
    /\ remote \subseteq Row /\ mishaps \subseteq Mishap
    /\ crashes \in Nat /\ faults \in Nat

\* Types, and the memtable never claims more logged rows than it holds.
TypeOK ==
    /\ FlagType /\ DurableType /\ TableType /\ BatchType /\ HolderType
    /\ ReplayType /\ HistoryType

Owed == acked \ (deleted \cup remote)

\* A row whose batch was acked, and that nothing deleted, is on disk: in its
\* partition, or in a redo record that recovery will not skip.
NoAckedRowLost ==
    "abandoned" \notin mishaps =>
        \A r \in Owed :
            \/ disk[r] > 0
            \/ \E i \in 1..Len(wal) :
                  r \in RowsIn(wal[i].rows) /\ wal[i].seq > ckpt[PartOf[r]]

\* While the table is open and its log not frozen, readers (partitions plus
\* memtable) see every acked row.
AckedRowsReadable ==
    op \notin {"down", "replay"} /\ ~wal_incomplete
        /\ "abandoned" \notin mishaps =>
        \A r \in Owed : disk[r] > 0 \/ r \in RowsIn(mem)

\* What the comment in redo_recover_table says of a replay that aborts and
\* opens the table normally: every record it did not read is durable.
AbortIsBenign ==
    op = "none" /\ ~wal_incomplete =>
        \A r \in Owed : disk[r] > 0 \/ r \in RowsIn(mem)

\* Between operations no row is stored twice, unless a flush was cut short
\* after publishing some of its partitions, or a partition was removed while
\* the log still held records only its checkpoint settled.
StoredOnce ==
    op \in {"none", "down"} /\ mishaps \cap {"torn", "orphaned"} = {} =>
        \A r \in Row : disk[r] + Occurrences(mem, r) <= 1

\* What the comment in redo_replay_apply says of replaying a record whose rows
\* are already in some of their partitions: the copy is never double-counted.
NeverDoubleCounted ==
    op \in {"none", "down"} =>
        \A r \in Row : disk[r] + Occurrences(mem, r) <= 1

\* Sequence numbers in the log only grow, and the next commit's number is above
\* every record and every checkpoint.
SeqNeverReused ==
    /\ \A i, j \in 1..Len(wal) : i < j => wal[i].seq < wal[j].seq
    /\ op \notin {"down", "replay"} =>
          /\ \A i \in 1..Len(wal) : wal[i].seq <= commit_seq
          /\ \A p \in Part : ckpt[p] <= commit_seq

\* A frozen table keeps its log and advances no checkpoint until an operator
\* truncates it.
FrozenKeepsLog ==
    [][wal_incomplete /\ op' # "truncate" =>
         wal' = wal /\ \A p \in Part : ckpt'[p] \in {0, ckpt[p]}]_vars

\* Every operation that takes compact_mtx ends and releases it: a flush, a
\* commit, a removal, and a replay, which may have to flush in the middle of
\* the log.
LockReleased == op \notin {"none", "down"} ~> op \in {"none", "down"}
=============================================================================
