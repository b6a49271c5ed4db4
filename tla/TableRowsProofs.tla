-------------------------- MODULE TableRowsProofs --------------------------
(***************************************************************************)
(* What becomes of a row in TableStore, for every set of rows and          *)
(* partitions and any number of crashes and disk errors.                   *)
(*                                                                         *)
(* An acked row is never lost, as long as DELETE does not run inside a     *)
(* batch and no replay was abandoned.  No row is stored twice, unless a    *)
(* flush was cut short half way or a partition was removed while the log   *)
(* held records that only its checkpoint settled.                          *)
(***************************************************************************)
EXTENDS TableStoreProofs

-----------------------------------------------------------------------------
(* What an open batch and a running flush hold, as long as DELETE does not *)
(* run inside a batch.                                                     *)

OnDisk(r) == disk[r] > 0

\* DELETE excludes batches, so a flush captures the whole memtable, and the rows
\* whose partition it published are on disk.
DeleteAlone == op = "delete" => bpc = "none"
PublishInv ==
    /\ pc = "publish" =>
          /\ nflush = Len(mem) /\ mem # <<>>
          /\ \A i \in 1..Len(mem) : PartOf[mem[i]] \in todo \/ OnDisk(mem[i])
    /\ pc = "ret" /\ rc = "err" => mem # <<>>

Gone(r) == r \in deleted \cup remote

\* What an open batch appended is not acked yet, is all a discard would cut
\* off, and is in the unlogged part of the memtable unless it was flushed.
AckInv ==
    acked \subseteq used /\ brows \subseteq used /\ brows \cap acked = {}
CutInv ==
    /\ bpc # "none" =>
          \A i \in 1..Len(mem) : straddled \/ i > base_nrows => mem[i] \in brows
    /\ op = "bulk" => brows = {}
    /\ wal_incomplete \/ bpc = "none" => ~straddled
AppendedInv ==
    bpc # "none" =>
        \A r \in brows :
            \/ OnDisk(r) \/ Gone(r)
            \/ \E i \in 1..Len(mem) : i > mem_logged /\ mem[i] = r

BatchInv == AckInv /\ CutInv /\ AppendedInv

-----------------------------------------------------------------------------
(* Batches and flushes.                                                    *)

\* The invariants about DELETE, the running flush and the open batch hold of a
\* fresh table.
LEMMA BatchInit == Init => DeleteAlone /\ PublishInv /\ BatchInv
  BY Zenon DEF Init, DeleteAlone, PublishInv, BatchInv, AckInv, CutInv,
      AppendedInv

\* A publish keeps what is on disk and adds every captured row of partition p.
LEMMA Published ==
    ASSUME TypeInv, PublishInv, NEW p \in Part, FlushPublish(p)
    PROVE  /\ \A r \in Row : disk[r] > 0 => disk'[r] > 0
           /\ \A i \in 1..Len(mem) : PartOf[mem[i]] = p => disk'[mem[i]] > 0
<1>1. SubSeq(mem, 1, nflush) = mem
  BY Zenon, SubSeqFull DEF FlushPublish, PublishInv, TypeInv, TypeOK, TableType
<1>2. \A r \in Row : /\ Occurrences(mem, r) \in Nat
                     /\ r \in RowsIn(mem) => Occurrences(mem, r) > 0
  BY Zenon, OccurrencesType DEF TypeInv, TypeOK, TableType
<1>3. \A r \in Row : disk'[r] = IF PartOf[r] = p THEN disk[r] + Occurrences(mem, r)
                                ELSE disk[r]
  BY Zenon, <1>1 DEF FlushPublish
<1>4. \A i \in 1..Len(mem) : mem[i] \in Row /\ mem[i] \in RowsIn(mem)
  BY Zenon, ElementOfSeq DEF RowsIn, TypeInv, TypeOK, TableType
<1> QED
  BY <1>2, <1>3, <1>4 DEF TypeInv, TypeOK, DurableType

\* The flush invariant is kept by the steps of a row batch.
LEMMA PublishKeepsBatch ==
    ASSUME ~DeleteOverlapsBatch, TypeInv, DeleteAlone, PublishInv, BatchSteps
    PROVE  (DeleteAlone /\ PublishInv)'
<1> USE DEF durable, table, batch, holder, replay, history, bounds
<1>1. CASE BatchBegin
  BY Zenon, <1>1 DEF BatchBegin, BatchMuFree, TypeInv, TypeOK, TableType,
      HolderType, Control, InBatch, NoBatch, Flushers, DeleteAlone, PublishInv,
      OnDisk
<1>2. ASSUME NEW r \in Row, RowAppend(r) PROVE (DeleteAlone /\ PublishInv)'
  BY Zenon, <1>2 DEF RowAppend, TypeInv, TypeOK, TableType, HolderType, Control,
      InBatch, NoBatch, Flushers, DeleteAlone, PublishInv, OnDisk
<1>3. CASE RowFlush
  BY Zenon, <1>3 DEF RowFlush, Lock, TypeInv, TypeOK, TableType, HolderType,
      Control, InBatch, NoBatch, Flushers, DeleteAlone, PublishInv, OnDisk
<1>4. CASE BulkFlush
  BY Zenon, <1>4, NoRows DEF BulkFlush, Lock, TypeInv, TypeOK, TableType,
      HolderType, Control, InBatch, NoBatch, Flushers, DeleteAlone, PublishInv,
      OnDisk
<1>5. CASE CommitLog
  BY Zenon, <1>5 DEF CommitLog, Lock, BatchAck, BatchFreed, BatchFails, TypeInv,
      TypeOK, TableType, HolderType, Control, InBatch, NoBatch, Flushers,
      DeleteAlone, PublishInv, OnDisk
<1>6. CASE LogSynced
  BY Zenon, <1>6, NoRows DEF LogSynced, Unlock, BatchAck, BatchFreed, TypeInv,
      TypeOK, TableType, HolderType, Control, InBatch, NoBatch, Flushers,
      DeleteAlone, PublishInv, OnDisk
<1>7. CASE LogFailed
  BY Zenon, <1>7, NoRows DEF LogFailed, Unlock, BatchFails, Fault, TypeInv,
      TypeOK, TableType, HolderType, Control, InBatch, NoBatch, Flushers,
      DeleteAlone, PublishInv, OnDisk
<1>8. CASE CommitFlush
  BY Zenon, <1>8 DEF CommitFlush, Lock, TypeInv, TypeOK, TableType, HolderType,
      Control, InBatch, NoBatch, Flushers, DeleteAlone, PublishInv, OnDisk
<1>9. CASE CommitFlushed
  BY Zenon, <1>9, NoRows DEF CommitFlushed, Unlock, BatchAck, BatchFreed,
      BatchFails, Fault, TypeInv, TypeOK, TableType, HolderType, Control,
      InBatch, NoBatch, Flushers, DeleteAlone, PublishInv, OnDisk
<1>10. CASE BatchFlushed
  BY Zenon, <1>10, NoRows DEF BatchFlushed, Unlock, TypeInv, TypeOK, TableType,
      HolderType, Control, InBatch, NoBatch, Flushers, DeleteAlone,
      PublishInv, OnDisk
<1>11. CASE BatchDiscard
  BY Zenon, <1>11, NoRows DEF BatchDiscard, BatchFreed, DiscardTo, TypeInv,
      TypeOK, TableType, HolderType, Control, InBatch, NoBatch, Flushers,
      DeleteAlone, PublishInv, OnDisk
<1>12. CASE BatchRetain
  BY Zenon, <1>12 DEF BatchRetain, BatchFreed, TypeInv, TypeOK, TableType,
      HolderType, Control, InBatch, NoBatch, Flushers, DeleteAlone,
      PublishInv, OnDisk
<1> QED
  BY Zenon, <1>1, <1>2, <1>3, <1>4, <1>5, <1>6, <1>7, <1>8, <1>9, <1>10, <1>11,
      <1>12 DEF BatchSteps

\* The flush invariant is kept by the steps of a part flush.
LEMMA PublishKeepsFlush ==
    ASSUME ~DeleteOverlapsBatch, TypeInv, DeleteAlone, PublishInv, FlushSteps
    PROVE  (DeleteAlone /\ PublishInv)'
<1> USE DEF durable, table, batch, holder, replay, history, bounds
<1>1. CASE FlushEmptyOrFrozen
  BY Zenon, <1>1, NoRows DEF FlushEmptyOrFrozen, FlushReturns, TypeInv, TypeOK,
      TableType, HolderType, Control, InBatch, NoBatch, Flushers, DeleteAlone,
      PublishInv, OnDisk
<1>2. CASE FlushSkipLocal
  BY Zenon, <1>2, NoRows DEF FlushSkipLocal, FlushReturns, WalTruncateIfSafe,
      TruncateLog, MemtableDrained, SkipReplicate, TypeInv, TypeOK, TableType,
      HolderType, Control, InBatch, NoBatch, Flushers, DeleteAlone, PublishInv,
      OnDisk
<1>3. CASE FlushStart
  BY Zenon, <1>3, NoRows DEF FlushStart, TypeInv, TypeOK, TableType,
      HolderType, Control, InBatch, NoBatch, Flushers, DeleteAlone, PublishInv,
      OnDisk, PartsOf
<1>4. ASSUME NEW p \in Part, FlushPublish(p) PROVE (DeleteAlone /\ PublishInv)'
  <2>1. DeleteAlone'
    BY Zenon, <1>4 DEF FlushPublish, NextPart, Stamp, Max2, TypeInv, TypeOK,
        TableType, HolderType, Control, InBatch, NoBatch, Flushers,
        DeleteAlone
  <2>2. PublishInv'
    <3>1. \A i \in 1..Len(mem) : mem[i] \in Row
      BY Zenon, ElementOfSeq DEF TypeInv, TypeOK, TableType
    <3> QED
      BY Zenon, <1>4, <3>1, Published DEF FlushPublish, PublishInv, OnDisk
  <2> QED
    BY Zenon, <2>1, <2>2 DEF DeleteAlone, PublishInv
<1>5. CASE FlushFail
  BY Zenon, <1>5 DEF FlushFail, FlushReturns, Fault, PartlyPublished, Mishaps,
      TypeInv, TypeOK, TableType, HolderType, Control, InBatch, NoBatch,
      Flushers, DeleteAlone, PublishInv, OnDisk
<1>6. CASE FlushFinish
  BY Zenon, <1>6, NoRows DEF FlushFinish, FlushReturns, WalTruncateIfSafe,
      TruncateLog, MemtableDrained, Fault, TypeInv, TypeOK, TableType,
      HolderType, Control, InBatch, NoBatch, Flushers, DeleteAlone, PublishInv,
      OnDisk
<1> QED
  BY Zenon, <1>1, <1>2, <1>3, <1>4, <1>5, <1>6 DEF FlushSteps

\* The flush invariant is kept by the steps of ALTER, DELETE, TRUNCATE and
\* the periodic flush.
LEMMA PublishKeepsMaint ==
    ASSUME ~DeleteOverlapsBatch, TypeInv, DeleteAlone, PublishInv, MaintSteps
    PROVE  (DeleteAlone /\ PublishInv)'
<1> USE DEF durable, table, batch, holder, replay, history, bounds
<1>1. CASE MaintFlush
  BY Zenon, <1>1 DEF MaintFlush, Lock, TypeInv, TypeOK, TableType, HolderType,
      Control, InBatch, NoBatch, Flushers, DeleteAlone, PublishInv, OnDisk
<1>2. CASE AlterAddColumn
  BY Zenon, <1>2 DEF AlterAddColumn, Lock, TypeInv, TypeOK, TableType,
      HolderType, Control, InBatch, NoBatch, Flushers, DeleteAlone, PublishInv,
      OnDisk
<1>3. CASE FlushedAndDone
  BY Zenon, <1>3, NoRows DEF FlushedAndDone, Unlock, Fault, TypeInv, TypeOK,
      TableType, HolderType, Control, InBatch, NoBatch, Flushers, DeleteAlone,
      PublishInv, OnDisk
<1>4. CASE DeleteRange
  BY Zenon, <1>4 DEF DeleteRange, Lock, CoveredBy, TypeInv, TypeOK, TableType,
      HolderType, Control, InBatch, NoBatch, Flushers, DeleteAlone,
      PublishInv, OnDisk
<1>5. CASE DeleteFlushed
  BY Zenon, <1>5 DEF DeleteFlushed, TypeInv, TypeOK, TableType, HolderType,
      Control, InBatch, NoBatch, Flushers, DeleteAlone, PublishInv, OnDisk
<1>6. CASE TruncateTable
  BY Zenon, <1>6, NoRows DEF TruncateTable, WalTruncate, Lock, Fault, TypeInv,
      TypeOK, TableType, HolderType, Control, InBatch, NoBatch, Flushers,
      DeleteAlone, PublishInv, OnDisk
<1>7. ASSUME NEW p \in Part, RemovePart(p) PROVE (DeleteAlone /\ PublishInv)'
  BY Zenon, <1>7 DEF RemovePart, Mishaps, TypeInv, TypeOK, TableType,
      HolderType, Control, InBatch, NoBatch, Flushers, DeleteAlone, PublishInv,
      OnDisk
<1>8. CASE RemoveDone
  BY Zenon, <1>8, NoRows DEF RemoveDone, Unlock, TypeInv, TypeOK, TableType,
      HolderType, Control, InBatch, NoBatch, Flushers, DeleteAlone,
      PublishInv, OnDisk
<1>9. CASE TruncateIfEmpty
  BY Zenon, <1>9, NoRows DEF TruncateIfEmpty, WalTruncate, Fault, LooksEmpty,
      TypeInv, TypeOK, TableType, HolderType, Control, InBatch, NoBatch,
      Flushers, DeleteAlone, PublishInv, OnDisk
<1> QED
  BY Zenon, <1>1, <1>2, <1>3, <1>4, <1>5, <1>6, <1>7, <1>8, <1>9 DEF
      MaintSteps

\* The flush invariant is kept by a crash, a close, an open and the replay of
\* one record.
LEMMA PublishKeepsRestart ==
    ASSUME ~DeleteOverlapsBatch, TypeInv, DeleteAlone, PublishInv, RestartSteps
    PROVE  (DeleteAlone /\ PublishInv)'
<1> USE DEF durable, table, batch, holder, replay, history, bounds
<1>1. CASE Crash
  BY Zenon, <1>1, NoRows DEF Crash, PartlyPublished, MemoryLost, BatchFreed,
      Mishaps, TypeInv, TypeOK, TableType, HolderType, Control, InBatch,
      NoBatch, Flushers, DeleteAlone, PublishInv, OnDisk
<1>2. CASE Close
  BY Zenon, <1>2 DEF Close, Lock, TypeInv, TypeOK, TableType, HolderType,
      Control, InBatch, NoBatch, Flushers, DeleteAlone, PublishInv, OnDisk
<1>3. CASE Closed
  BY Zenon, <1>3, NoRows DEF Closed, MemoryLost, BatchFreed, TypeInv, TypeOK,
      TableType, HolderType, Control, InBatch, NoBatch, Flushers, DeleteAlone,
      PublishInv, OnDisk
<1>4. CASE Open
  BY Zenon, <1>4 DEF Open, Lock, TypeInv, TypeOK, TableType, HolderType,
      Control, InBatch, NoBatch, Flushers, DeleteAlone, PublishInv, OnDisk
<1>5. CASE ReplaySkip
  BY Zenon, <1>5 DEF ReplaySkip, Scanning, TypeInv, TypeOK, TableType,
      HolderType, Control, InBatch, NoBatch, Flushers, DeleteAlone, PublishInv,
      OnDisk
<1>6. CASE ReplayApply
  BY Zenon, <1>6 DEF ReplayApply, Scanning, MustApply, TypeInv, TypeOK,
      TableType, HolderType, Control, InBatch, NoBatch, Flushers, DeleteAlone,
      PublishInv, OnDisk
<1>7. CASE ReplayFlush
  BY Zenon, <1>7 DEF ReplayFlush, Scanning, MustApply, Max2, TypeInv, TypeOK,
      TableType, HolderType, Control, InBatch, NoBatch, Flushers, DeleteAlone,
      PublishInv, OnDisk
<1>8. CASE ReplayFlushed
  BY Zenon, <1>8 DEF ReplayFlushed, TypeInv, TypeOK, TableType, HolderType,
      Control, InBatch, NoBatch, Flushers, DeleteAlone, PublishInv, OnDisk
<1> QED
  BY Zenon, <1>1, <1>2, <1>3, <1>4, <1>5, <1>6, <1>7, <1>8 DEF
      RestartSteps

\* The flush invariant is kept by the two ways a recovery ends.
LEMMA PublishKeepsRecoveryEnd ==
    ASSUME ~DeleteOverlapsBatch, TypeInv, DeleteAlone, PublishInv, RecoveryEndSteps
    PROVE  (DeleteAlone /\ PublishInv)'
<1> USE DEF durable, table, batch, holder, replay, history, bounds
<1>1. CASE ReplayDone
  BY Zenon, <1>1, NoRows DEF ReplayDone, Scanning, RecoveryEnds, Unlock,
      IsHighestSeq, SeqsSeen, TypeInv, TypeOK, TableType, HolderType, Control,
      InBatch, NoBatch, Flushers, DeleteAlone, PublishInv, OnDisk
<1>2. CASE ReplayAbort
  BY Zenon, <1>2, NoRows DEF ReplayAbort, Scanning, RecoveryEnds, Unlock,
      IsHighestSeq, SeqsSeen, Mishaps, UnreadUncovered, TypeInv, TypeOK,
      TableType, HolderType, Control, InBatch, NoBatch, Flushers, DeleteAlone,
      PublishInv, OnDisk
<1> QED
  BY Zenon, <1>1, <1>2 DEF RecoveryEndSteps

\* Every step preserves what is known of a flush that is publishing.
LEMMA PublishStep ==
    ASSUME ~DeleteOverlapsBatch, TypeInv, DeleteAlone, PublishInv, [Next]_vars
    PROVE  (DeleteAlone /\ PublishInv)'
<1>1. CASE UNCHANGED vars
  BY Zenon, <1>1 DEF vars, durable, table, batch, holder, replay, history,
      bounds, DeleteAlone, PublishInv, DeleteAlone, PublishInv, OnDisk
<1> QED
  BY Zenon, <1>1, NextSteps, PublishKeepsBatch, PublishKeepsFlush,
      PublishKeepsMaint, PublishKeepsRestart, PublishKeepsRecoveryEnd

\* The batch invariant is kept by the steps of a row batch.
LEMMA BatchKeepsBatch ==
    ASSUME ~DeleteOverlapsBatch, TypeInv, DeleteAlone, PublishInv, BatchInv,
           BatchSteps
    PROVE  BatchInv'
<1> USE DEF durable, table, batch, holder, replay, history, bounds
<1>1. CASE BatchBegin
  BY <1>1 DEF BatchBegin, BatchMuFree, TypeInv, TypeOK, TableType, HolderType,
      Control, BatchInv, DeleteAlone, AckInv, BatchType, CutInv, InBatch,
      NoBatch, Flushers, FlagType, AppendedInv, Anchored, OnDisk, Gone,
      DurableType
<1>2. ASSUME NEW r \in Row, RowAppend(r) PROVE BatchInv'
  <2>1. /\ mem' = Append(mem, r) /\ mem \in Seq(Row)
        /\ mem_logged \in 0..Len(mem)
    BY Zenon, <1>2 DEF RowAppend, TypeInv, TypeOK, TableType
  <2>2. /\ Len(mem) \in Nat /\ Len(mem') = Len(mem) + 1 /\ mem'[Len(mem) + 1] = r
        /\ \A i \in 1..Len(mem) : mem'[i] = mem[i]
    BY <2>1
  <2>3. /\ \A i \in 1..Len(mem') : i \in 1..Len(mem) \/ mem'[i] = r
        /\ \A i \in 1..Len(mem) : i \in 1..Len(mem')
        /\ Len(mem) + 1 \in 1..Len(mem') /\ Len(mem) + 1 > mem_logged
    BY <2>1, <2>2
  <2>4. AckInv'
    BY Zenon, <1>2 DEF RowAppend, BatchInv, AckInv, TypeInv, TypeOK, HistoryType
  <2>5. CutInv'
    BY Zenon, <1>2, <2>2, <2>3 DEF RowAppend, BatchInv, CutInv
  <2>6. AppendedInv'
    BY Zenon, <1>2, <2>2, <2>3 DEF RowAppend, BatchInv, AppendedInv, OnDisk, Gone
  <2> QED
    BY Zenon, <2>4, <2>5, <2>6 DEF BatchInv
<1>3. CASE RowFlush
  BY Zenon, <1>3 DEF RowFlush, Lock, TypeInv, TypeOK, TableType, HolderType,
      Control, BatchInv, DeleteAlone, AckInv, BatchType, CutInv, InBatch,
      NoBatch, Flushers, FlagType, AppendedInv, Anchored, OnDisk, Gone,
      DurableType
<1>4. CASE BulkFlush
  BY Zenon, <1>4, NoRows DEF BulkFlush, Lock, TypeInv, TypeOK, TableType,
      HolderType, Control, BatchInv, DeleteAlone, AckInv, BatchType, CutInv,
      InBatch, NoBatch, Flushers, FlagType, AppendedInv, Anchored, OnDisk, Gone,
      DurableType
<1>5. CASE CommitLog
  BY <1>5 DEF CommitLog, Lock, BatchAck, BatchFreed, BatchFails, TypeInv,
      TypeOK, TableType, HolderType, Control, BatchInv, DeleteAlone, AckInv,
      BatchType, CutInv, InBatch, NoBatch, Flushers, FlagType, AppendedInv,
      Anchored, OnDisk, Gone, DurableType
<1>6. CASE LogSynced
  BY Zenon, <1>6, NoRows DEF LogSynced, Unlock, BatchAck, BatchFreed, TypeInv,
      TypeOK, TableType, HolderType, Control, BatchInv, DeleteAlone, AckInv,
      BatchType, CutInv, InBatch, NoBatch, Flushers, FlagType, AppendedInv,
      Anchored, OnDisk, Gone, DurableType
<1>7. CASE LogFailed
  BY Zenon, <1>7, NoRows DEF LogFailed, Unlock, BatchFails, Fault, TypeInv,
      TypeOK, TableType, HolderType, Control, BatchInv, DeleteAlone, AckInv,
      BatchType, CutInv, InBatch, NoBatch, Flushers, FlagType, AppendedInv,
      Anchored, OnDisk, Gone, DurableType
<1>8. CASE CommitFlush
  BY Zenon, <1>8 DEF CommitFlush, Lock, TypeInv, TypeOK, TableType, HolderType,
      Control, BatchInv, DeleteAlone, AckInv, BatchType, CutInv, InBatch,
      NoBatch, Flushers, FlagType, AppendedInv, Anchored, OnDisk, Gone,
      DurableType
<1>9. CASE CommitFlushed
  BY <1>9, NoRows DEF CommitFlushed, Unlock, BatchAck, BatchFreed, BatchFails,
      Fault, TypeInv, TypeOK, TableType, HolderType, Control, BatchInv,
      DeleteAlone, AckInv, BatchType, CutInv, InBatch, NoBatch, Flushers,
      FlagType, AppendedInv, Anchored, OnDisk, Gone, DurableType
<1>10. CASE BatchFlushed
  BY <1>10, NoRows DEF BatchFlushed, Unlock, TypeInv, TypeOK, TableType,
      HolderType, Control, BatchInv, DeleteAlone, AckInv, BatchType, CutInv,
      InBatch, NoBatch, Flushers, FlagType, AppendedInv, Anchored, OnDisk,
      Gone, DurableType
<1>11. CASE BatchDiscard
  BY Zenon, <1>11, NoRows DEF BatchDiscard, BatchFreed, DiscardTo, TypeInv,
      TypeOK, TableType, HolderType, Control, BatchInv, DeleteAlone, AckInv,
      BatchType, CutInv, InBatch, NoBatch, Flushers, FlagType, AppendedInv,
      Anchored, OnDisk, Gone, DurableType
<1>12. CASE BatchRetain
  BY Zenon, <1>12 DEF BatchRetain, BatchFreed, TypeInv, TypeOK, TableType,
      HolderType, Control, BatchInv, DeleteAlone, AckInv, BatchType, CutInv,
      InBatch, NoBatch, Flushers, FlagType, AppendedInv, Anchored, OnDisk,
      Gone, DurableType
<1> QED
  BY Zenon, <1>1, <1>2, <1>3, <1>4, <1>5, <1>6, <1>7, <1>8, <1>9, <1>10, <1>11,
      <1>12 DEF BatchSteps

\* The batch invariant is kept by the steps of a part flush.
LEMMA BatchKeepsFlush ==
    ASSUME ~DeleteOverlapsBatch, TypeInv, DeleteAlone, PublishInv, BatchInv,
           FlushSteps
    PROVE  BatchInv'
<1> USE DEF durable, table, batch, holder, replay, history, bounds
<1>1. CASE FlushEmptyOrFrozen
  BY Zenon, <1>1, NoRows DEF FlushEmptyOrFrozen, FlushReturns, TypeInv, TypeOK,
      TableType, HolderType, Control, BatchInv, DeleteAlone, AckInv,
      BatchType, CutInv, InBatch, NoBatch, Flushers, FlagType, AppendedInv,
      Anchored, OnDisk, Gone, DurableType
<1>2. CASE FlushSkipLocal
  <2>1. AckInv'
    BY Zenon, <1>2, NoRows DEF FlushSkipLocal, FlushReturns, WalTruncateIfSafe,
        TruncateLog, MemtableDrained, SkipReplicate, TypeInv, TypeOK, TableType,
        HolderType, Control, BatchInv, DeleteAlone, AckInv, BatchType, RowsIn
  <2>2. CutInv'
    BY <1>2, NoRows DEF FlushSkipLocal, FlushReturns, WalTruncateIfSafe,
        TruncateLog, MemtableDrained, SkipReplicate, TypeInv, TypeOK, TableType,
        HolderType, Control, BatchInv, DeleteAlone, CutInv, InBatch, NoBatch,
        Flushers, FlagType, RowsIn
  <2>3. AppendedInv'
    BY Zenon, <1>2, NoRows DEF FlushSkipLocal, FlushReturns, WalTruncateIfSafe,
        TruncateLog, MemtableDrained, SkipReplicate, TypeInv, TypeOK, TableType,
        HolderType, Control, BatchInv, DeleteAlone, AppendedInv, AckInv,
        BatchType, Anchored, OnDisk, Gone, DurableType, InBatch, NoBatch, RowsIn
  <2> QED
    BY Zenon, <2>1, <2>2, <2>3 DEF BatchInv
<1>3. CASE FlushStart
  BY Zenon, <1>3, NoRows DEF FlushStart, TypeInv, TypeOK, TableType,
      HolderType, Control, BatchInv, DeleteAlone, AckInv, BatchType, CutInv,
      InBatch, NoBatch, Flushers, FlagType, AppendedInv, Anchored, OnDisk, Gone,
      DurableType
<1>4. ASSUME NEW p \in Part, FlushPublish(p) PROVE BatchInv'
  <2>1. AckInv'
    BY Zenon, <1>4 DEF FlushPublish, NextPart, Stamp, Max2, TypeInv, TypeOK,
        TableType, HolderType, Control, BatchInv, DeleteAlone, AckInv,
        BatchType
  <2>2. CutInv'
    BY Zenon, <1>4 DEF FlushPublish, NextPart, Stamp, Max2, TypeInv, TypeOK,
        TableType, HolderType, Control, BatchInv, DeleteAlone, CutInv,
        InBatch, NoBatch, Flushers, FlagType
  <2>3. AppendedInv'
    BY Zenon, <1>4, Published DEF FlushPublish, BatchInv, AppendedInv, OnDisk,
        Gone, TypeInv, TypeOK, BatchType
  <2> QED
    BY Zenon, <2>1, <2>2, <2>3 DEF BatchInv
<1>5. CASE FlushFail
  BY Zenon, <1>5 DEF FlushFail, FlushReturns, Fault, PartlyPublished, Mishaps,
      TypeInv, TypeOK, TableType, HolderType, Control, BatchInv, DeleteAlone,
      AckInv, BatchType, CutInv, InBatch, NoBatch, Flushers, FlagType,
      AppendedInv, Anchored, OnDisk, Gone, DurableType
<1>6. CASE FlushFinish
  <2>1. AckInv'
    BY Zenon, <1>6, NoRows DEF FlushFinish, FlushReturns, WalTruncateIfSafe,
        TruncateLog, MemtableDrained, Fault, TypeInv, TypeOK, TableType,
        HolderType, Control, BatchInv, DeleteAlone, AckInv, BatchType,
        PublishInv
  <2>2. CutInv'
    BY <1>6, NoRows DEF FlushFinish, FlushReturns, WalTruncateIfSafe,
        TruncateLog, MemtableDrained, Fault, TypeInv, TypeOK, TableType,
        HolderType, Control, BatchInv, DeleteAlone, CutInv, InBatch, NoBatch,
        Flushers, FlagType, PublishInv
  <2>3. AppendedInv'
    BY Zenon, <1>6, NoRows DEF FlushFinish, FlushReturns, WalTruncateIfSafe,
        TruncateLog, MemtableDrained, Fault, TypeInv, TypeOK, TableType,
        HolderType, Control, BatchInv, DeleteAlone, AppendedInv, AckInv,
        BatchType, Anchored, OnDisk, Gone, DurableType, InBatch, NoBatch,
        PublishInv
  <2> QED
    BY Zenon, <2>1, <2>2, <2>3 DEF BatchInv
<1> QED
  BY Zenon, <1>1, <1>2, <1>3, <1>4, <1>5, <1>6 DEF FlushSteps

\* The batch invariant is kept by the steps of ALTER, DELETE, TRUNCATE and
\* the periodic flush.
LEMMA BatchKeepsMaint ==
    ASSUME ~DeleteOverlapsBatch, TypeInv, DeleteAlone, PublishInv, BatchInv,
           MaintSteps
    PROVE  BatchInv'
<1> USE DEF durable, table, batch, holder, replay, history, bounds
<1>1. CASE MaintFlush
  BY Zenon, <1>1 DEF MaintFlush, Lock, TypeInv, TypeOK, TableType, HolderType,
      Control, BatchInv, DeleteAlone, AckInv, BatchType, CutInv, InBatch,
      NoBatch, Flushers, FlagType, AppendedInv, Anchored, OnDisk, Gone,
      DurableType
<1>2. CASE AlterAddColumn
  BY Zenon, <1>2 DEF AlterAddColumn, Lock, TypeInv, TypeOK, TableType,
      HolderType, Control, BatchInv, DeleteAlone, AckInv, BatchType, CutInv,
      InBatch, NoBatch, Flushers, FlagType, AppendedInv, Anchored, OnDisk, Gone,
      DurableType
<1>3. CASE FlushedAndDone
  BY Zenon, <1>3, NoRows DEF FlushedAndDone, Unlock, Fault, TypeInv, TypeOK,
      TableType, HolderType, Control, BatchInv, DeleteAlone, AckInv, BatchType,
      CutInv, InBatch, NoBatch, Flushers, FlagType, AppendedInv, Anchored,
      OnDisk, Gone, DurableType
<1>4. CASE DeleteRange
  BY Zenon, <1>4 DEF DeleteRange, Lock, CoveredBy, TypeInv, TypeOK, TableType,
      HolderType, Control, BatchInv, DeleteAlone, AckInv, BatchType, CutInv,
      InBatch, NoBatch, Flushers, FlagType, AppendedInv, Anchored, OnDisk,
      Gone, DurableType
<1>5. CASE DeleteFlushed
  BY Zenon, <1>5 DEF DeleteFlushed, TypeInv, TypeOK, TableType, HolderType,
      Control, BatchInv, DeleteAlone, AckInv, BatchType, CutInv, InBatch,
      NoBatch, Flushers, FlagType, AppendedInv, Anchored, OnDisk, Gone,
      DurableType
<1>6. CASE TruncateTable
  BY Zenon, <1>6, NoRows DEF TruncateTable, WalTruncate, Lock, Fault, TypeInv,
      TypeOK, TableType, HolderType, Control, BatchInv, DeleteAlone, AckInv,
      BatchType, CutInv, InBatch, NoBatch, Flushers, FlagType, AppendedInv,
      Anchored, OnDisk, Gone, DurableType
<1>7. ASSUME NEW p \in Part, RemovePart(p) PROVE BatchInv'
  BY Zenon, <1>7 DEF RemovePart, Mishaps, TypeInv, TypeOK, TableType,
      HolderType, Control, BatchInv, DeleteAlone, AckInv, BatchType, CutInv,
      InBatch, NoBatch, Flushers, FlagType, AppendedInv, Anchored, OnDisk, Gone,
      DurableType
<1>8. CASE RemoveDone
  BY Zenon, <1>8, NoRows DEF RemoveDone, Unlock, TypeInv, TypeOK, TableType,
      HolderType, Control, BatchInv, DeleteAlone, AckInv, BatchType, CutInv,
      InBatch, NoBatch, Flushers, FlagType, AppendedInv, Anchored, OnDisk,
      Gone, DurableType
<1>9. CASE TruncateIfEmpty
  BY Zenon, <1>9, NoRows DEF TruncateIfEmpty, WalTruncate, Fault, LooksEmpty,
      TypeInv, TypeOK, TableType, HolderType, Control, BatchInv, DeleteAlone,
      AckInv, BatchType, CutInv, InBatch, NoBatch, Flushers, FlagType,
      AppendedInv, Anchored, OnDisk, Gone, DurableType
<1> QED
  BY Zenon, <1>1, <1>2, <1>3, <1>4, <1>5, <1>6, <1>7, <1>8, <1>9 DEF
      MaintSteps

\* The batch invariant is kept by a crash, a close, an open and the replay of
\* one record.
LEMMA BatchKeepsRestart ==
    ASSUME ~DeleteOverlapsBatch, TypeInv, DeleteAlone, PublishInv, BatchInv,
           RestartSteps
    PROVE  BatchInv'
<1> USE DEF durable, table, batch, holder, replay, history, bounds
<1>1. CASE Crash
  BY Zenon, <1>1, NoRows DEF Crash, PartlyPublished, MemoryLost, BatchFreed,
      Mishaps, TypeInv, TypeOK, TableType, HolderType, Control, BatchInv,
      DeleteAlone, AckInv, BatchType, CutInv, InBatch, NoBatch, Flushers,
      FlagType, AppendedInv, Anchored, OnDisk, Gone, DurableType
<1>2. CASE Close
  BY Zenon, <1>2 DEF Close, Lock, TypeInv, TypeOK, TableType, HolderType,
      Control, BatchInv, DeleteAlone, AckInv, BatchType, CutInv, InBatch,
      NoBatch, Flushers, FlagType, AppendedInv, Anchored, OnDisk, Gone,
      DurableType
<1>3. CASE Closed
  BY Zenon, <1>3, NoRows DEF Closed, MemoryLost, BatchFreed, TypeInv, TypeOK,
      TableType, HolderType, Control, BatchInv, DeleteAlone, AckInv,
      BatchType, CutInv, InBatch, NoBatch, Flushers, FlagType, AppendedInv,
      Anchored, OnDisk, Gone, DurableType
<1>4. CASE Open
  BY Zenon, <1>4 DEF Open, Lock, TypeInv, TypeOK, TableType, HolderType,
      Control, BatchInv, DeleteAlone, AckInv, BatchType, CutInv, InBatch,
      NoBatch, Flushers, FlagType, AppendedInv, Anchored, OnDisk, Gone,
      DurableType
<1>5. CASE ReplaySkip
  BY Zenon, <1>5 DEF ReplaySkip, Scanning, TypeInv, TypeOK, TableType,
      HolderType, Control, BatchInv, DeleteAlone, AckInv, BatchType, CutInv,
      InBatch, NoBatch, Flushers, FlagType, AppendedInv, Anchored, OnDisk, Gone,
      DurableType
<1>6. CASE ReplayApply
  BY Zenon, <1>6 DEF ReplayApply, Scanning, MustApply, TypeInv, TypeOK,
      TableType, HolderType, Control, BatchInv, DeleteAlone, AckInv, BatchType,
      CutInv, InBatch, NoBatch, Flushers, FlagType, AppendedInv, Anchored,
      OnDisk, Gone, DurableType
<1>7. CASE ReplayFlush
  BY Zenon, <1>7 DEF ReplayFlush, Scanning, MustApply, Max2, TypeInv, TypeOK,
      TableType, HolderType, Control, BatchInv, DeleteAlone, AckInv,
      BatchType, CutInv, InBatch, NoBatch, Flushers, FlagType, AppendedInv,
      Anchored, OnDisk, Gone, DurableType
<1>8. CASE ReplayFlushed
  BY Zenon, <1>8 DEF ReplayFlushed, TypeInv, TypeOK, TableType, HolderType,
      Control, BatchInv, DeleteAlone, AckInv, BatchType, CutInv, InBatch,
      NoBatch, Flushers, FlagType, AppendedInv, Anchored, OnDisk, Gone,
      DurableType
<1> QED
  BY Zenon, <1>1, <1>2, <1>3, <1>4, <1>5, <1>6, <1>7, <1>8 DEF
      RestartSteps

\* The batch invariant is kept by the two ways a recovery ends.
LEMMA BatchKeepsRecoveryEnd ==
    ASSUME ~DeleteOverlapsBatch, TypeInv, DeleteAlone, PublishInv, BatchInv,
           RecoveryEndSteps
    PROVE  BatchInv'
<1> USE DEF durable, table, batch, holder, replay, history, bounds
<1>1. CASE ReplayDone
  BY Zenon, <1>1, NoRows DEF ReplayDone, Scanning, RecoveryEnds, Unlock,
      IsHighestSeq, SeqsSeen, TypeInv, TypeOK, TableType, HolderType, Control,
      BatchInv, DeleteAlone, AckInv, BatchType, CutInv, InBatch, NoBatch,
      Flushers, FlagType, AppendedInv, Anchored, OnDisk, Gone, DurableType
<1>2. CASE ReplayAbort
  <2>1. AckInv'
    BY Zenon, <1>2, NoRows DEF ReplayAbort, Scanning, RecoveryEnds, Unlock,
        IsHighestSeq, SeqsSeen, Mishaps, UnreadUncovered, TypeInv, TypeOK,
        TableType, HolderType, Control, BatchInv, DeleteAlone, AckInv,
        BatchType
  <2>2. CutInv'
    BY Zenon, <1>2, NoRows DEF ReplayAbort, Scanning, RecoveryEnds, Unlock,
        IsHighestSeq, SeqsSeen, Mishaps, UnreadUncovered, TypeInv, TypeOK,
        TableType, HolderType, Control, BatchInv, DeleteAlone, CutInv,
        InBatch, NoBatch, Flushers, FlagType
  <2>3. AppendedInv'
    BY Zenon, <1>2, NoRows DEF ReplayAbort, Scanning, RecoveryEnds, Unlock,
        IsHighestSeq, SeqsSeen, Mishaps, UnreadUncovered, TypeInv, TypeOK,
        TableType, HolderType, Control, BatchInv, DeleteAlone, AppendedInv,
        AckInv, BatchType, Anchored, OnDisk, Gone, DurableType, InBatch,
        NoBatch
  <2> QED
    BY Zenon, <2>1, <2>2, <2>3 DEF BatchInv
<1> QED
  BY Zenon, <1>1, <1>2 DEF RecoveryEndSteps

\* Every step preserves what is known of the open batch's rows.
LEMMA BatchStep ==
    ASSUME ~DeleteOverlapsBatch, TypeInv, DeleteAlone, PublishInv, BatchInv,
           [Next]_vars
    PROVE  BatchInv'
<1>1. CASE UNCHANGED vars
  BY Zenon, <1>1 DEF vars, durable, table, batch, holder, replay, history,
      bounds, BatchInv, AckInv, BatchType, CutInv, InBatch, NoBatch, Flushers,
      FlagType, AppendedInv, Anchored, OnDisk, Gone, DurableType
<1> QED
  BY Zenon, <1>1, NextSteps, BatchKeepsBatch, BatchKeepsFlush, BatchKeepsMaint,
      BatchKeepsRestart, BatchKeepsRecoveryEnd

-----------------------------------------------------------------------------
(* Where every owed row is: the rest of the inductive invariant.           *)

\* Record i restores row r: it holds the row and the row's partition has not
\* settled it.
Restores(i, r) ==
    r \in RowsIn(wal[i].rows) /\ wal[i].seq > ckpt[PartOf[r]]

\* A replay cannot get past record k.
Blocks(k) ==
    /\ wal[k].ncols # ncols
    /\ wal[k].seq > ckpt[PartOf[wal[k].rows[1]]]

\* A replay that starts at record n applies row r, or stops before it.
Recoverable(r, n) ==
    \E i \in 1..Len(wal) :
        /\ n <= i /\ Restores(i, r)
        /\ \/ wal[i].ncols = ncols
           \/ \E k \in 1..i : n <= k /\ Blocks(k)

\* A row the memtable shows and the log restores.
MemOwns(r) ==
    /\ r \in RowsIn(mem)
    /\ \E i \in 1..Len(wal) : Restores(i, r) /\ wal[i].ncols = ncols

\* Where an owed row is, by the state of the table.
LogOwns ==
    \A r \in Owed : OnDisk(r) \/ Recoverable(r, 1)
OpenOwns ==
    op \notin {"down", "replay"} /\ ~wal_incomplete =>
        \A r \in Owed : OnDisk(r) \/ MemOwns(r)
ReplayOwns ==
    op = "replay" =>
        /\ \A k \in 1..Len(wal) : k < pos /\ wal[k].ncols # ncols =>
              wal[k].seq <= cpmap[PartOf[wal[k].rows[1]]]
        /\ \A r \in Owed : OnDisk(r) \/ r \in RowsIn(mem) \/ Recoverable(r, pos)
FrozenOwns ==
    wal_incomplete /\ (mem = <<>> \/ (bpc # "none" /\ base_nrows = 0)) =>
        \A r \in Owed :
            \/ OnDisk(r)
            \/ \E i \in 1..Len(wal) : Restores(i, r) /\ \E k \in 1..i : Blocks(k)

Owns == LogOwns /\ OpenOwns /\ ReplayOwns /\ FrozenOwns

OwnInv == "abandoned" \notin mishaps => Owns

RowInv ==
    TypeInv /\ SeqInv /\ DeleteAlone /\ PublishInv /\ BatchInv /\ OwnInv
-----------------------------------------------------------------------------
(* Owed rows.                                                              *)

\* A step that touches neither the disk nor the acks moves no obligation.
LEMMA OwnFrame ==
    ASSUME UNCHANGED <<wal, disk, ckpt, ncols, acked, deleted, remote>>
    PROVE  /\ Owed' = Owed
           /\ \A r : OnDisk(r)' <=> OnDisk(r)
           /\ \A i, r : Restores(i, r)' <=> Restores(i, r)
           /\ \A k : Blocks(k)' <=> Blocks(k)
           /\ \A r, n : Recoverable(r, n)' <=> Recoverable(r, n)
  BY Zenon DEF Owed, OnDisk, Restores, Blocks, Recoverable

\* Acking rows that are on disk or gone moves none either.
LEMMA AckFrame ==
    ASSUME UNCHANGED <<wal, disk, ckpt, ncols, deleted, remote>>,
           acked' = acked \cup brows,
           \A r \in brows : OnDisk(r) \/ Gone(r)
    PROVE  /\ \A r \in Owed' : r \in Owed \/ OnDisk(r)
           /\ \A r : OnDisk(r)' <=> OnDisk(r)
           /\ \A i, r : Restores(i, r)' <=> Restores(i, r)
           /\ \A k : Blocks(k)' <=> Blocks(k)
           /\ \A r, n : Recoverable(r, n)' <=> Recoverable(r, n)
  BY Zenon DEF Owed, OnDisk, Gone, Restores, Blocks, Recoverable

\* The types of the owed rows, their partitions and their counts on disk.
LEMMA OwedTypes ==
    ASSUME RowInv
    PROVE  /\ Owed \subseteq Row
           /\ \A r \in Row : PartOf[r] \in Part /\ disk[r] \in Nat
<1>1. Owed \subseteq Row
  BY Zenon DEF Owed, HistoryType, RowInv, TypeInv, TypeOK
<1>2. \A r \in Row : PartOf[r] \in Part /\ disk[r] \in Nat
  BY Zenon, RowAssumption DEF DurableType, RowInv, TypeInv, TypeOK
<1> QED
  BY Zenon, <1>1, <1>2

\* The types of the checkpoints, on disk and as a replay has read them.
LEMMA CkptTypes ==
    ASSUME RowInv
    PROVE  /\ \A p \in Part : ckpt[p] \in Nat /\ cpmap[p] \in Nat
           /\ commit_seq \in Nat
  BY Zenon DEF DurableType, TableType, ReplayType, RowInv, TypeInv, TypeOK

\* The types of the log's records and of the place a replay has reached.
LEMMA LogTypes ==
    ASSUME RowInv
    PROVE  /\ Len(wal) \in Nat /\ pos \in Nat /\ ncols \in Nat
           /\ \A i \in 1..Len(wal) :
                 /\ wal[i].seq \in Nat /\ wal[i].ncols \in Nat
                 /\ RowsIn(wal[i].rows) \subseteq Row
                 /\ wal[i].rows[1] \in Row
<1>1. \A i \in 1..Len(wal) : /\ wal[i].seq \in Nat /\ wal[i].ncols \in Nat
                             /\ wal[i].rows \in Seq(Row) /\ wal[i].rows # <<>>
  BY Zenon, RecordType DEF SeqInv, LogInv, RowInv, TypeInv, TypeOK
<1>2. \A i \in 1..Len(wal) : wal[i].rows[1] \in Row
  BY <1>1
<1>3. \A i \in 1..Len(wal) : RowsIn(wal[i].rows) \subseteq Row
  BY Zenon, <1>1, PartOfType
<1>4. Len(wal) \in Nat /\ pos \in Nat /\ ncols \in Nat
  BY DEF DurableType, ReplayType, RowInv, TypeInv, TypeOK
<1> QED
  BY Zenon, <1>1, <1>2, <1>3, <1>4

\* The types of the memtable's counts.
LEMMA MemTypes ==
    ASSUME RowInv
    PROVE  Len(mem) \in Nat /\ mem_logged \in Nat /\ base_nrows \in Nat
  BY DEF TableType, BatchType, RowInv, TypeInv, TypeOK

\* All the types an argument about owed rows needs.
LEMMA OwnTypes ==
    ASSUME RowInv
    PROVE  /\ Owed \subseteq Row
           /\ \A r \in Row : PartOf[r] \in Part
           /\ \A p \in Part : ckpt[p] \in Nat /\ cpmap[p] \in Nat
           /\ \A r \in Row : disk[r] \in Nat
           /\ \A i \in 1..Len(wal) :
                 /\ wal[i].seq \in Nat /\ wal[i].ncols \in Nat
                 /\ RowsIn(wal[i].rows) \subseteq Row
                 /\ wal[i].rows[1] \in Row
           /\ Len(wal) \in Nat /\ Len(mem) \in Nat /\ pos \in Nat
           /\ commit_seq \in Nat /\ mem_logged \in Nat /\ base_nrows \in Nat
           /\ ncols \in Nat
  BY Zenon, OwedTypes, CkptTypes, LogTypes, MemTypes

\* A checkpoint that goes down restores and blocks no less.
LEMMA CkptLowered ==
    ASSUME RowInv, wal' = wal, ncols' = ncols,
           \A q \in Part : ckpt'[q] \in Nat /\ ckpt'[q] <= ckpt[q]
    PROVE  /\ \A r \in Owed, i \in 1..Len(wal) : Restores(i, r) => Restores(i, r)'
           /\ \A k \in 1..Len(wal) : Blocks(k) => Blocks(k)'
<1>1. ASSUME NEW r \in Owed, NEW i \in 1..Len(wal), Restores(i, r)
      PROVE  Restores(i, r)'
  BY <1>1, OwedTypes, CkptTypes, LogTypes DEF Restores
<1>2. ASSUME NEW k \in 1..Len(wal), Blocks(k) PROVE Blocks(k)'
  BY <1>2, OwedTypes, CkptTypes, LogTypes DEF Blocks
<1> QED
  BY Zenon, <1>1, <1>2

\* While the table is open and not frozen, the log holds what the memtable owes.
LEMMA OpenLog ==
    OpenOwns' /\ op' \notin {"down", "replay"} /\ ~wal_incomplete' => LogOwns'
  BY DEF OpenOwns, MemOwns, LogOwns, Recoverable

\* A replay has passed only records that cannot block the next one.
LEMMA ReadPast ==
    ASSUME RowInv, Owns, op = "replay", NEW k \in 1..Len(wal), k < pos
    PROVE  ~Blocks(k)
<1>1. wal[k].ncols # ncols => wal[k].seq <= cpmap[PartOf[wal[k].rows[1]]]
  BY Zenon DEF Owns, ReplayOwns
<1>2. cpmap[PartOf[wal[k].rows[1]]] <= ckpt[PartOf[wal[k].rows[1]]]
  BY Zenon, OwnTypes DEF RowInv, SeqInv, ReplaySeqInv
<1> QED
  BY <1>1, <1>2, OwnTypes DEF Blocks

\* A step that moves only locks, sequence numbers and a batch's captures keeps
\* the ownership of every owed row.
LEMMA OwnSame ==
    ASSUME Owns, UNCHANGED <<wal, disk, ckpt, ncols, acked, deleted, remote>>,
           UNCHANGED <<mem, wal_incomplete, pos, cpmap>>,
           op' = "replay" <=> op = "replay",
           op' # "down" => op # "down",
           bpc' # "none" /\ base_nrows' = 0 =>
               mem = <<>> \/ (bpc # "none" /\ base_nrows = 0)
    PROVE  Owns'
  BY Zenon, OwnFrame DEF Owns, LogOwns, OpenOwns, MemOwns, ReplayOwns,
      FrozenOwns

\* A batch appends a row.
LEMMA OwnRowAppend ==
    ASSUME RowInv, Owns, NEW r \in Row, RowAppend(r)
    PROVE  Owns'
<1> USE DEF durable, table, batch, holder, replay, history, bounds
<1>1. LogOwns'
  BY Zenon, OwnFrame DEF RowAppend, RowInv, Owns, TypeInv, TypeOK, TableType,
      Control, DeleteAlone, LogOwns, OpenOwns
<1>2. OpenOwns'
  <2>1. RowsIn(mem) \subseteq RowsIn(mem')
    BY Zenon, Appended DEF RowAppend, RowInv, TypeInv, TypeOK, TableType
  <2> QED
    BY Zenon, <2>1, OwnFrame DEF RowAppend, Owns, OpenOwns, MemOwns
<1>3. ReplayOwns'
  BY Zenon, OwnFrame DEF RowAppend, RowInv, Owns, TypeInv, TypeOK, TableType,
      Control, DeleteAlone, ReplayOwns, LogOwns, ReplayType
<1>4. FrozenOwns'
  BY OwnFrame DEF RowAppend, RowInv, Owns, TypeInv, TypeOK, TableType,
      Control, DeleteAlone, FrozenOwns, OpenOwns, BatchInv, CutInv, NoBatch
<1> QED
  BY Zenon, <1>1, <1>2, <1>3, <1>4 DEF Owns

\* A commit starts, or acks an empty log.
LEMMA OwnCommitLog ==
    ASSUME RowInv, Owns, CommitLog
    PROVE  Owns'
<1> USE DEF durable, table, batch, holder, replay, history, bounds
<1>1. CASE acked' = acked
  BY Zenon, <1>1, OwnFrame DEF CommitLog, BatchAck, BatchFails, BatchFreed,
      Lock, RowInv, SeqInv, TypeInv, Control, NoBatch, Owns, LogOwns, OpenOwns,
      MemOwns, ReplayOwns, FrozenOwns
<1>2. CASE acked' # acked
  <2>1. BatchAck /\ ~wal_incomplete /\ Len(mem) <= mem_logged /\ op' = op
    BY Zenon, <1>2 DEF CommitLog, BatchFails
  <2>2. \A r \in brows : OnDisk(r) \/ Gone(r)
    BY <2>1, OwnTypes DEF CommitLog, RowInv, BatchInv, AppendedInv
  <2> QED
    BY Zenon, <2>1, <2>2, AckFrame DEF CommitLog, BatchAck, Owns, LogOwns,
        OpenOwns, MemOwns, ReplayOwns, FrozenOwns
<1> QED
  BY Zenon, <1>1, <1>2

\* A redo record is synced and its rows are acked.
LEMMA OwnLogSynced ==
    ASSUME RowInv, Owns, LogSynced
    PROVE  Owns'
<1> USE DEF durable, table, batch, holder, replay, history, bounds
<1>1. PICK n \in Nat : n = Len(wal) + 1
  BY OwnTypes
<1>2. /\ Len(wal') = n /\ n \in 1..n
      /\ \A i \in 1..Len(wal) : wal'[i] = wal[i] /\ i \in 1..n
      /\ wal'[n] = RedoRecord
      /\ RedoRecord.seq = commit_seq + 1 /\ RedoRecord.ncols = ncols
      /\ \A i \in 1..Len(mem) :
            i > mem_logged => mem[i] \in RowsIn(RedoRecord.rows)
  <2>1. wal' = wal \o wal_tail /\ op = "log" /\ TypeInv /\ TailInv
    BY Zenon DEF LogSynced, RowInv, SeqInv
  <2>2. /\ Len(wal') = n
        /\ \A i \in 1..Len(wal) : wal'[i] = wal[i]
        /\ wal'[n] = RedoRecord
    BY Zenon, <1>1, <2>1, TailAppended
  <2>3. n \in 1..n /\ \A i \in 1..Len(wal) : i \in 1..n
    BY <1>1, OwnTypes
  <2> QED
    BY Zenon, <2>1, <2>2, <2>3, TailAppended
<1>3. UNCHANGED <<disk, ckpt, ncols, mem, deleted, remote, wal_incomplete>>
      /\ acked' = acked \cup brows /\ op' = "none" /\ ~wal_incomplete
  BY Zenon DEF LogSynced, BatchAck, Unlock, RowInv, SeqInv, TailInv
<1>4. \A r \in Owed : OnDisk(r) \/ MemOwns(r)
  BY Zenon, <1>3 DEF LogSynced, Owns, OpenOwns
<1>5. ASSUME NEW r \in Owed' PROVE OnDisk(r)' \/ MemOwns(r)'
  <2>1. CASE r \in Owed
    BY Zenon, <1>2, <1>3, <1>4, <2>1 DEF OnDisk, MemOwns, Restores
  <2>2. CASE r \in brows /\ ~OnDisk(r)
    <3>1. PICK i \in 1..Len(mem) : i > mem_logged /\ mem[i] = r
      BY Zenon, <1>3, <1>5, <2>2 DEF LogSynced, RowInv, BatchInv, AppendedInv,
          Gone, Owed, TypeInv, Control, InBatch
    <3>2. r \in Row /\ ckpt[PartOf[r]] <= commit_seq
      BY Zenon, <2>2, OwnTypes DEF LogSynced, RowInv, SeqInv, OpenSeqInv,
          TypeInv, TypeOK, BatchType
    <3>3. ckpt[PartOf[r]] \in Nat /\ commit_seq \in Nat
      BY Zenon, <3>2, OwnTypes
    <3>4. wal'[n].seq > ckpt'[PartOf[r]]
      BY <1>2, <1>3, <3>2, <3>3
    <3>5. Restores(n, r)' /\ wal'[n].ncols = ncols'
      BY Zenon, <1>2, <1>3, <3>1, <3>4 DEF Restores
    <3>6. r \in RowsIn(mem')
      BY Zenon, <1>3, <3>1 DEF RowsIn
    <3> QED
      BY Zenon, <1>2, <3>5, <3>6 DEF MemOwns
  <2> QED
    BY Zenon, <1>3, <1>5, <2>1, <2>2 DEF Owed, OnDisk
<1>6. OpenOwns'
  BY Zenon, <1>5 DEF OpenOwns
<1> QED
  BY Zenon, <1>3, <1>6, OpenLog DEF Owns, ReplayOwns, FrozenOwns

\* The flush of a commit returns.
LEMMA OwnCommitFlushed ==
    ASSUME RowInv, Owns, CommitFlushed
    PROVE  Owns'
<1> USE DEF durable, table, batch, holder, replay, history, bounds
<1>1. CASE acked' = acked
  BY Zenon, <1>1, OwnSame DEF CommitFlushed, BatchAck, BatchFails, BatchFreed,
      Unlock, InBatch, RowInv, TypeInv, Control
<1>2. CASE acked' # acked
  <2>1. BatchAck /\ mem = <<>>
    BY Zenon, <1>2 DEF CommitFlushed, BatchFails, RowInv, TypeInv, Control
  <2>2. \A r \in brows : OnDisk(r) \/ Gone(r)
    BY <2>1, NoRows DEF CommitFlushed, RowInv, BatchInv, AppendedInv,
        TypeInv, Control, InBatch
  <2> QED
    BY Zenon, <2>1, <2>2, AckFrame DEF CommitFlushed, BatchAck, BatchFreed,
        Unlock, Owns, LogOwns, OpenOwns, MemOwns, ReplayOwns, FrozenOwns
<1> QED
  BY Zenon, <1>1, <1>2

\* A batch is cut off the memtable.
LEMMA OwnBatchDiscard ==
    ASSUME RowInv, Owns, BatchDiscard
    PROVE  Owns'
<1> USE DEF durable, table, batch, holder, replay, history, bounds
<1>1. mem \in Seq(Row) /\ base_nrows \in Nat
  BY Zenon DEF RowInv, TypeInv, TypeOK, TableType, BatchType
<1>2. ~straddled => base_nrows <= Len(mem)
  BY Zenon DEF BatchDiscard, RowInv, TypeInv, Anchored
<1>3. ~straddled => /\ mem' \in Seq(Row) /\ Len(mem') = base_nrows
                    /\ \A i \in 1..base_nrows : mem'[i] = mem[i]
  BY <1>1, <1>2, Slice, 0 + 1 = 1 DEF BatchDiscard, DiscardTo
<1>4. ASSUME NEW r \in Owed, r \in RowsIn(mem) PROVE r \in RowsIn(mem')
  <2>1. PICK i \in 1..Len(mem) : mem[i] = r
    BY Zenon, <1>4 DEF RowsIn
  <2>2. ~straddled /\ i <= base_nrows
    BY <1>1, <2>1 DEF BatchDiscard, RowInv, BatchInv, CutInv, AckInv, Owed
  <2> QED
    BY <1>1, <1>3, <2>1, <2>2 DEF RowsIn
<1>5. wal_incomplete /\ mem' = <<>> => mem = <<>> \/ base_nrows = 0
  BY Zenon, <1>3, NoRows DEF BatchDiscard, RowInv, BatchInv, CutInv
<1> QED
  BY Zenon, <1>4, <1>5, OwnFrame DEF BatchDiscard, BatchFreed, RowInv, TypeInv,
      Control, NoBatch, Owns, LogOwns, OpenOwns, MemOwns, ReplayOwns, FrozenOwns

\* The ownership of every row that is owed is kept by the steps of a row batch.
LEMMA OwnKeepsBatch ==
    ASSUME RowInv, Owns, BatchSteps
    PROVE  Owns'
<1> USE DEF durable, table, batch, holder, replay, history, bounds
<1>1. CASE BatchBegin
  <2>1. mem \in Seq(Row)
    BY Zenon DEF RowInv, TypeInv, TypeOK, TableType
  <2>2. Len(mem) = 0 => mem = <<>>
    BY <2>1
  <2> QED
    BY Zenon, <1>1, <2>2, OwnSame DEF BatchBegin
<1>2. CASE RowFlush
  BY Zenon, <1>2, OwnSame DEF RowFlush, Lock, RowInv, TypeInv, Control
<1>3. CASE BulkFlush
  BY Zenon, <1>3, OwnSame DEF BulkFlush, Lock, RowInv, TypeInv, Control
<1>4. CASE LogFailed
  BY Zenon, <1>4, OwnSame DEF LogFailed, BatchFails, Unlock, InBatch, RowInv,
      TypeInv, Control
<1>5. CASE CommitFlush
  BY Zenon, <1>5, OwnSame DEF CommitFlush, Lock, RowInv, TypeInv, Control
<1>6. CASE BatchFlushed
  BY Zenon, <1>6, OwnSame DEF BatchFlushed, Unlock, InBatch, RowInv, TypeInv,
      Control
<1>7. CASE BatchRetain
  BY Zenon, <1>7, OwnSame DEF BatchRetain, BatchFreed, RowInv, TypeInv, Control
<1> QED
  BY Zenon, <1>1, OwnRowAppend, <1>2, <1>3, OwnCommitLog, OwnLogSynced, <1>4,
      <1>5, OwnCommitFlushed, <1>6, OwnBatchDiscard, <1>7 DEF BatchSteps

\* A flush that skips the rows of remote partitions drops the captured rows.
LEMMA OwnFlushSkipLocal ==
    ASSUME RowInv, Owns, FlushSkipLocal
    PROVE  Owns'
<1> USE DEF durable, table, batch, holder, replay, history, bounds
<1>1. UNCHANGED <<disk, acked, deleted, op, wal_incomplete>>
      /\ remote' = remote \cup RowsIn(mem)
      /\ op \notin {"down", "replay"} /\ ~wal_incomplete
  BY Zenon DEF FlushSkipLocal, SkipReplicate, RowInv, TypeInv, Control, Flushers
<1>2. \A r \in Owed' : OnDisk(r)'
  BY Zenon, <1>1 DEF Owns, OpenOwns, MemOwns, Owed, OnDisk
<1> QED
  BY Zenon, <1>1, <1>2 DEF Owns, LogOwns, OpenOwns, ReplayOwns, FrozenOwns

\* A flush publishes one partition and stamps its checkpoint.
LEMMA OwnFlushPublish ==
    ASSUME RowInv, Owns, NEW p \in Part, FlushPublish(p)
    PROVE  Owns'
<1> USE DEF durable, table, batch, holder, replay, history, bounds
<1>1. ckpt' = [ckpt EXCEPT ![p] = Max2(ckpt[p], commit_seq)]
  BY Zenon DEF FlushPublish, Stamp
<1>2. /\ UNCHANGED <<wal, mem, op, pos, cpmap, acked, deleted, remote, ncols>>
      /\ Owed' = Owed /\ UNCHANGED wal_incomplete /\ ~wal_incomplete
  BY Zenon DEF FlushPublish, Owed, RowInv, TypeInv, Control
<1>3. \A q \in Part :
          ckpt'[q] = IF q = p THEN Max2(ckpt[p], commit_seq) ELSE ckpt[q]
  BY Zenon, <1>1 DEF RowInv, TypeInv, TypeOK, DurableType
<1>4. \A r \in Owed : OnDisk(r) => OnDisk(r)'
  BY Zenon, Published, OwedTypes DEF OnDisk, RowInv
<1>5. \A r \in Owed : r \in RowsIn(mem) /\ PartOf[r] = p => OnDisk(r)'
  BY Zenon, Published DEF OnDisk, RowsIn, RowInv
<1>6. \A r \in Owed, i \in 1..Len(wal) :
          PartOf[r] # p /\ Restores(i, r) => Restores(i, r)'
  BY Zenon, <1>2, <1>3, OwedTypes DEF Restores
<1>7. CASE op # "replay"
  <2>1. OpenOwns'
    BY Zenon, <1>2, <1>4, <1>5, <1>6, <1>7 DEF Owns, OpenOwns, MemOwns
  <2>2. op \notin {"down", "replay"}
    BY Zenon, <1>7 DEF FlushPublish, Flushers, RowInv, TypeInv, Control
  <2>3. LogOwns'
    BY Zenon, <1>2, <2>1, <2>2, OpenLog
  <2> QED
    BY Zenon, <1>2, <2>1, <2>2, <2>3 DEF Owns, ReplayOwns, FrozenOwns
<1>8. CASE op = "replay"
  <2>1. \A i \in 1..Len(wal) : pos <= i => wal[i].seq > commit_seq
    BY <1>8, LogTypes DEF RowInv, SeqInv, ReplaySeqInv
  <2>2. \A i \in 1..Len(wal), q \in Part :
            pos <= i /\ wal[i].seq > ckpt[q] => wal[i].seq > ckpt'[q]
    BY Zenon, <1>3, <2>1, CkptTypes, LogTypes DEF Max2
  <2>3. \A r \in Owed, i \in 1..Len(wal) :
            pos <= i /\ Restores(i, r) => Restores(i, r)'
    BY Zenon, <1>2, <2>2, OwedTypes DEF Restores
  <2>4. \A k \in 1..Len(wal) : pos <= k /\ Blocks(k) => Blocks(k)'
    BY Zenon, <1>2, <2>2, OwedTypes, LogTypes DEF Blocks
  <2>5. \A k \in 1..Len(wal) : Blocks(k) => pos <= k
    BY <1>8, ReadPast, LogTypes
  <2>6. \A r \in Owed : Recoverable(r, pos) => Recoverable(r, pos)'
    BY <1>2, <2>3, <2>4, LogTypes DEF Recoverable
  <2>7. \A r \in Owed : Recoverable(r, 1) /\ PartOf[r] # p => Recoverable(r, 1)'
    <3> SUFFICES ASSUME NEW r \in Owed, Recoverable(r, 1), PartOf[r] # p
                 PROVE  Recoverable(r, 1)'
      OBVIOUS
    <3>1. PICK i \in 1..Len(wal) :
              /\ Restores(i, r)
              /\ wal[i].ncols = ncols \/ \E k \in 1..i : 1 <= k /\ Blocks(k)
      BY Zenon DEF Recoverable
    <3>2. Restores(i, r)' /\ i \in 1..Len(wal') /\ 1 <= i
      BY <1>2, <1>6, <3>1, LogTypes
    <3>3. ASSUME NEW k \in 1..i, Blocks(k) PROVE Blocks(k)'
      <4>1. k \in 1..Len(wal)
        BY LogTypes
      <4> QED
        BY Zenon, <2>4, <2>5, <3>3, <4>1
    <3> QED
      BY Zenon, <1>2, <3>1, <3>2, <3>3 DEF Recoverable
  <2>8. \A r \in Owed : Recoverable(r, pos)' => Recoverable(r, 1)'
    <3>1. pos >= 1
      BY DEF RowInv, TypeInv, TypeOK, ReplayType
    <3> QED
      BY <1>2, <3>1, LogTypes DEF Recoverable
  <2>9. ReplayOwns'
    BY Zenon, <1>2, <1>4, <1>8, <2>6 DEF Owns, ReplayOwns
  <2>10. LogOwns'
    BY Zenon, <1>2, <1>4, <1>5, <1>8, <2>6, <2>7, <2>8 DEF Owns, ReplayOwns,
        LogOwns
  <2> QED
    BY Zenon, <1>2, <1>8, <2>9, <2>10 DEF Owns, OpenOwns, FrozenOwns
<1> QED
  BY Zenon, <1>7, <1>8

\* A flush drops the rows it published.
LEMMA OwnFlushFinish ==
    ASSUME RowInv, Owns, FlushFinish
    PROVE  Owns'
<1> USE DEF durable, table, batch, holder, replay, history, bounds
<1>1. \A r \in RowsIn(mem) : OnDisk(r)
  BY Zenon DEF FlushFinish, RowInv, PublishInv, RowsIn
<1>2. UNCHANGED <<disk, ckpt, ncols, acked, deleted, remote, op, pos, cpmap,
                  wal_incomplete>> /\ ~wal_incomplete /\ op # "down"
  BY Zenon DEF FlushFinish, RowInv, TypeInv, Control, Flushers
<1>3. CASE op = "replay"
  <2>1. wal' = wal
    BY Zenon, <1>3 DEF FlushFinish, WalTruncateIfSafe, TruncateLog
  <2> QED
    BY Zenon, <1>1, <1>2, <1>3, <2>1, OwnFrame DEF Owns, LogOwns, OpenOwns,
        ReplayOwns, FrozenOwns
<1>4. CASE op # "replay"
  <2>1. \A r \in Owed : OnDisk(r)
    BY Zenon, <1>1, <1>2, <1>4 DEF Owns, OpenOwns, MemOwns
  <2>2. \A r \in Owed' : OnDisk(r)'
    BY Zenon, <1>2, <2>1 DEF Owed, OnDisk
  <2> QED
    BY Zenon, <1>2, <1>4, <2>2 DEF Owns, LogOwns, OpenOwns, ReplayOwns,
        FrozenOwns
<1> QED
  BY Zenon, <1>3, <1>4

\* The ownership of every row that is owed is kept by the steps of a part flush.
LEMMA OwnKeepsFlush ==
    ASSUME RowInv, Owns, FlushSteps
    PROVE  Owns'
<1> USE DEF durable, table, batch, holder, replay, history, bounds
<1>1. CASE FlushEmptyOrFrozen
  BY Zenon, <1>1, OwnSame DEF FlushEmptyOrFrozen, FlushReturns, RowInv,
      TypeInv, Control
<1>2. CASE FlushStart
  BY Zenon, <1>2, OwnSame DEF FlushStart, RowInv, TypeInv, Control
<1>3. CASE FlushFail
  BY Zenon, <1>3, OwnSame DEF FlushFail, FlushReturns, Fault, PartlyPublished,
      Mishaps, RowInv, TypeInv, Control
<1> QED
  BY Zenon, <1>1, OwnFlushSkipLocal, <1>2, OwnFlushPublish, <1>3,
      OwnFlushFinish DEF FlushSteps

-----------------------------------------------------------------------------
(* Maintenance.                                                            *)

\* ALTER widens the table after its flush.
LEMMA OwnFlushedAndDone ==
    ASSUME RowInv, Owns, FlushedAndDone
    PROVE  Owns'
<1> USE DEF durable, table, batch, holder, replay, history, bounds
<1>1. UNCHANGED <<wal, disk, ckpt, mem, acked, deleted, remote, wal_incomplete>>
      /\ op \notin {"down", "replay"} /\ op' = "none" /\ bpc = "none"
      /\ bpc' = "none" /\ Owed' = Owed
  BY Zenon DEF FlushedAndDone, Unlock, Fault, RowInv, TypeInv, Control, NoBatch,
      Owed
<1>2. CASE ncols' = ncols
  BY Zenon, <1>1, <1>2, OwnFrame DEF Owns, LogOwns, OpenOwns, MemOwns,
      ReplayOwns, FrozenOwns
<1>3. CASE ncols' # ncols
  <2>1. ncols' = ncols + 1 /\ mem = <<>>
    BY Zenon, <1>3 DEF FlushedAndDone, RowInv, TypeInv, Control
  <2>2. RowsIn(mem) = {}
    BY <2>1, NoRows DEF RowsIn
  <2>3. CASE ~wal_incomplete
    <3>1. \A r \in Owed : OnDisk(r)
      BY Zenon, <1>1, <2>2, <2>3 DEF Owns, OpenOwns, MemOwns
    <3> QED
      BY Zenon, <1>1, <2>3, <3>1 DEF Owns, LogOwns, OpenOwns, ReplayOwns,
          FrozenOwns, OnDisk
  <2>4. CASE wal_incomplete
    <3>1. \A k \in 1..Len(wal) : Blocks(k) => Blocks(k)'
      BY <1>1, <2>1, LogTypes DEF Blocks, RowInv, SeqInv, LogInv
    <3>2. \A i, r : Restores(i, r)' <=> Restores(i, r)
      BY Zenon, <1>1 DEF Restores
    <3>3. \A r \in Owed : \/ OnDisk(r)
                          \/ \E i \in 1..Len(wal) :
                                Restores(i, r) /\ \E k \in 1..i : Blocks(k)
      BY Zenon, <1>1, <2>1, <2>4 DEF Owns, FrozenOwns
    <3>4. \A r \in Owed' :
              \/ OnDisk(r)'
              \/ \E i \in 1..Len(wal') :
                    Restores(i, r)' /\ \E k \in 1..i : Blocks(k)'
      BY <1>1, <3>1, <3>2, <3>3, LogTypes DEF OnDisk
    <3>5. LogOwns'
      BY <3>4 DEF LogOwns, Recoverable
    <3> QED
      BY Zenon, <1>1, <2>4, <3>4, <3>5 DEF Owns, OpenOwns, ReplayOwns,
          FrozenOwns
  <2> QED
    BY Zenon, <2>3, <2>4
<1> QED
  BY Zenon, <1>2, <1>3

\* TRUNCATE empties the memtable and the log; every row so far is deleted.
LEMMA OwnTruncateTable ==
    ASSUME RowInv, Owns, TruncateTable
    PROVE  Owns'
<1> USE DEF durable, table, batch, holder, replay, history, bounds
<1>1. Owed' = {}
  BY Zenon DEF TruncateTable, Owed, RowInv, BatchInv, AckInv
<1> QED
  BY Zenon, <1>1 DEF TruncateTable, Lock, Owns, LogOwns, OpenOwns, ReplayOwns,
      FrozenOwns

\* A partition is removed with its checkpoint.
LEMMA OwnRemovePart ==
    ASSUME RowInv, Owns, NEW p \in Part, RemovePart(p)
    PROVE  Owns'
<1> USE DEF durable, table, batch, holder, replay, history, bounds
<1>1. UNCHANGED <<wal, ncols, mem, op, bpc, base_nrows, wal_incomplete, acked>>
      /\ op \notin {"down", "replay"}
  BY Zenon DEF RemovePart, RowInv, TypeInv, Control
<1>2. Owed' \subseteq Owed
  BY Zenon DEF RemovePart, Owed
<1>3. \A r \in Owed' : OnDisk(r) => OnDisk(r)'
  BY Zenon, <1>2, OwedTypes DEF RemovePart, Owed, OnDisk
<1>4. \A q \in Part : ckpt'[q] \in Nat /\ ckpt'[q] <= ckpt[q]
  BY CkptTypes DEF RemovePart
<1>5. \A r \in Owed, i \in 1..Len(wal) : Restores(i, r) => Restores(i, r)'
  BY Zenon, <1>1, <1>4, CkptLowered
<1>6. \A k \in 1..Len(wal) : Blocks(k) => Blocks(k)'
  BY Zenon, <1>1, <1>4, CkptLowered
<1>7. \A r \in Owed : Recoverable(r, 1) => Recoverable(r, 1)'
  BY <1>1, <1>5, <1>6, LogTypes DEF Recoverable
<1>8. LogOwns'
  BY Zenon, <1>2, <1>3, <1>7 DEF Owns, LogOwns
<1>9. OpenOwns'
  BY Zenon, <1>1, <1>2, <1>3, <1>5 DEF Owns, OpenOwns, MemOwns
<1>10. FrozenOwns'
  BY <1>1, <1>2, <1>3, <1>5, <1>6, LogTypes DEF Owns, FrozenOwns
<1> QED
  BY Zenon, <1>1, <1>8, <1>9, <1>10 DEF Owns, ReplayOwns

\* Anti-entropy truncates the log of a table that looks empty.
LEMMA OwnTruncateIfEmpty ==
    ASSUME RowInv, Owns, TruncateIfEmpty
    PROVE  Owns'
<1> USE DEF durable, table, batch, holder, replay, history, bounds
<1>1. RowsIn(mem) = {} /\ ~wal_incomplete /\ op = "none"
  BY NoRows DEF TruncateIfEmpty, LooksEmpty, RowsIn
<1>2. \A r \in Owed : ~OnDisk(r)
  BY OwedTypes DEF TruncateIfEmpty, LooksEmpty, OnDisk
<1>3. Owed = {}
  BY Zenon, <1>1, <1>2 DEF Owns, OpenOwns, MemOwns
<1>4. Owed' = {}
  BY Zenon, <1>3 DEF TruncateIfEmpty, Owed
<1> QED
  BY Zenon, <1>1, <1>4 DEF TruncateIfEmpty, Owns, LogOwns, OpenOwns, ReplayOwns,
      FrozenOwns

\* The ownership of every row that is owed is kept by the steps of ALTER,
\* DELETE, TRUNCATE and the periodic flush.
LEMMA OwnKeepsMaint ==
    ASSUME RowInv, Owns, MaintSteps
    PROVE  Owns'
<1> USE DEF durable, table, batch, holder, replay, history, bounds
<1>1. CASE MaintFlush
  BY Zenon, <1>1, OwnSame DEF MaintFlush, Lock, RowInv, TypeInv, Control
<1>2. CASE AlterAddColumn
  BY Zenon, <1>2, OwnSame DEF AlterAddColumn, Lock, RowInv, TypeInv, Control
<1>3. CASE DeleteRange
  BY Zenon, <1>3, OwnSame DEF DeleteRange, Lock, CoveredBy, RowInv, TypeInv,
      Control
<1>4. CASE DeleteFlushed
  BY Zenon, <1>4, OwnSame DEF DeleteFlushed, RowInv, TypeInv, Control
<1>5. CASE RemoveDone
  BY Zenon, <1>5, OwnSame DEF RemoveDone, Unlock, RowInv, TypeInv, Control
<1> QED
  BY Zenon, <1>1, <1>2, OwnFlushedAndDone, <1>3, <1>4, OwnTruncateTable,
      OwnRemovePart, <1>5, OwnTruncateIfEmpty DEF MaintSteps

-----------------------------------------------------------------------------
(* Crashes and recoveries.                                                 *)

\* Once a replay has read the whole log, the memtable shows what is owed.
LEMMA AllRead ==
    ASSUME RowInv, Owns, op = "replay", pos > Len(wal)
    PROVE  \A r \in Owed : OnDisk(r) \/ MemOwns(r)
<1>1. \A r \in Owed : ~Recoverable(r, pos)
  BY LogTypes DEF Recoverable
<1>2. \A k \in 1..Len(wal) : ~Blocks(k)
  BY ReadPast, LogTypes
<1>3. \A r \in Owed : Recoverable(r, 1) =>
          \E i \in 1..Len(wal) : Restores(i, r) /\ wal[i].ncols = ncols
  BY <1>2, LogTypes DEF Recoverable
<1> QED
  BY Zenon, <1>1, <1>3 DEF Owns, LogOwns, ReplayOwns, MemOwns

\* A replay that stops at a record it cannot place leaves what is owed behind
\* that record, which stops every later replay too.
LEMMA ReplayStuck ==
    ASSUME RowInv, Owns, op = "replay", mem = <<>>,
           pos \in 1..Len(wal), wal[pos].ncols # ncols,
           wal[pos].seq > cpmap[PartOf[wal[pos].rows[1]]]
    PROVE  \A r \in Owed :
              \/ OnDisk(r)
              \/ \E i \in 1..Len(wal) : Restores(i, r) /\ \E k \in 1..i : Blocks(k)
<1>1. wal[pos].seq > commit_seq
  BY LogTypes DEF RowInv, SeqInv, ReplaySeqInv
<1>2. \A q \in Part : ckpt[q] <= cpmap[q] \/ ckpt[q] <= commit_seq
  BY Zenon DEF RowInv, SeqInv, ReplaySeqInv
<1>3. Blocks(pos)
  BY <1>1, <1>2, OwedTypes, CkptTypes, LogTypes DEF Blocks
<1>4. RowsIn(mem) = {}
  BY NoRows DEF RowsIn
<1>5. \A r \in Owed : OnDisk(r) \/ Recoverable(r, pos)
  BY Zenon, <1>4 DEF Owns, ReplayOwns
<1>6. \A i \in 1..Len(wal) : pos <= i => pos \in 1..i
  BY LogTypes
<1> QED
  BY Zenon, <1>3, <1>5, <1>6 DEF Recoverable

\* A record that the replay's map covers restores no owed row, and blocks no
\* replay.
LEMMA CoveredSettled ==
    ASSUME RowInv, op = "replay", NEW n \in 1..Len(wal), Covered(wal[n])
    PROVE  /\ wal[n].ncols # ncols =>
                  wal[n].seq <= cpmap[PartOf[wal[n].rows[1]]] /\ ~Blocks(n)
           /\ wal[n].ncols = ncols => \A r \in Owed : ~Restores(n, r)
<1>1. wal[n].seq \in Nat /\ PartOf[wal[n].rows[1]] \in Part
  BY Zenon, OwedTypes, LogTypes
<1>2. \A q \in Part : wal[n].seq <= cpmap[q] => ~(wal[n].seq > ckpt[q])
  <2>1. \A q \in Part : cpmap[q] <= ckpt[q]
    BY Zenon DEF RowInv, SeqInv, ReplaySeqInv
  <2> QED
    BY <1>1, <2>1, CkptTypes
<1>3. ASSUME wal[n].ncols # ncols
      PROVE  wal[n].seq <= cpmap[PartOf[wal[n].rows[1]]]
  BY Zenon, <1>3 DEF Covered, Walkable
<1>4. ASSUME wal[n].ncols # ncols PROVE ~Blocks(n)
  BY Zenon, <1>1, <1>2, <1>3, <1>4 DEF Blocks
<1>5. ASSUME wal[n].ncols = ncols, NEW r \in Owed, Restores(n, r) PROVE FALSE
  <2>1. PICK j \in 1..Len(wal[n].rows) : wal[n].rows[j] = r
    BY Zenon, <1>5 DEF Restores, RowsIn
  <2>2. wal[n].seq <= cpmap[PartOf[r]]
    BY Zenon, <1>5, <2>1 DEF Covered, Walkable
  <2>3. PartOf[r] \in Part
    BY Zenon, OwedTypes
  <2> QED
    BY Zenon, <1>2, <1>5, <2>2, <2>3 DEF Restores
<1> QED
  BY Zenon, <1>3, <1>4, <1>5

\* A crash keeps the disk, the checkpoints and the log, with or without the
\* record being written.
LEMMA OwnCrash ==
    ASSUME RowInv, Owns, Crash
    PROVE  Owns'
<1>1. LogOwns'
  <2>1. UNCHANGED <<disk, ckpt, ncols, acked, deleted, remote>>
        /\ wal' \in {wal, wal \o wal_tail}
    BY Zenon DEF Crash
  <2>2. CASE wal' = wal
    BY Zenon, <2>1, <2>2, OwnFrame DEF Owns, LogOwns
  <2>3. CASE op # "log"
    <3>1. wal \o wal_tail = wal
      BY Zenon, <2>3, ConcatEmptySeq DEF RowInv, SeqInv, TailInv, TypeInv,
          TypeOK, DurableType
    <3> QED
      BY Zenon, <2>1, <2>2, <3>1
  <2>4. CASE wal' = wal \o wal_tail /\ op = "log"
    <3>1. /\ Len(wal') = Len(wal) + 1
          /\ \A i \in 1..Len(wal) : wal'[i] = wal[i] /\ i \in 1..Len(wal')
      BY <2>4, TailAppended, LogTypes DEF RowInv, SeqInv
    <3>2. \A r : \A i \in 1..Len(wal) : Restores(i, r) => Restores(i, r)'
      BY Zenon, <2>1, <3>1 DEF Restores
    <3>3. \A k \in 1..Len(wal) : Blocks(k) => Blocks(k)'
      BY Zenon, <2>1, <3>1 DEF Blocks
    <3>4. ASSUME NEW r, Recoverable(r, 1) PROVE Recoverable(r, 1)'
      <4>1. PICK i \in 1..Len(wal) :
                /\ Restores(i, r) /\ 1 <= i
                /\ wal[i].ncols = ncols \/ \E k \in 1..i : 1 <= k /\ Blocks(k)
        BY Zenon, <3>4 DEF Recoverable
      <4>2. \A k \in 1..i : k \in 1..Len(wal)
        BY LogTypes
      <4> QED
        BY Zenon, <2>1, <3>1, <3>2, <3>3, <4>1, <4>2 DEF Recoverable
    <3> QED
      BY Zenon, <2>1, <3>4 DEF Owns, LogOwns, Owed, OnDisk
  <2> QED
    BY Zenon, <2>1, <2>2, <2>3, <2>4
<1>2. op' = "down" /\ ~wal_incomplete'
  BY Zenon DEF Crash, MemoryLost
<1> QED
  BY Zenon, <1>1, <1>2 DEF Owns, OpenOwns, ReplayOwns, FrozenOwns

\* A replay starts at the first record.
LEMMA OwnOpen ==
    ASSUME RowInv, Owns, Open
    PROVE  Owns'
<1>1. UNCHANGED <<wal, disk, ckpt, ncols, acked, deleted, remote>>
      /\ op' = "replay" /\ pos' = 1 /\ ~wal_incomplete'
  BY Zenon DEF Open, Lock, RowInv, TypeInv, Control, durable, table, history
<1> QED
  BY <1>1, OwnFrame, LogTypes DEF Owns, LogOwns, OpenOwns, ReplayOwns,
      FrozenOwns, Recoverable

\* A replay skips a covered record.
LEMMA OwnReplaySkip ==
    ASSUME RowInv, Owns, ReplaySkip
    PROVE  Owns'
<1>1. /\ UNCHANGED <<wal, disk, ckpt, ncols, mem, op, cpmap>>
      /\ UNCHANGED <<acked, deleted, remote>>
      /\ pos' = pos + 1 /\ pos <= Len(wal) /\ Covered(wal[pos])
      /\ op = "replay" /\ wal_incomplete' = wal_incomplete
  BY Zenon DEF ReplaySkip, Scanning, durable, table, holder, history
<1>2. /\ UNCHANGED <<wal, disk, ckpt, ncols, mem, op, cpmap>>
      /\ UNCHANGED <<acked, deleted, remote>>
      /\ pos' = pos + 1 /\ pos \in 1..Len(wal) /\ Covered(wal[pos])
      /\ op = "replay" /\ ~wal_incomplete'
  BY <1>1, LogTypes DEF RowInv, TypeInv, TypeOK, Control, ReplayType
<1>3. LogOwns'
  BY Zenon, <1>2, OwnFrame DEF Owns, LogOwns
<1>4. ReplayOwns'
  <2>3. wal[pos].ncols # ncols =>
            wal[pos].seq <= cpmap[PartOf[wal[pos].rows[1]]] /\ ~Blocks(pos)
    BY Zenon, <1>2, CoveredSettled
  <2>4. wal[pos].ncols = ncols => \A r \in Owed : ~Restores(pos, r)
    BY Zenon, <1>2, CoveredSettled
  <2>5. ASSUME NEW r \in Owed, Recoverable(r, pos) PROVE Recoverable(r, pos)'
    <3>1. PICK i \in 1..Len(wal) :
              /\ pos <= i /\ Restores(i, r)
              /\ wal[i].ncols = ncols \/ \E k \in 1..i : pos <= k /\ Blocks(k)
      BY Zenon, <2>5 DEF Recoverable
    <3>2. CASE wal[i].ncols = ncols
      <4>1. pos + 1 <= i
        BY <1>2, <2>4, <3>1, <3>2
      <4> QED
        BY Zenon, <1>2, <3>1, <3>2, <4>1 DEF Recoverable, Restores
    <3>3. ASSUME NEW k \in 1..i, pos <= k, Blocks(k) PROVE Recoverable(r, pos)'
      <4>0. wal[k].ncols # ncols
        BY Zenon, <3>3 DEF Blocks
      <4>2. k # pos
        BY Zenon, <2>3, <3>3, <4>0
      <4>3. pos \in Int /\ i \in Int /\ k \in Int /\ k <= i
        BY <1>2
      <4>1. pos + 1 <= k /\ pos + 1 <= i
        BY <3>3, <4>2, <4>3
      <4> QED
        BY Zenon, <1>2, <3>1, <3>3, <4>1 DEF Recoverable, Restores, Blocks
    <3> QED
      BY Zenon, <3>1, <3>2, <3>3
  <2>6. \A k \in 1..Len(wal) : k < pos + 1 => k < pos \/ k = pos
    BY <1>2
  <2> QED
    BY Zenon, <1>2, <2>3, <2>5, <2>6 DEF Owns, ReplayOwns, Owed, OnDisk
<1> QED
  BY Zenon, <1>2, <1>3, <1>4 DEF Owns, OpenOwns, FrozenOwns

\* A replay applies a record.
LEMMA OwnReplayApply ==
    ASSUME RowInv, Owns, ReplayApply
    PROVE  Owns'
<1>1. /\ UNCHANGED <<wal, disk, ckpt, ncols, op, cpmap, acked, deleted, remote>>
      /\ pos' = pos + 1 /\ pos \in 1..Len(wal) /\ wal[pos].ncols = ncols
      /\ op = "replay" /\ mem' = mem \o wal[pos].rows /\ ~wal_incomplete'
  BY LogTypes DEF ReplayApply, MustApply, Walkable, Scanning, RowInv, TypeInv,
      TypeOK, Control, ReplayType, durable, holder, history
<1>2. LogOwns'
  BY Zenon, <1>1, OwnFrame DEF Owns, LogOwns
<1>3. ReplayOwns'
  <2>2. /\ RowsIn(mem) \subseteq RowsIn(mem')
        /\ RowsIn(wal[pos].rows) \subseteq RowsIn(mem')
    <3>1. mem \in Seq(Row) /\ wal[pos].rows \in Seq(Row)
      BY Zenon, <1>1, RecordType DEF RowInv, TypeInv, TypeOK, TableType
    <3> QED
      BY Zenon, <1>1, <3>1, Joined
  <2>3. ASSUME NEW r \in Owed, Recoverable(r, pos)
        PROVE  r \in RowsIn(mem') \/ Recoverable(r, pos)'
    <3>1. PICK i \in 1..Len(wal) :
              /\ pos <= i /\ Restores(i, r)
              /\ wal[i].ncols = ncols \/ \E k \in 1..i : pos <= k /\ Blocks(k)
      BY Zenon, <2>3 DEF Recoverable
    <3>2. CASE i = pos
      BY Zenon, <2>2, <3>1, <3>2 DEF Restores
    <3>3. CASE i # pos
      <4>1. pos + 1 <= i
        BY <3>1, <3>3, LogTypes
      <4>2. \A k \in 1..i : pos <= k /\ Blocks(k) => pos + 1 <= k
        <5>1. ~Blocks(pos)
          BY Zenon, <1>1 DEF Blocks
        <5>2. \A k \in 1..i : pos <= k /\ k # pos => pos + 1 <= k
          BY <1>1
        <5> QED
          BY Zenon, <5>1, <5>2
      <4> QED
        BY Zenon, <1>1, <3>1, <4>1, <4>2 DEF Recoverable, Restores, Blocks
    <3> QED
      BY Zenon, <3>2, <3>3
  <2>4. \A k \in 1..Len(wal) : k < pos + 1 => k < pos \/ k = pos
    BY <1>1
  <2> QED
    BY Zenon, <1>1, <2>2, <2>3, <2>4 DEF Owns, ReplayOwns, Owed, OnDisk
<1> QED
  BY Zenon, <1>1, <1>2, <1>3 DEF Owns, OpenOwns, FrozenOwns

\* The ownership of every row that is owed is kept by a crash, a close, an
\* open and the replay of one record.
LEMMA OwnKeepsRestart ==
    ASSUME RowInv, Owns, RestartSteps
    PROVE  Owns'
<1> USE DEF durable, table, batch, holder, replay, history, bounds
<1>1. CASE Close
  BY Zenon, <1>1, OwnSame DEF Close, Lock, RowInv, TypeInv, Control
<1>2. CASE Closed
  <2>1. UNCHANGED <<wal, disk, ckpt, ncols, acked, deleted, remote>>
        /\ op' = "down" /\ ~wal_incomplete'
    BY Zenon, <1>2 DEF Closed, MemoryLost
  <2> QED
    BY Zenon, <2>1, OwnFrame DEF Owns, LogOwns, OpenOwns, ReplayOwns, FrozenOwns
<1>3. CASE ReplayFlush
  BY Zenon, <1>3, OwnSame DEF ReplayFlush, Scanning, MustApply, Max2, RowInv,
      TypeInv, Control
<1>4. CASE ReplayFlushed
  BY Zenon, <1>4, OwnSame DEF ReplayFlushed, RowInv, TypeInv, Control
<1> QED
  BY Zenon, OwnCrash, <1>1, <1>2, OwnOpen, OwnReplaySkip, OwnReplayApply,
      <1>3, <1>4 DEF RestartSteps

\* A replay ends after the last record.
LEMMA OwnReplayDone ==
    ASSUME RowInv, Owns, ReplayDone
    PROVE  Owns'
<1>1. /\ UNCHANGED <<wal, disk, ckpt, ncols, mem, acked, deleted, remote>>
      /\ op = "replay" /\ pos > Len(wal) /\ op' = "none" /\ ~wal_incomplete'
  BY Zenon DEF ReplayDone, RecoveryEnds, Unlock, Scanning, durable
<1>2. LogOwns'
  BY Zenon, <1>1, OwnFrame DEF Owns, LogOwns
<1>3. \A r \in Owed : OnDisk(r) \/ MemOwns(r)
  BY Zenon, <1>1, AllRead
<1>4. OpenOwns'
  BY Zenon, <1>1, <1>3, OwnFrame DEF OpenOwns, MemOwns
<1> QED
  BY Zenon, <1>1, <1>2, <1>4 DEF Owns, ReplayOwns, FrozenOwns

\* A replay aborts and freezes the table.
LEMMA OwnReplayAbort ==
    ASSUME RowInv, Owns, "abandoned" \notin mishaps', ReplayAbort
    PROVE  Owns'
<1>1. /\ UNCHANGED <<wal, disk, ckpt, ncols, mem, bpc, acked, deleted, remote>>
      /\ op = "replay" /\ op' = "none"
  BY Zenon DEF ReplayAbort, RecoveryEnds, Unlock, Scanning, durable, batch
<1>2. wal_incomplete'
  BY Zenon DEF ReplayAbort, Mishaps
<1>3. bpc = "none"
  BY Zenon, <1>1 DEF RowInv, TypeInv, Control, NoBatch
<1>4. LogOwns'
  BY Zenon, <1>1, OwnFrame DEF Owns, LogOwns
<1>5. FrozenOwns'
  <2> SUFFICES ASSUME mem = <<>>
               PROVE  \A r \in Owed :
                        \/ OnDisk(r)
                        \/ \E i \in 1..Len(wal) :
                              Restores(i, r) /\ \E k \in 1..i : Blocks(k)
    BY Zenon, <1>1, <1>3, OwnFrame DEF FrozenOwns
  <2>1. pos <= Len(wal) /\ ~Covered(wal[pos]) /\ ~Walkable(wal[pos])
    BY Zenon DEF ReplayAbort, RowInv, PublishInv
  <2>2. pos \in 1..Len(wal)
    BY <2>1, LogTypes DEF RowInv, TypeInv, TypeOK, ReplayType
  <2>3. /\ wal[pos].ncols # ncols
        /\ ~(wal[pos].seq <= cpmap[PartOf[wal[pos].rows[1]]])
    BY Zenon, <2>1 DEF Covered, Walkable
  <2>4. wal[pos].seq > cpmap[PartOf[wal[pos].rows[1]]]
    BY <2>2, <2>3, OwedTypes, CkptTypes, LogTypes
  <2> QED
    BY Zenon, <1>1, <2>2, <2>3, <2>4, ReplayStuck
<1> QED
  BY Zenon, <1>1, <1>2, <1>4, <1>5 DEF Owns, OpenOwns, ReplayOwns

\* The ownership of every row that is owed is kept by the two ways a recovery
\* ends.
LEMMA OwnKeepsRecoveryEnd ==
    ASSUME RowInv, Owns, "abandoned" \notin mishaps', RecoveryEndSteps
    PROVE  Owns'
<1> QED
  BY Zenon, OwnReplayDone, OwnReplayAbort DEF RecoveryEndSteps

\* Every step keeps each owed row on disk, in the log or in the memtable, as
\* the state of the table requires.
LEMMA OwnStep ==
    ASSUME RowInv, Owns, "abandoned" \notin mishaps', [Next]_vars
    PROVE  Owns'
<1>1. CASE UNCHANGED vars
  BY Zenon, <1>1, OwnSame DEF vars, durable, table, batch, holder, replay,
      history
<1> QED
  BY Zenon, <1>1, NextSteps, OwnKeepsBatch, OwnKeepsFlush, OwnKeepsMaint,
      OwnKeepsRestart, OwnKeepsRecoveryEnd

-----------------------------------------------------------------------------
(* Theorems.                                                               *)

\* The inductive invariant holds of a fresh table.
LEMMA RowInit == Init => RowInv
<1> SUFFICES ASSUME Init PROVE RowInv
  OBVIOUS
<1>1. Owed = {} /\ op = "none" /\ ~wal_incomplete
  BY Zenon DEF Init, Owed
<1>2. Owns
  BY Zenon, <1>1 DEF Owns, LogOwns, OpenOwns, ReplayOwns, FrozenOwns
<1> QED
  BY Zenon, <1>2, TypeInit, SeqInit, BatchInit DEF RowInv, OwnInv

\* Every step preserves the inductive invariant.
LEMMA RowStep ==
    ~DeleteOverlapsBatch /\ RowInv /\ [Next]_vars => RowInv'
<1> SUFFICES ASSUME ~DeleteOverlapsBatch, RowInv, [Next]_vars
    PROVE  RowInv'
  OBVIOUS
<1>1. TypeInv' /\ SeqInv'
  BY Zenon, TypeStep, SeqStep DEF RowInv
<1>2. DeleteAlone' /\ PublishInv'
  BY Zenon, PublishStep DEF RowInv
<1>3. BatchInv'
  BY Zenon, BatchStep DEF RowInv
<1>4. OwnInv'
  BY Zenon, OwnStep, MishapsKept DEF RowInv, OwnInv
<1> QED
  BY Zenon, <1>1, <1>2, <1>3, <1>4 DEF RowInv

\* As long as DELETE excludes open batches, the whole invariant holds.
THEOREM RowInvariance == ASSUME ~DeleteOverlapsBatch PROVE Spec => []RowInv
<1>1. RowInv /\ [Next]_vars => RowInv'
  BY Zenon, RowStep
<1> QED
  BY <1>1, RowInit, PTL DEF Spec

\* As long as DELETE excludes open batches, an acked row that nothing deleted is
\* in its partition or in a redo record recovery will not skip: at every crash
\* point of a commit, a flush, a replay or a partition removal.
THEOREM NoAckedRowLostHolds ==
    ASSUME ~DeleteOverlapsBatch PROVE Spec => []NoAckedRowLost
<1>1. RowInv => NoAckedRowLost
  BY Zenon DEF RowInv, OwnInv, Owns, LogOwns, Recoverable, Restores, OnDisk,
      NoAckedRowLost
<1> QED
  BY <1>1, RowInvariance, PTL

\* As long as DELETE excludes open batches, readers of an open table that is not
\* frozen see every acked row.
THEOREM AckedRowsReadableHolds ==
    ASSUME ~DeleteOverlapsBatch PROVE Spec => []AckedRowsReadable
<1>1. RowInv => AckedRowsReadable
  BY Zenon DEF RowInv, OwnInv, Owns, OpenOwns, MemOwns, OnDisk,
      AckedRowsReadable
<1> QED
  BY <1>1, RowInvariance, PTL

-----------------------------------------------------------------------------
(* No row is stored twice: the inductive invariant.                        *)

Clean == mishaps \cap {"torn", "orphaned"} = {}

\* A row that no client has written is nowhere.
UsedInv ==
    /\ RowsIn(mem) \subseteq used
    /\ \A i \in 1..Len(wal) : RowsIn(wal[i].rows) \subseteq used
    /\ \A r \in Row : disk[r] > 0 => r \in used

\* No replay applies record i: every partition it touches is past it.
Settled(i) == \A r \in RowsIn(wal[i].rows) : wal[i].seq <= ckpt[PartOf[r]]
Unstored(i) == \A r \in RowsIn(wal[i].rows) : disk[r] = 0

\* The running flush has published row k of the memtable.
PublishedAt(k) == pc = "publish" /\ k <= nflush /\ PartOf[mem[k]] \notin todo

MemOnce ==
    /\ NoRepeat(mem)
    /\ \A r \in Row : disk[r] <= 1
    /\ \A k \in 1..Len(mem) : PublishedAt(k) \/ disk[mem[k]] = 0

\* The log holds a row once, and a record some of whose rows are in their
\* partitions is settled, or the running flush is about to settle it.
LogOnce ==
    /\ \A i \in 1..Len(wal) : NoRepeat(wal[i].rows)
    /\ \A i, j \in 1..Len(wal) :
          i # j => RowsIn(wal[i].rows) \cap RowsIn(wal[j].rows) = {}
    /\ \A i \in 1..Len(wal) :
          \/ Settled(i) \/ Unstored(i)
          \/ pc = "publish" /\ RowsIn(wal[i].rows) \subseteq RowsIn(mem)

\* A record is in the memtable as a whole or not at all; its rows there are
\* the logged ones, and in a replay the ones of a record applied in full.
LogMem ==
    \A i \in 1..Len(wal), k \in 1..Len(mem) :
        mem[k] \in RowsIn(wal[i].rows) =>
            /\ RowsIn(wal[i].rows) \subseteq RowsIn(mem)
            /\ op # "replay" => k <= mem_logged
            /\ op = "replay" => i < pos /\ wal[i].seq <= last_complete

\* A running flush has captured every logged row and stamps what it publishes
\* with a number no smaller than those of the records in the memtable.
FlushOnce ==
    /\ pc = "publish" =>
          /\ mem_logged <= nflush
          /\ \A k \in 1..Len(mem) :
                PublishedAt(k) => commit_seq <= ckpt[PartOf[mem[k]]]
    /\ op = "replay" /\ pc \in {"flush", "publish"} => last_complete <= commit_seq
    /\ op = "replay" /\ pc = "publish" => nflush = Len(mem)

Once == MemOnce /\ LogOnce /\ LogMem /\ FlushOnce

OnceInv == TypeInv /\ SeqInv /\ UsedInv /\ (Clean => Once)

-----------------------------------------------------------------------------
(* Rows nobody wrote.                                                      *)

\* The types an argument about stored rows needs.
LEMMA OnceTypes ==
    ASSUME TypeInv
    PROVE  /\ \A r \in Row : PartOf[r] \in Part /\ disk[r] \in Nat
           /\ \A p \in Part : ckpt[p] \in Nat /\ cpmap[p] \in Nat
           /\ mem \in Seq(Row) /\ Len(mem) \in Nat /\ mem_logged \in 0..Len(mem)
           /\ \A k \in 1..Len(mem) : mem[k] \in Row
           /\ wal \in Seq(Record) /\ Len(wal) \in Nat
           /\ \A i \in 1..Len(wal) : /\ wal[i].seq \in Nat
                                     /\ wal[i].rows \in Seq(Row)
                                     /\ RowsIn(wal[i].rows) \subseteq Row
           /\ commit_seq \in Nat /\ last_complete \in Nat /\ pos \in Nat
           /\ nflush \in Nat
<1>1. \A r \in Row : PartOf[r] \in Part /\ disk[r] \in Nat
  BY Zenon, RowAssumption DEF DurableType, TypeInv, TypeOK
<1>2. \A p \in Part : ckpt[p] \in Nat /\ cpmap[p] \in Nat
  BY Zenon DEF DurableType, ReplayType, TypeInv, TypeOK
<1>3. /\ mem \in Seq(Row) /\ Len(mem) \in Nat /\ mem_logged \in 0..Len(mem)
      /\ \A k \in 1..Len(mem) : mem[k] \in Row
      /\ wal \in Seq(Record) /\ Len(wal) \in Nat
  BY ElementOfSeq DEF TableType, DurableType, TypeInv, TypeOK
<1>4. \A i \in 1..Len(wal) : wal[i].seq \in Nat /\ wal[i].rows \in Seq(Row)
  BY Zenon, RecordType DEF TypeInv
<1>5. \A i \in 1..Len(wal) : RowsIn(wal[i].rows) \subseteq Row
  BY Zenon, <1>4, PartOfType
<1>6. commit_seq \in Nat /\ last_complete \in Nat /\ pos \in Nat /\ nflush \in Nat
  BY DEF TableType, ReplayType, HolderType, TypeInv, TypeOK
<1> QED
  BY Zenon, <1>1, <1>2, <1>3, <1>4, <1>5, <1>6

\* The log after the record being written is in it: the records before, and
\* one that holds the unlogged rows of the memtable.
LEMMA LogWithTail ==
    ASSUME TypeInv, TailInv, op = "log"
    PROVE  LET w == wal \o wal_tail IN
           /\ Len(w) = Len(wal) + 1
           /\ \A i \in 1..Len(wal) : w[i] = wal[i]
           /\ w[Len(wal) + 1].rows \in Seq(Row)
           /\ RowsIn(w[Len(wal) + 1].rows)
                  = {mem[k] : k \in (mem_logged + 1)..Len(mem)}
           /\ NoRepeat(mem) => NoRepeat(w[Len(wal) + 1].rows)
<1>1. /\ Len(wal \o wal_tail) = Len(wal) + 1
      /\ \A i \in 1..Len(wal) : (wal \o wal_tail)[i] = wal[i]
      /\ (wal \o wal_tail)[Len(wal) + 1] = RedoRecord
  BY Zenon, TailAppended
<1>2. RedoRecord.rows = SubSeq(mem, mem_logged + 1, Len(mem))
  BY Zenon DEF RedoRecord
<1>3. mem_logged \in Nat /\ Len(mem) \in 0..Len(mem) /\ mem \in Seq(Row)
  BY OnceTypes
<1> QED
  BY Zenon, <1>1, <1>2, <1>3, Sliced

\* A step that empties the memtable, and maybe the log and some partitions,
\* stores no row.
LEMMA UsedEmptied ==
    ASSUME TypeInv, UsedInv, used' = used, wal' \in {wal, <<>>}, mem' \in {mem, <<>>},
           \A r \in Row : disk'[r] \in {0, disk[r]}
    PROVE  UsedInv'
<1>1. RowsIn(mem') \subseteq RowsIn(mem)
  BY NoRows DEF RowsIn
<1>2. \A i \in 1..Len(wal') : wal' = wal /\ i \in 1..Len(wal)
  BY NoRows
<1>3. \A r \in Row : disk'[r] > 0 => disk[r] > 0
  BY OnceTypes
<1> QED
  BY Zenon, <1>1, <1>2, <1>3 DEF UsedInv

\* Nor does one that adds the record being written to the log.
LEMMA UsedLogged ==
    ASSUME TypeInv, SeqInv, UsedInv, op = "log", wal' = wal \o wal_tail,
           UNCHANGED <<disk, used>>, mem' \in {mem, <<>>}
    PROVE  UsedInv'
<1>1. /\ Len(wal') = Len(wal) + 1 /\ Len(wal) \in Nat
      /\ \A i \in 1..Len(wal) : wal'[i] = wal[i]
      /\ RowsIn(wal'[Len(wal) + 1].rows)
                  = {mem[k] : k \in (mem_logged + 1)..Len(mem)}
  BY Zenon, LogWithTail, OnceTypes DEF SeqInv
<1>2. RowsIn(wal'[Len(wal) + 1].rows) \subseteq RowsIn(mem)
  <2>1. \A k \in (mem_logged + 1)..Len(mem) : k \in 1..Len(mem)
    BY OnceTypes
  <2> QED
    BY Zenon, <1>1, <2>1 DEF RowsIn
<1>3. \A i \in 1..Len(wal') : i \in 1..Len(wal) \/ i = Len(wal) + 1
  BY <1>1
<1>4. RowsIn(mem') \subseteq RowsIn(mem)
  BY NoRows DEF RowsIn
<1> QED
  BY Zenon, <1>1, <1>2, <1>3, <1>4 DEF UsedInv

\* No step stores a row that no client has written.
LEMMA UsedStep ==
    ASSUME TypeInv, SeqInv, UsedInv, [Next]_vars
    PROVE  UsedInv'
<1> USE DEF durable, table, batch, holder, replay, history, bounds
<1>1. CASE UNCHANGED <<mem, wal, disk, used>>
  BY Zenon, <1>1 DEF UsedInv
<1>2. ASSUME NEW r \in Row, RowAppend(r) PROVE UsedInv'
  <2>1. RowsIn(mem') = RowsIn(mem) \cup {r}
    BY Zenon, <1>2, Appended, OnceTypes DEF RowAppend
  <2> QED
    BY Zenon, <1>2, <2>1 DEF RowAppend, UsedInv
<1>3. CASE LogSynced
  BY Zenon, <1>3, UsedLogged DEF LogSynced
<1>4. CASE BatchDiscard
  <2>1. RowsIn(mem') \subseteq RowsIn(mem)
    <3>1. CASE ~straddled /\ base_nrows <= Len(mem)
      <4>1. base_nrows \in 0..Len(mem) /\ 0 + 1 = 1 /\ 0 \in Nat
        BY <3>1 DEF TypeInv, TypeOK, BatchType
      <4>2. mem' = SubSeq(mem, 1, base_nrows)
        BY <1>4, <3>1, <4>1, OnceTypes DEF BatchDiscard, DiscardTo
      <4>3. RowsIn(mem') = {mem[k] : k \in 1..base_nrows}
        <5>1. mem \in Seq(Row)
          BY OnceTypes
        <5>2. RowsIn(SubSeq(mem, 1, base_nrows)) = {mem[k] : k \in 1..base_nrows}
          BY Zenon, <4>1, <5>1, Sliced
        <5> QED
          BY Zenon, <4>2, <5>2
      <4>4. \A k \in 1..base_nrows : k \in 1..Len(mem)
        BY <4>1, OnceTypes
      <4> QED
        BY Zenon, <4>3, <4>4 DEF RowsIn
    <3>2. CASE straddled \/ ~(base_nrows <= Len(mem))
      BY <1>4, <3>2, OnceTypes, NoRows DEF BatchDiscard, DiscardTo, RowsIn,
          TypeInv, TypeOK, BatchType
    <3> QED
      BY Zenon, <3>1, <3>2
  <2> QED
    BY Zenon, <1>4, <2>1 DEF BatchDiscard, UsedInv
<1>5. CASE FlushSkipLocal
  BY Zenon, <1>5, UsedEmptied DEF FlushSkipLocal, MemtableDrained, TruncateLog,
      WalTruncateIfSafe
<1>6. ASSUME NEW p \in Part, FlushPublish(p) PROVE UsedInv'
  <2>1. ASSUME NEW r \in Row, disk'[r] > 0, r \notin used PROVE FALSE
    <3>1. disk[r] = 0
      BY <2>1, OnceTypes DEF UsedInv
    <3>2. nflush \in 0..Len(mem) /\ 0 + 1 = 1 /\ 0 \in Nat
      BY <1>6, OnceTypes DEF FlushPublish, TypeInv, Control
    <3>3. /\ SubSeq(mem, 1, nflush) \in Seq(Row)
          /\ RowsIn(SubSeq(mem, 1, nflush)) = {mem[k] : k \in 1..nflush}
      BY Zenon, <3>2, Sliced, OnceTypes
    <3>4. \A k \in 1..nflush : k \in 1..Len(mem)
      BY <3>2, OnceTypes
    <3>5. r \notin RowsIn(SubSeq(mem, 1, nflush))
      BY Zenon, <2>1, <3>3, <3>4 DEF UsedInv, RowsIn
    <3>6. Occurrences(SubSeq(mem, 1, nflush), r) = 0
      BY Zenon, <3>3, <3>5, OccurrencesNone
    <3> QED
      BY <1>6, <2>1, <3>1, <3>6 DEF FlushPublish
  <2> QED
    BY Zenon, <1>6, <2>1 DEF FlushPublish, UsedInv
<1>7. CASE FlushFinish
  BY Zenon, <1>7, UsedEmptied DEF FlushFinish, MemtableDrained, TruncateLog,
      WalTruncateIfSafe
<1>8. CASE TruncateTable
  BY Zenon, <1>8, UsedEmptied DEF TruncateTable, WalTruncate
<1>9. ASSUME NEW p \in Part, RemovePart(p) PROVE UsedInv'
  BY Zenon, <1>9, UsedEmptied DEF RemovePart
<1>10. CASE TruncateIfEmpty
  BY Zenon, <1>10, UsedEmptied DEF TruncateIfEmpty, WalTruncate
<1>11. CASE Crash
  <2>1. CASE wal' = wal
    BY Zenon, <1>11, <2>1, UsedEmptied DEF Crash, MemoryLost
  <2>2. CASE wal' = wal \o wal_tail /\ op = "log"
    BY Zenon, <1>11, <2>2, UsedLogged DEF Crash, MemoryLost
  <2>3. CASE wal' = wal \o wal_tail /\ op # "log"
    <3>1. wal \o wal_tail = wal
      BY <2>3, OnceTypes DEF SeqInv, TailInv
    <3> QED
      BY Zenon, <2>1, <2>3, <3>1
  <2> QED
    BY Zenon, <1>11, <2>1, <2>2, <2>3 DEF Crash
<1>12. CASE Closed
  BY Zenon, <1>12, UsedEmptied DEF Closed, MemoryLost
<1>13. CASE ReplayApply
  <2>1. pos \in 1..Len(wal)
    BY <1>13 DEF ReplayApply, MustApply, TypeInv, TypeOK, ReplayType
  <2>2. RowsIn(mem') = RowsIn(mem) \cup RowsIn(wal[pos].rows)
    BY Zenon, <1>13, <2>1, Joined, OnceTypes DEF ReplayApply
  <2> QED
    BY Zenon, <1>13, <2>1, <2>2 DEF ReplayApply, UsedInv
<1>14. CASE \/ BatchBegin \/ RowFlush \/ BulkFlush \/ CommitLog
            \/ LogFailed \/ CommitFlush \/ CommitFlushed \/ BatchFlushed
            \/ BatchRetain
  BY Zenon, <1>1, <1>14 DEF BatchBegin, RowFlush, BulkFlush, CommitLog,
      LogFailed, CommitFlush, CommitFlushed, BatchFlushed, BatchRetain
<1>15. CASE \/ FlushEmptyOrFrozen \/ FlushStart \/ FlushFail
            \/ MaintFlush \/ AlterAddColumn \/ FlushedAndDone
            \/ DeleteRange \/ DeleteFlushed \/ RemoveDone
  BY Zenon, <1>1, <1>15 DEF FlushEmptyOrFrozen, FlushStart, FlushFail,
      MaintFlush, AlterAddColumn, FlushedAndDone, DeleteRange, DeleteFlushed,
      RemoveDone
<1>16. CASE \/ Close \/ Open \/ ReplaySkip \/ ReplayFlush \/ ReplayFlushed
            \/ ReplayDone \/ ReplayAbort \/ UNCHANGED vars
  BY Zenon, <1>1, <1>16 DEF Close, Open, ReplaySkip, ReplayFlush, ReplayFlushed,
      ReplayDone, ReplayAbort, RecoveryEnds, vars
<1> QED
  BY Zenon, <1>2, <1>3, <1>4, <1>5, <1>6, <1>7, <1>8, <1>9, <1>10, <1>11, <1>12,
      <1>13, <1>14, <1>15, <1>16 DEF Next
-----------------------------------------------------------------------------
(* No row is stored twice.                                                 *)

\* A step that moves no row, no stamp and no flush.
LEMMA OnceStill ==
    ASSUME Once, UNCHANGED <<mem, wal, disk, ckpt, op, pc, todo, nflush>>,
           UNCHANGED <<mem_logged, commit_seq, pos, last_complete>>
    PROVE  Once'
  BY Zenon DEF Once, MemOnce, LogOnce, LogMem, FlushOnce, PublishedAt, Settled,
      Unstored

\* A step between two operations, or between two steps of one outside the
\* publishing of partitions.
LEMMA OnceFrame ==
    ASSUME TypeInv, Once, UNCHANGED <<mem, wal, disk, ckpt>>,
           pc # "publish", pc' # "publish",
           op' # "replay" => op # "replay" /\ mem_logged' = mem_logged,
           op' = "replay" => /\ op = "replay" /\ last_complete' = last_complete
                             /\ pos' \in {pos, pos + 1},
           op' = "replay" /\ pc' = "flush" => last_complete' <= commit_seq'
    PROVE  Once'
<1>1. MemOnce' /\ LogOnce' /\ FlushOnce'
  BY Zenon DEF Once, MemOnce, LogOnce, FlushOnce, PublishedAt, Settled, Unstored
<1>2. LogMem'
  <2>1. \A i \in 1..Len(wal) : op' = "replay" /\ i < pos => i < pos'
    BY OnceTypes
  <2> QED
    BY Zenon, <2>1 DEF Once, LogMem
<1> QED
  BY Zenon, <1>1, <1>2 DEF Once

\* A step that empties the memtable when no record is half stored.
LEMMA OnceEmptied ==
    ASSUME TypeInv, Once, mem' = <<>>, UNCHANGED <<disk, ckpt>>,
           wal' \in {wal, <<>>}, pc' \notin {"flush", "publish"},
           \A i \in 1..Len(wal) : Settled(i) \/ Unstored(i)
    PROVE  Once'
<1>1. /\ \A i \in 1..Len(wal') : wal' = wal /\ i \in 1..Len(wal)
      /\ \A k \in 1..Len(mem') : FALSE
  BY NoRows
<1>2. MemOnce' /\ LogMem' /\ FlushOnce'
  BY Zenon, <1>1 DEF Once, MemOnce, LogMem, FlushOnce, NoRepeat
<1>3. LogOnce'
  BY Zenon, <1>1 DEF Once, LogOnce, Settled, Unstored
<1> QED
  BY Zenon, <1>2, <1>3 DEF Once

\* A record is settled, unstored or in the memtable; outside the publishing of
\* partitions it is one of the first two.
LEMMA NotHalfStored ==
    ASSUME Once, pc # "publish"
    PROVE  \A i \in 1..Len(wal) : Settled(i) \/ Unstored(i)
  BY Zenon DEF Once, LogOnce

\* The rows a running flush has captured.
LEMMA Captured ==
    ASSUME TypeInv, pc = "publish"
    PROVE  /\ nflush \in 0..Len(mem) /\ Len(mem) \in Nat
           /\ SubSeq(mem, 1, nflush) \in Seq(Row)
           /\ RowsIn(SubSeq(mem, 1, nflush)) = {mem[k] : k \in 1..nflush}
           /\ \A k \in 1..nflush : k \in 1..Len(mem)
           /\ NoRepeat(mem) => NoRepeat(SubSeq(mem, 1, nflush))
<1>1. nflush \in 0..Len(mem) /\ 0 + 1 = 1 /\ 0 \in Nat /\ Len(mem) \in Nat
  BY OnceTypes DEF TypeInv, Control
<1>2. /\ SubSeq(mem, 1, nflush) \in Seq(Row)
      /\ RowsIn(SubSeq(mem, 1, nflush)) = {mem[k] : k \in 1..nflush}
      /\ NoRepeat(mem) => NoRepeat(SubSeq(mem, 1, nflush))
  BY Zenon, <1>1, Sliced, OnceTypes
<1>3. \A k \in 1..nflush : k \in 1..Len(mem)
  BY <1>1
<1> QED
  BY Zenon, <1>1, <1>2, <1>3

\* Once every partition is published, every record in the memtable is settled.
LEMMA AllPublished ==
    ASSUME TypeInv, SeqInv, Once, pc = "publish", todo = {}
    PROVE  \A i \in 1..Len(wal) : Settled(i) \/ Unstored(i)
<1> SUFFICES ASSUME NEW i \in 1..Len(wal),
                    RowsIn(wal[i].rows) \subseteq RowsIn(mem)
             PROVE  Settled(i)
  BY Zenon DEF Once, LogOnce
<1> SUFFICES ASSUME NEW r \in RowsIn(wal[i].rows)
             PROVE  wal[i].seq <= ckpt[PartOf[r]]
  BY Zenon DEF Settled
<1>1. PICK k \in 1..Len(mem) : mem[k] = r
  BY Zenon DEF RowsIn
<1>2. /\ op # "replay" => k <= mem_logged
      /\ op = "replay" => wal[i].seq <= last_complete
  BY Zenon, <1>1 DEF Once, LogMem
<1>3. k <= nflush
  BY <1>2, OnceTypes DEF Once, FlushOnce
<1>4. commit_seq <= ckpt[PartOf[r]]
  BY Zenon, <1>1, <1>3 DEF Once, FlushOnce, PublishedAt
<1>5. wal[i].seq <= commit_seq
  <2>1. op # "down"
    BY Zenon DEF TypeInv, Control
  <2>2. CASE op = "replay"
    BY <1>2, <2>2, OnceTypes DEF Once, FlushOnce
  <2>3. CASE op # "replay"
    BY Zenon, <2>1, <2>3 DEF SeqInv, OpenSeqInv
  <2> QED
    BY Zenon, <2>2, <2>3
<1>6. r \in Row
  BY Zenon, OnceTypes
<1> QED
  BY <1>4, <1>5, <1>6, OnceTypes

\* Before the first partition is published, no row of the memtable is stored.
LEMMA NonePublished ==
    ASSUME TypeInv, Once, pc = "publish",
           todo = PartsOf(SubSeq(mem, 1, nflush))
    PROVE  /\ \A k \in 1..Len(mem) : ~PublishedAt(k) /\ disk[mem[k]] = 0
           /\ \A i \in 1..Len(wal) : Settled(i) \/ Unstored(i)
<1>1. ASSUME NEW k \in 1..Len(mem), k <= nflush PROVE PartOf[mem[k]] \in todo
  <2>1. k \in 1..nflush
    BY <1>1, Captured
  <2>2. mem[k] \in RowsIn(SubSeq(mem, 1, nflush))
    BY Zenon, <2>1, Captured
  <2> QED
    BY Zenon, <2>2 DEF RowsIn, PartsOf
<1>2. \A k \in 1..Len(mem) : ~PublishedAt(k) /\ disk[mem[k]] = 0
  BY Zenon, <1>1 DEF Once, MemOnce, PublishedAt
<1>3. \A i \in 1..Len(wal) : Settled(i) \/ Unstored(i)
  <2>1. \A r \in RowsIn(mem) : disk[r] = 0
    BY Zenon, <1>2 DEF RowsIn
  <2> QED
    BY Zenon, <2>1 DEF Once, LogOnce, Unstored
<1> QED
  BY Zenon, <1>2, <1>3
\* A batch appends a row.
LEMMA OnceRowAppend ==
    ASSUME TypeInv, UsedInv, Once, NEW r \in Row, RowAppend(r)
    PROVE  Once'
<1> USE DEF durable, table, batch, holder, replay, history, bounds
<1>1. /\ Len(mem) \in Nat /\ Len(mem') = Len(mem) + 1
      /\ \A k \in 1..Len(mem) : mem'[k] = mem[k]
      /\ mem'[Len(mem) + 1] = r
      /\ RowsIn(mem') = RowsIn(mem) \cup {r}
      /\ NoRepeat(mem) /\ r \notin RowsIn(mem) => NoRepeat(mem')
  BY Appended, AppendProperties, OnceTypes DEF RowAppend
<1>2. \A k \in 1..Len(mem') : k \in 1..Len(mem) \/ k = Len(mem) + 1
  BY <1>1
<1>3. /\ r \notin RowsIn(mem) /\ disk[r] = 0
      /\ \A i \in 1..Len(wal) : r \notin RowsIn(wal[i].rows)
  BY OnceTypes DEF RowAppend, UsedInv
<1>4. UNCHANGED <<wal, disk, ckpt, op, pc, todo, nflush, mem_logged, commit_seq,
                  pos, last_complete>> /\ op # "replay"
  BY Zenon DEF RowAppend
<1>5. \A k \in 1..Len(mem) : PublishedAt(k)' <=> PublishedAt(k)
  BY Zenon, <1>1, <1>4 DEF PublishedAt
<1>6. MemOnce'
  BY Zenon, <1>1, <1>2, <1>3, <1>4, <1>5 DEF Once, MemOnce
<1>7. LogOnce'
  BY Zenon, <1>1, <1>4 DEF Once, LogOnce, Settled, Unstored
<1>8. LogMem'
  BY Zenon, <1>1, <1>2, <1>3, <1>4 DEF Once, LogMem
<1>9. FlushOnce'
  <2>1. ASSUME NEW k \in 1..Len(mem'), PublishedAt(k)'
        PROVE  commit_seq' <= ckpt'[PartOf[mem'[k]]]
    <3>1. k <= nflush /\ nflush <= Len(mem) /\ nflush \in Nat
      BY Zenon, <1>4, <2>1, OnceTypes DEF PublishedAt, TypeInv, Control
    <3>2. k \in 1..Len(mem)
      BY <1>1, <3>1
    <3> QED
      BY Zenon, <1>1, <1>4, <1>5, <2>1, <3>2 DEF Once, FlushOnce, PublishedAt
  <2> QED
    BY Zenon, <1>4, <2>1 DEF Once, FlushOnce
<1> QED
  BY Zenon, <1>6, <1>7, <1>8, <1>9 DEF Once

\* The log with the record being written in it holds every row once.
LEMMA TailOnce ==
    ASSUME TypeInv, SeqInv, Once, op = "log", NEW w, w = wal \o wal_tail
    PROVE  /\ Len(w) = Len(wal) + 1 /\ Len(wal) \in Nat
           /\ \A i \in 1..Len(w) : i \in 1..Len(wal) \/ i = Len(wal) + 1
           /\ \A i \in 1..Len(wal) : w[i] = wal[i] /\ i \in 1..Len(w)
           /\ RowsIn(w[Len(wal) + 1].rows)
                  = {mem[k] : k \in (mem_logged + 1)..Len(mem)}
           /\ RowsIn(w[Len(wal) + 1].rows) \subseteq RowsIn(mem)
           /\ \A r \in RowsIn(w[Len(wal) + 1].rows) : disk[r] = 0
           /\ \A i \in 1..Len(w) : NoRepeat(w[i].rows)
           /\ \A i, j \in 1..Len(w) :
                 i # j => RowsIn(w[i].rows) \cap RowsIn(w[j].rows) = {}
<1> DEFINE n == Len(wal) + 1
<1>1. /\ Len(w) = n /\ Len(wal) \in Nat
      /\ \A i \in 1..Len(wal) : w[i] = wal[i]
      /\ RowsIn(w[n].rows) = {mem[k] : k \in (mem_logged + 1)..Len(mem)}
      /\ NoRepeat(w[n].rows)
  BY Zenon, LogWithTail, OnceTypes DEF SeqInv, Once, MemOnce
<1>2. /\ \A i \in 1..Len(w) : i \in 1..Len(wal) \/ i = n
      /\ \A i \in 1..Len(wal) : i \in 1..Len(w)
  BY <1>1
<1>3. \A k \in (mem_logged + 1)..Len(mem) : k \in 1..Len(mem) /\ ~(k <= mem_logged)
  BY OnceTypes
<1>4. RowsIn(w[n].rows) \subseteq RowsIn(mem)
  BY Zenon, <1>1, <1>3 DEF RowsIn
<1>5. pc # "publish"
  BY Zenon DEF TypeInv, Control
<1>6. \A r \in RowsIn(w[n].rows) : disk[r] = 0
  BY Zenon, <1>1, <1>3, <1>5 DEF Once, MemOnce, PublishedAt
<1>7. \A i \in 1..Len(wal) : RowsIn(wal[i].rows) \cap RowsIn(w[n].rows) = {}
  BY Zenon, <1>1, <1>3 DEF Once, LogMem
<1>8. \A i \in 1..Len(w) : NoRepeat(w[i].rows)
  BY Zenon, <1>1, <1>2 DEF Once, LogOnce
<1>9. \A i, j \in 1..Len(w) :
         i # j => RowsIn(w[i].rows) \cap RowsIn(w[j].rows) = {}
  <2> SUFFICES ASSUME NEW i \in 1..Len(w), NEW j \in 1..Len(w), i # j
               PROVE  RowsIn(w[i].rows) \cap RowsIn(w[j].rows) = {}
    BY Zenon
  <2>1. CASE i \in 1..Len(wal) /\ j \in 1..Len(wal)
    BY Zenon, <1>1, <2>1 DEF Once, LogOnce
  <2>2. CASE i \in 1..Len(wal) /\ j = n
    BY Zenon, <1>1, <1>7, <2>2
  <2>3. CASE i = n /\ j \in 1..Len(wal)
    BY Zenon, <1>1, <1>7, <2>3
  <2> QED
    BY Zenon, <1>2, <2>1, <2>2, <2>3
<1> QED
  BY Zenon, <1>1, <1>2, <1>4, <1>6, <1>8, <1>9

\* A redo record is synced.
LEMMA OnceLogSynced ==
    ASSUME TypeInv, SeqInv, Once, LogSynced
    PROVE  Once'
<1> USE DEF durable, table, batch, holder, replay, history, bounds
<1> DEFINE n == Len(wal) + 1
<1>1. /\ op = "log" /\ wal' = wal \o wal_tail /\ UNCHANGED <<mem, disk, ckpt>>
      /\ pc' = "idle" /\ op' = "none" /\ mem_logged' = Len(mem)
      /\ pc # "publish"
  BY Zenon DEF LogSynced, Unlock, TypeInv, Control
<1>2. MemOnce'
  BY Zenon, <1>1 DEF Once, MemOnce, PublishedAt
<1>3. \A i \in 1..Len(wal) : Settled(i)' \/ Unstored(i)'
  BY Zenon, <1>1, TailOnce, NotHalfStored DEF Settled, Unstored
<1>4. LogOnce'
  BY Zenon, <1>1, <1>3, TailOnce DEF LogOnce, Unstored
<1>5. LogMem'
  <2>1. \A i \in 1..Len(wal'), k \in 1..Len(mem) :
          mem[k] \in RowsIn(wal'[i].rows) =>
            RowsIn(wal'[i].rows) \subseteq RowsIn(mem)
    BY Zenon, <1>1, TailOnce DEF Once, LogMem
  <2>2. \A k \in 1..Len(mem) : k <= Len(mem)
    BY OnceTypes
  <2> QED
    BY Zenon, <1>1, <2>1, <2>2 DEF LogMem
<1>6. FlushOnce'
  BY Zenon, <1>1 DEF FlushOnce
<1> QED
  BY Zenon, <1>2, <1>4, <1>5, <1>6 DEF Once

\* A batch is cut off the memtable.
LEMMA OnceBatchDiscard ==
    ASSUME TypeInv, Once, BatchDiscard
    PROVE  Once'
<1> USE DEF durable, table, batch, holder, replay, history, bounds
<1>1. /\ UNCHANGED <<wal, disk, ckpt, op, pc, mem_logged, pos, last_complete>>
      /\ op = "none" /\ pc = "idle"
  BY Zenon DEF BatchDiscard, TypeInv, Control
<1>2. \A i \in 1..Len(wal) : Settled(i) \/ Unstored(i)
  BY Zenon, <1>1, NotHalfStored
<1>3. CASE straddled
  BY Zenon, <1>1, <1>2, <1>3, OnceEmptied DEF BatchDiscard, DiscardTo
<1>4. CASE ~straddled
  <2>1. /\ base_nrows \in 0..Len(mem) /\ mem_logged <= base_nrows
        /\ Len(mem) \in Nat /\ 0 + 1 = 1 /\ 0 \in Nat
    BY <1>4, OnceTypes DEF BatchDiscard, TypeInv, TypeOK, BatchType, Anchored
  <2>2. mem' = SubSeq(mem, 0 + 1, base_nrows)
    BY <1>4, <2>1 DEF BatchDiscard, DiscardTo
  <2>3. /\ Len(mem') = IF 0 < base_nrows THEN base_nrows - 0 ELSE 0
        /\ \A k \in 1..(base_nrows - 0) : mem'[k] = mem[0 + k]
    BY Zenon, <2>1, <2>2, Slice, OnceTypes
  <2>4. NoRepeat(mem')
    BY Zenon, <2>1, <2>2, Sliced, OnceTypes DEF Once, MemOnce
  <2>5. /\ \A k \in 1..Len(mem') : mem'[k] = mem[k] /\ k \in 1..Len(mem)
        /\ \A k \in 1..Len(mem) :
              k <= mem_logged => k \in 1..Len(mem') /\ mem'[k] = mem[k]
    BY <2>1, <2>3, OnceTypes
  <2>6. MemOnce'
    BY Zenon, <1>1, <2>4, <2>5 DEF Once, MemOnce, PublishedAt
  <2>7. LogOnce'
    BY Zenon, <1>1, <1>2 DEF Once, LogOnce, Settled, Unstored
  <2>8. ASSUME NEW i \in 1..Len(wal), NEW k \in 1..Len(mem'),
               mem'[k] \in RowsIn(wal[i].rows)
        PROVE  RowsIn(wal[i].rows) \subseteq RowsIn(mem') /\ k <= mem_logged
    <3>1. RowsIn(wal[i].rows) \subseteq RowsIn(mem) /\ k <= mem_logged
      BY Zenon, <1>1, <2>5, <2>8 DEF Once, LogMem
    <3>2. \A l \in 1..Len(mem) : mem[l] \in RowsIn(wal[i].rows) => l <= mem_logged
      BY Zenon, <1>1 DEF Once, LogMem
    <3>3. \A l \in 1..Len(mem) :
             mem[l] \in RowsIn(wal[i].rows) => mem[l] \in RowsIn(mem')
      BY Zenon, <3>2, <2>5 DEF RowsIn
    <3>4. \A r \in RowsIn(mem) : \E l \in 1..Len(mem) : mem[l] = r
      BY Zenon DEF RowsIn
    <3> QED
      BY Zenon, <3>1, <3>3, <3>4
  <2>9. LogMem'
    BY Zenon, <1>1, <2>8 DEF LogMem
  <2>10. FlushOnce'
    BY Zenon, <1>1 DEF FlushOnce
  <2> QED
    BY Zenon, <2>6, <2>7, <2>9, <2>10 DEF Once
<1> QED
  BY Zenon, <1>3, <1>4
\* A flush starts.
LEMMA OnceFlushStart ==
    ASSUME TypeInv, Once, FlushStart
    PROVE  Once'
<1> USE DEF durable, table, batch, holder, replay, history, bounds
<1>1. /\ UNCHANGED <<mem, wal, disk, ckpt, op, mem_logged, commit_seq, pos>>
      /\ last_complete' = last_complete
      /\ pc = "flush" /\ nflush' = Len(mem) /\ todo' = PartsOf(mem)
  BY Zenon DEF FlushStart
<1>2. \A k \in 1..Len(mem) : ~PublishedAt(k)'
  BY Zenon, <1>1 DEF PublishedAt, PartsOf
<1>3. mem_logged <= Len(mem)
  BY OnceTypes
<1>4. MemOnce' /\ FlushOnce'
  BY Zenon, <1>1, <1>2, <1>3 DEF Once, MemOnce, FlushOnce, PublishedAt
<1>5. LogOnce' /\ LogMem'
  BY Zenon, <1>1 DEF Once, LogOnce, LogMem, Settled, Unstored
<1> QED
  BY Zenon, <1>4, <1>5 DEF Once

\* A flush publishes one partition and stamps its checkpoint.
LEMMA OnceFlushPublish ==
    ASSUME TypeInv, Once, NEW p \in Part, FlushPublish(p)
    PROVE  Once'
<1> USE DEF durable, table, batch, holder, replay, history, bounds
<1> DEFINE cap == SubSeq(mem, 1, nflush)
<1>1. /\ UNCHANGED <<mem, wal, op, pc, nflush, mem_logged, commit_seq, pos>>
      /\ last_complete' = last_complete
      /\ pc = "publish" /\ p \in todo /\ todo' = todo \ {p}
  BY Zenon DEF FlushPublish, NextPart
<1>2. \A r \in Row : disk'[r] = IF PartOf[r] = p
                                THEN disk[r] + Occurrences(cap, r) ELSE disk[r]
  BY Zenon DEF FlushPublish
<1>3. \A q \in Part : ckpt'[q] = IF q = p THEN Max2(ckpt[p], commit_seq) ELSE ckpt[q]
  BY Zenon DEF FlushPublish, Stamp, TypeInv, TypeOK, DurableType
<1>4. /\ \A q \in Part : ckpt'[q] \in Nat /\ ckpt[q] <= ckpt'[q]
      /\ commit_seq <= ckpt'[p]
  <2>1. (\A q \in Part : ckpt[q] \in Nat) /\ commit_seq \in Nat
    BY Zenon, OnceTypes
  <2> QED
    BY <1>3, <2>1 DEF Max2
<1>5. \A r \in Row : Occurrences(cap, r) = IF r \in RowsIn(cap) THEN 1 ELSE 0
  BY Zenon, <1>1, Captured, OccurrencesOnce DEF Once, MemOnce
<1>6. ASSUME NEW k \in 1..Len(mem)
      PROVE  mem[k] \in RowsIn(cap) <=> k <= nflush
  <2>1. k <= nflush <=> k \in 1..nflush
    BY <1>1, Captured
  <2>2. \A l \in 1..nflush : mem[l] = mem[k] => l = k
    BY Zenon, <1>1, Captured DEF Once, MemOnce, NoRepeat
  <2> QED
    BY Zenon, <1>1, <2>1, <2>2, Captured
<1>7. \A k \in 1..Len(mem) :
         PublishedAt(k)' <=> PublishedAt(k) \/ (k <= nflush /\ PartOf[mem[k]] = p)
  BY Zenon, <1>1 DEF PublishedAt
<1>8. ASSUME NEW r \in Row
      PROVE  \/ disk'[r] = disk[r] /\ ~(r \in RowsIn(cap) /\ PartOf[r] = p)
             \/ /\ disk'[r] = 1 /\ disk[r] = 0 /\ r \in RowsIn(cap) /\ PartOf[r] = p
                /\ r \in RowsIn(mem)
  <2>1. CASE r \in RowsIn(cap) /\ PartOf[r] = p
    <3>1. PICK k \in 1..nflush : mem[k] = r /\ k \in 1..Len(mem)
      BY Zenon, <1>1, <2>1, Captured
    <3>2. disk[r] = 0
      BY Zenon, <1>1, <2>1, <3>1 DEF Once, MemOnce, PublishedAt
    <3>3. disk'[r] = 1
      BY <1>2, <1>5, <2>1, <3>2
    <3> QED
      BY Zenon, <2>1, <3>1, <3>2, <3>3 DEF RowsIn
  <2>2. CASE ~(r \in RowsIn(cap) /\ PartOf[r] = p)
    BY <1>2, <1>5, <2>2, OnceTypes
  <2> QED
    BY Zenon, <2>1, <2>2
<1> HIDE DEF cap
<1>9. MemOnce'
  <2>1. \A r \in Row : disk'[r] <= 1
    BY <1>8, OnceTypes DEF Once, MemOnce
  <2>2. \A k \in 1..Len(mem) : PublishedAt(k)' \/ disk'[mem[k]] = 0
    BY Zenon, <1>6, <1>7, <1>8, OnceTypes DEF Once, MemOnce
  <2> QED
    BY Zenon, <1>1, <2>1, <2>2 DEF Once, MemOnce
<1>10. LogOnce'
  <2>1. ASSUME NEW i \in 1..Len(wal)
        PROVE  Settled(i)' \/ Unstored(i)' \/ RowsIn(wal[i].rows) \subseteq RowsIn(mem)
    <3>1. CASE Settled(i)
      <4>1. ASSUME NEW r \in RowsIn(wal[i].rows) PROVE wal[i].seq <= ckpt'[PartOf[r]]
        <5>1. /\ wal[i].seq <= ckpt[PartOf[r]] /\ r \in Row /\ PartOf[r] \in Part
              /\ wal[i].seq \in Nat /\ ckpt[PartOf[r]] \in Nat
          BY Zenon, <3>1, OnceTypes DEF Settled
        <5> QED
          BY <5>1, <1>4
      <4> QED
        BY Zenon, <1>1, <4>1 DEF Settled
    <3>2. CASE Unstored(i) /\ ~Unstored(i)'
      <4>1. PICK r \in RowsIn(wal[i].rows) : disk'[r] # 0
        BY Zenon, <1>1, <3>2 DEF Unstored
      <4>2. r \in RowsIn(mem)
        BY Zenon, <1>8, <3>2, <4>1, OnceTypes DEF Unstored
      <4>3. PICK k \in 1..Len(mem) : mem[k] = r
        BY Zenon, <4>2 DEF RowsIn
      <4> QED
        BY Zenon, <4>1, <4>3 DEF Once, LogMem
    <3> QED
      BY Zenon, <3>1, <3>2 DEF Once, LogOnce
  <2> QED
    BY Zenon, <1>1, <2>1 DEF Once, LogOnce
<1>11. LogMem'
  BY Zenon, <1>1 DEF Once, LogMem
<1>12. FlushOnce'
  <2>1. ASSUME NEW k \in 1..Len(mem), PublishedAt(k)'
        PROVE  commit_seq <= ckpt'[PartOf[mem[k]]]
    <3>1. PartOf[mem[k]] \in Part
      BY Zenon, OnceTypes
    <3>2. PartOf[mem[k]] # p => commit_seq <= ckpt[PartOf[mem[k]]]
      BY Zenon, <1>1, <1>7, <2>1 DEF Once, FlushOnce
    <3> QED
      BY <3>1, <3>2, <1>3, <1>4
  <2> QED
    BY Zenon, <1>1, <2>1 DEF Once, FlushOnce
<1> QED
  BY Zenon, <1>9, <1>10, <1>11, <1>12 DEF Once
\* A partition is removed whose checkpoint settles no record of the log.
LEMMA OnceRemovePart ==
    ASSUME TypeInv, Once, NEW p \in Part, RemovePart(p), ~Orphans(p)
    PROVE  Once'
<1> USE DEF durable, table, batch, holder, replay, history, bounds
<1>1. /\ UNCHANGED <<mem, wal, op, pc, nflush, mem_logged, commit_seq, pos>>
      /\ last_complete' = last_complete /\ pc = "remove"
  BY Zenon DEF RemovePart
<1>2. \A r \in Row : disk'[r] \in {0, disk[r]}
  BY Zenon DEF RemovePart
<1>3. \A q \in Part : q # p => ckpt'[q] = ckpt[q]
  BY Zenon DEF RemovePart, TypeInv, TypeOK, DurableType
<1>4. MemOnce'
  <2>1. \A r \in Row : disk'[r] <= 1
    BY <1>2 DEF Once, MemOnce
  <2> QED
    BY Zenon, <1>1, <1>2, <2>1, OnceTypes DEF Once, MemOnce, PublishedAt
<1>5. ASSUME NEW i \in 1..Len(wal), Unstored(i) PROVE Unstored(i)'
  BY Zenon, <1>1, <1>2, <1>5, OnceTypes DEF Unstored
<1>6. ASSUME NEW i \in 1..Len(wal), Settled(i), NEW r \in RowsIn(wal[i].rows)
      PROVE  wal[i].seq <= ckpt'[PartOf[r]]
  <2>1. r \in Row /\ PartOf[r] \in Part /\ wal[i].seq <= ckpt[PartOf[r]]
    BY Zenon, <1>6, OnceTypes DEF Settled
  <2>2. PartOf[r] \in PartsOf(wal[i].rows)
    BY Zenon DEF RowsIn, PartsOf
  <2>3. PartOf[r] # p
    BY Zenon, <2>1, <2>2 DEF Orphans
  <2> QED
    BY Zenon, <1>3, <2>1, <2>3
<1>7. \A i \in 1..Len(wal) : Settled(i)' \/ Unstored(i)'
  BY Zenon, <1>1, <1>5, <1>6, NotHalfStored DEF Settled
<1>8. LogOnce' /\ LogMem' /\ FlushOnce'
  BY Zenon, <1>1, <1>7 DEF Once, LogOnce, LogMem, FlushOnce
<1> QED
  BY Zenon, <1>4, <1>8 DEF Once

\* Anti-entropy empties a table that looks empty.
LEMMA OnceTruncateIfEmpty ==
    ASSUME TypeInv, Once, TruncateIfEmpty
    PROVE  Once'
<1> USE DEF durable, table, batch, holder, replay, history, bounds
<1>1. /\ UNCHANGED <<mem, disk, op, pc, commit_seq, pos, last_complete>>
      /\ mem = <<>> /\ op = "none" /\ pc = "idle" /\ wal' \in {wal, <<>>}
      /\ \A r \in Row : disk[r] = 0
  BY Zenon DEF TruncateIfEmpty, WalTruncate, LooksEmpty, TypeInv, Control
<1>2. /\ \A i \in 1..Len(wal') : wal' = wal /\ i \in 1..Len(wal)
      /\ \A k \in 1..Len(mem') : FALSE
  BY <1>1, NoRows
<1>3. MemOnce' /\ LogMem' /\ FlushOnce'
  BY Zenon, <1>1, <1>2 DEF Once, MemOnce, LogMem, FlushOnce, NoRepeat
<1>4. \A i \in 1..Len(wal') : Unstored(i)'
  BY Zenon, <1>1, <1>2, OnceTypes DEF Unstored
<1>5. LogOnce'
  BY Zenon, <1>2, <1>4 DEF Once, LogOnce
<1> QED
  BY Zenon, <1>3, <1>5 DEF Once

\* A crash, with or without the record being written.
LEMMA OnceCrash ==
    ASSUME TypeInv, SeqInv, Once, Crash, Clean'
    PROVE  Once'
<1> USE DEF durable, table, batch, holder, replay, history, bounds
<1>1. UNCHANGED <<disk, ckpt>> /\ mem' = <<>> /\ pc' = "idle" /\ op' = "down"
  BY Zenon DEF Crash, MemoryLost
<1>2. ~PartlyPublished
  BY Zenon DEF Crash, Mishaps, Clean
<1>3. \A i \in 1..Len(wal) : Settled(i) \/ Unstored(i)
  <2>1. CASE pc # "publish"
    BY Zenon, <2>1, NotHalfStored
  <2>2. CASE pc = "publish" /\ todo = {}
    BY Zenon, <2>2, AllPublished
  <2>3. CASE pc = "publish" /\ todo = PartsOf(SubSeq(mem, 1, nflush))
    BY Zenon, <2>3, NonePublished
  <2> QED
    BY Zenon, <1>2, <2>1, <2>2, <2>3 DEF PartlyPublished
<1>4. CASE wal' = wal
  BY Zenon, <1>1, <1>3, <1>4, OnceEmptied
<1>5. CASE wal' = wal \o wal_tail /\ op = "log"
  <2>1. \A k \in 1..Len(mem') : FALSE
    BY <1>1, NoRows
  <2>2. MemOnce' /\ LogMem' /\ FlushOnce'
    BY Zenon, <1>1, <2>1 DEF Once, MemOnce, LogMem, FlushOnce, NoRepeat
  <2>3. \A i \in 1..Len(wal) : Settled(i)' \/ Unstored(i)'
    BY Zenon, <1>1, <1>3, <1>5, TailOnce DEF Settled, Unstored
  <2>4. LogOnce'
    BY Zenon, <1>1, <1>5, <2>3, TailOnce DEF LogOnce, Unstored
  <2> QED
    BY Zenon, <2>2, <2>4 DEF Once
<1>6. CASE wal' = wal \o wal_tail /\ op # "log"
  <2>1. wal \o wal_tail = wal
    BY <1>6, OnceTypes DEF SeqInv, TailInv
  <2> QED
    BY Zenon, <1>4, <1>6, <2>1
<1> QED
  BY Zenon, <1>4, <1>5, <1>6 DEF Crash

\* The table is opened and its replay starts.
LEMMA OnceOpen ==
    ASSUME TypeInv, SeqInv, Once, Open
    PROVE  Once'
<1> USE DEF durable, table, batch, holder, replay, history, bounds
<1>1. /\ UNCHANGED <<mem, wal, disk, ckpt>> /\ op = "down" /\ pc = "idle"
      /\ pc' = "scan" /\ mem = <<>>
  BY Zenon DEF Open, Lock, TypeInv, Control, SeqInv, ReplaySeqInv
<1>2. \A k \in 1..Len(mem) : FALSE
  BY <1>1, NoRows
<1> QED
  BY Zenon, <1>1, <1>2 DEF Once, MemOnce, LogOnce, LogMem, FlushOnce,
      PublishedAt, Settled, Unstored

\* A replay applies a record: none of its rows is stored.
LEMMA OnceReplayApply ==
    ASSUME TypeInv, SeqInv, Once, ReplayApply
    PROVE  Once'
<1> USE DEF durable, table, batch, holder, replay, history, bounds
<1>1. /\ UNCHANGED <<wal, disk, ckpt, op, pc, commit_seq, mem_logged>>
      /\ op = "replay" /\ pc = "scan" /\ ~Covered(wal[pos]) /\ Walkable(wal[pos])
      /\ mem' = mem \o wal[pos].rows /\ last_complete' = wal[pos].seq
      /\ pos' = pos + 1
  BY Zenon DEF ReplayApply, Scanning, MustApply
<1>2. pos \in 1..Len(wal) /\ pos \in pos..Len(wal) /\ pos \in Nat
  BY DEF ReplayApply, MustApply, TypeInv, TypeOK, ReplayType
<1>3. Unstored(pos)
  <2>1. PICK l \in 1..Len(wal[pos].rows) :
           ~(wal[pos].seq <= cpmap[PartOf[wal[pos].rows[l]]])
    BY Zenon, <1>1 DEF Covered
  <2>2. PICK r \in RowsIn(wal[pos].rows) : r = wal[pos].rows[l]
    BY Zenon DEF RowsIn
  <2>3. /\ r \in Row /\ PartOf[r] \in Part /\ wal[pos].seq \in Nat
        /\ ckpt[PartOf[r]] \in Nat /\ cpmap[PartOf[r]] \in Nat
        /\ commit_seq \in Nat
    BY Zenon, <1>2, OnceTypes
  <2>4. /\ wal[pos].seq > commit_seq
        /\ ckpt[PartOf[r]] <= cpmap[PartOf[r]] \/ ckpt[PartOf[r]] <= commit_seq
    BY Zenon, <1>1, <1>2, <2>3 DEF SeqInv, ReplaySeqInv
  <2>5. ~(wal[pos].seq <= ckpt[PartOf[r]])
    BY <2>1, <2>2, <2>3, <2>4
  <2>6. ~Settled(pos)
    BY Zenon, <2>2, <2>5 DEF Settled
  <2> QED
    BY Zenon, <1>1, <1>2, <2>6, NotHalfStored
<1>4. RowsIn(mem) \cap RowsIn(wal[pos].rows) = {}
  <2>1. ~(pos < pos)
    BY <1>2
  <2>2. \A k \in 1..Len(mem) : mem[k] \notin RowsIn(wal[pos].rows)
    BY Zenon, <1>1, <1>2, <2>1 DEF Once, LogMem
  <2> QED
    BY Zenon, <2>2 DEF RowsIn
<1>5. /\ RowsIn(mem') = RowsIn(mem) \cup RowsIn(wal[pos].rows)
      /\ NoRepeat(mem')
  BY Zenon, <1>1, <1>2, <1>4, Joined, OnceTypes DEF Once, MemOnce, LogOnce
<1>6. MemOnce'
  <2>1. \A r \in RowsIn(mem') : disk[r] = 0
    <3>1. \A r \in RowsIn(mem) : disk[r] = 0
      BY Zenon, <1>1 DEF Once, MemOnce, PublishedAt, RowsIn
    <3> QED
      BY Zenon, <1>3, <1>5, <3>1 DEF Unstored
  <2>2. \A k \in 1..Len(mem') : disk[mem'[k]] = 0
    BY Zenon, <2>1 DEF RowsIn
  <2> QED
    BY Zenon, <1>1, <1>5, <2>2 DEF Once, MemOnce
<1>7. LogOnce'
  BY Zenon, <1>1, NotHalfStored DEF Once, LogOnce, Settled, Unstored
<1>8. LogMem'
  <2> SUFFICES ASSUME NEW i \in 1..Len(wal), NEW k \in 1..Len(mem'),
                      mem'[k] \in RowsIn(wal[i].rows)
               PROVE  /\ RowsIn(wal[i].rows) \subseteq RowsIn(mem')
                      /\ i < pos' /\ wal[i].seq <= last_complete'
    BY Zenon, <1>1 DEF LogMem
  <2>1. mem'[k] \in RowsIn(mem')
    BY Zenon DEF RowsIn
  <2>2. CASE mem'[k] \in RowsIn(mem)
    <3>1. PICK l \in 1..Len(mem) : mem[l] = mem'[k]
      BY Zenon, <2>2 DEF RowsIn
    <3>2. RowsIn(wal[i].rows) \subseteq RowsIn(mem) /\ i < pos
      BY Zenon, <1>1, <3>1 DEF Once, LogMem
    <3>3. wal[i].seq < wal[pos].seq
      BY Zenon, <1>2, <3>2 DEF SeqInv, LogInv
    <3>4. wal[i].seq \in Nat /\ wal[pos].seq \in Nat
      BY Zenon, <1>2, OnceTypes
    <3>5. i < pos + 1 /\ wal[i].seq <= wal[pos].seq
      BY <1>2, <3>2, <3>3, <3>4
    <3> QED
      BY Zenon, <1>1, <1>5, <3>2, <3>5
  <2>3. CASE mem'[k] \in RowsIn(wal[pos].rows)
    <3>1. i = pos
      BY Zenon, <1>2, <2>3 DEF Once, LogOnce
    <3>2. i < pos + 1 /\ wal[i].seq <= wal[pos].seq
      BY <1>2, <3>1, OnceTypes
    <3> QED
      BY Zenon, <1>1, <1>5, <3>1, <3>2
  <2> QED
    BY Zenon, <1>5, <2>1, <2>2, <2>3
<1>9. FlushOnce'
  BY Zenon, <1>1 DEF FlushOnce
<1> QED
  BY Zenon, <1>6, <1>7, <1>8, <1>9 DEF Once

\* A replay ends: the table takes the rows in the memtable as logged.
LEMMA OnceRecoveryEnds ==
    ASSUME TypeInv, Once, RecoveryEnds, pc # "publish"
    PROVE  Once'
<1> USE DEF durable, table, batch, holder, replay, history, bounds
<1>1. /\ UNCHANGED <<mem, wal, disk, ckpt>> /\ pc' = "idle" /\ op' = "none"
      /\ mem_logged' = Len(mem)
  BY Zenon DEF RecoveryEnds, Unlock
<1>2. \A k \in 1..Len(mem) : k <= Len(mem)
  BY OnceTypes
<1> QED
  BY Zenon, <1>1, <1>2 DEF Once, MemOnce, LogOnce, LogMem, FlushOnce,
      PublishedAt, Settled, Unstored

\* No step stores a row twice, as long as nothing is torn or orphaned.
LEMMA OnceStep ==
    ASSUME TypeInv, SeqInv, UsedInv, Once, [Next]_vars, Clean'
    PROVE  Once'
<1> USE DEF durable, table, batch, holder, replay, history, bounds
<1>1. CASE BatchBegin \/ BatchRetain \/ UNCHANGED vars
  BY Zenon, <1>1, OnceStill DEF BatchBegin, BatchRetain, vars
<1>2. CASE \/ RowFlush \/ BulkFlush \/ LogFailed \/ CommitFlush
           \/ CommitFlushed \/ BatchFlushed
  BY Zenon, <1>2, OnceFrame DEF RowFlush, BulkFlush, LogFailed, CommitFlush,
      CommitFlushed, BatchFlushed, Lock, Unlock, TypeInv, Control
<1>3. CASE CommitLog
  <2>1. CASE UNCHANGED <<op, pc>>
    BY Zenon, <1>3, <2>1, OnceStill DEF CommitLog
  <2>2. CASE Lock("log", "sync")
    BY Zenon, <1>3, <2>2, OnceFrame DEF CommitLog, Lock, TypeInv, Control
  <2> QED
    BY Zenon, <1>3, <2>1, <2>2 DEF CommitLog
<1>4. CASE \/ FlushEmptyOrFrozen \/ MaintFlush \/ AlterAddColumn
           \/ FlushedAndDone \/ DeleteRange \/ DeleteFlushed \/ RemoveDone
           \/ Close
  BY Zenon, <1>4, OnceFrame DEF FlushEmptyOrFrozen, FlushReturns, MaintFlush,
      AlterAddColumn, FlushedAndDone, DeleteRange, DeleteFlushed, RemoveDone,
      Close, Lock, Unlock, TypeInv, Control
<1>5. CASE ReplaySkip \/ ReplayFlushed
  BY Zenon, <1>5, OnceFrame DEF ReplaySkip, ReplayFlushed, Scanning
<1>6. CASE ReplayFlush
  <2>1. last_complete <= commit_seq'
    <3>1. commit_seq' = Max2(last_complete, commit_seq)
      BY Zenon, <1>6 DEF ReplayFlush
    <3>2. last_complete \in Nat /\ commit_seq \in Nat
      BY Zenon, OnceTypes
    <3> QED
      BY <3>1, <3>2 DEF Max2
  <2> QED
    BY Zenon, <1>6, <2>1, OnceFrame DEF ReplayFlush, Scanning
<1>7. CASE FlushSkipLocal
  BY Zenon, <1>7, OnceEmptied, NotHalfStored DEF FlushSkipLocal, FlushReturns,
      MemtableDrained, TruncateLog, WalTruncateIfSafe
<1>8. CASE FlushFail
  <2>1. todo = PartsOf(SubSeq(mem, 1, nflush)) /\ pc = "publish" /\ pc' = "ret"
    BY Zenon, <1>8 DEF FlushFail, FlushReturns, Mishaps, Clean, PartlyPublished
  <2>2. MemOnce' /\ LogOnce'
    BY Zenon, <1>8, <2>1, NonePublished DEF FlushFail, Once, MemOnce, LogOnce,
        Settled, Unstored
  <2>3. LogMem' /\ FlushOnce'
    BY Zenon, <1>8, <2>1 DEF FlushFail, Once, LogMem, FlushOnce
  <2> QED
    BY Zenon, <2>2, <2>3 DEF Once
<1>9. CASE FlushFinish
  BY Zenon, <1>9, OnceEmptied, AllPublished DEF FlushFinish, FlushReturns,
      MemtableDrained, TruncateLog, WalTruncateIfSafe
<1>10. CASE TruncateTable
  BY Zenon, <1>10, OnceEmptied, NotHalfStored DEF TruncateTable, WalTruncate,
      Lock, TypeInv, Control
<1>11. ASSUME NEW p \in Part, RemovePart(p) PROVE Once'
  <2>1. ~Orphans(p)
    BY Zenon, <1>11 DEF RemovePart, Mishaps, Clean
  <2> QED
    BY Zenon, <1>11, <2>1, OnceRemovePart
<1>12. CASE Closed
  BY Zenon, <1>12, OnceEmptied, NotHalfStored DEF Closed, MemoryLost
<1>13. CASE ReplayDone \/ ReplayAbort
  BY Zenon, <1>13, OnceRecoveryEnds DEF ReplayDone, ReplayAbort, Scanning
<1> QED
  BY Zenon, <1>1, <1>2, <1>3, <1>4, <1>5, <1>6, <1>7, <1>8, <1>9, <1>10, <1>11,
      <1>12, <1>13, OnceRowAppend, OnceLogSynced, OnceBatchDiscard,
      OnceFlushStart, OnceFlushPublish, OnceTruncateIfEmpty, OnceCrash, OnceOpen,
      OnceReplayApply DEF Next

\* The invariant of the next theorem holds of a fresh table.
LEMMA OnceInit == Init => OnceInv
<1> SUFFICES ASSUME Init PROVE OnceInv
  OBVIOUS
<1>1. /\ mem = <<>> /\ wal = <<>> /\ pc = "idle"
      /\ \A r \in Row : disk[r] = 0
  BY Zenon DEF Init
<1>2. /\ \A k \in 1..Len(mem) : FALSE
      /\ \A i \in 1..Len(wal) : FALSE
      /\ \A r \in Row : ~(disk[r] > 0) /\ disk[r] <= 1
  BY <1>1, NoRows
<1>3. RowsIn(mem) = {}
  BY Zenon, <1>2 DEF RowsIn
<1>4. UsedInv
  BY Zenon, <1>2, <1>3 DEF UsedInv
<1>5. Once
  BY Zenon, <1>1, <1>2 DEF Once, MemOnce, LogOnce, LogMem, FlushOnce, NoRepeat
<1> QED
  BY Zenon, <1>4, <1>5, TypeInit, SeqInit DEF OnceInv

\* Between operations no row is stored twice, in the memtable and the
\* partitions together, for any rows, partitions and faults, and even when
\* DELETE overlaps batches: unless a flush was cut short half way or a
\* partition was removed under a record it settled (flush_and_clear_locked,
\* redo_recover_table).
THEOREM StoredOnceHolds == Spec => []StoredOnce
<1>1. OnceInv /\ [Next]_vars => OnceInv'
  BY Zenon, TypeStep, SeqStep, UsedStep, OnceStep, MishapsKept DEF OnceInv,
      Clean
<1>2. OnceInv => StoredOnce
  <2> SUFFICES ASSUME OnceInv, op \in {"none", "down"}, Clean, NEW r \in Row
               PROVE  disk[r] + Occurrences(mem, r) <= 1
    BY Zenon DEF StoredOnce, Clean
  <2>1. pc # "publish"
    BY Zenon DEF OnceInv, TypeInv, Control
  <2>2. disk[r] <= 1 /\ (r \in RowsIn(mem) => disk[r] = 0)
    BY Zenon, <2>1 DEF OnceInv, Once, MemOnce, PublishedAt, RowsIn
  <2>3. Occurrences(mem, r) = IF r \in RowsIn(mem) THEN 1 ELSE 0
    BY Zenon, OccurrencesOnce, OnceTypes DEF OnceInv, Once, MemOnce
  <2>4. disk[r] \in Nat
    BY Zenon, OnceTypes DEF OnceInv
  <2> QED
    BY <2>2, <2>3, <2>4
<1> QED
  BY OnceInit, <1>1, <1>2, PTL DEF Spec

=============================================================================
