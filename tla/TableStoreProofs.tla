-------------------------- MODULE TableStoreProofs --------------------------
(***************************************************************************)
(* Proofs about TableStore, for every set of rows and partitions and every *)
(* capacity and bound: types, who may hold what when, that no commit       *)
(* sequence a record or a checkpoint holds is used again, and that a       *)
(* frozen table keeps its log.  AckedRowsProofs and StoredOnceProofs build *)
(* on them.                                                                *)
(***************************************************************************)
EXTENDS TableStore, SequenceTheorems, FiniteSetTheorems, TLAPS

-----------------------------------------------------------------------------
(* The inductive invariant.                                                *)

\* Which operations run inside a batch, and which exclude batches.
InBatch  == {"row", "bulk", "commit", "log"}
NoBatch  == {"down", "maint", "alter", "truncate", "close", "replay"}
Flushers == {"row", "bulk", "commit", "maint", "alter", "delete", "close",
             "replay"}

\* Who may be where.
Control ==
    /\ op \in {"none", "down"} <=> pc = "idle"
    /\ op = "log" <=> pc = "sync"
    /\ pc \in {"flush", "publish", "ret"} => op \in Flushers
    /\ pc = "scan" => op = "replay"
    /\ pc = "remove" => op \in {"delete", "truncate"}
    /\ op \in InBatch => bpc = "open"
    /\ op \in NoBatch => bpc = "none"
    /\ op \in {"down", "replay"} => ~wal_incomplete
    /\ pc = "publish" => ~wal_incomplete /\ nflush <= Len(mem)
    /\ bpc = "none" => brows = {}
    /\ pc = "ret" /\ rc = "ok" /\ op # "delete" => mem = <<>>

\* The rows a discard would cut off are the batch's own and no record covers
\* them.
Anchored ==
    bpc # "none" =>
        /\ straddled => mem_logged = 0
        /\ ~straddled => mem_logged <= base_nrows /\ base_nrows <= Len(mem)

TypeInv == TypeOK /\ Control /\ Anchored

-----------------------------------------------------------------------------
(* Types.                                                                  *)

\* The copies of a row in a sequence are a natural number, positive iff the row
\* is there.
LEMMA OccurrencesType ==
    ASSUME NEW s \in Seq(Row), NEW r
    PROVE  /\ Occurrences(s, r) \in Nat
           /\ r \in RowsIn(s) => Occurrences(s, r) > 0
<1> DEFINE C == {i \in 1..Len(s) : s[i] = r}
<1>1. IsFiniteSet(C)
  BY FS_Interval, FS_Subset, 0 \in Int, Len(s) \in Int
<1>2. Cardinality(C) \in Nat
  BY Zenon, <1>1, FS_CardinalityType
<1>3. r \in RowsIn(s) => C # {}
  BY Zenon DEF RowsIn
<1>4. C # {} => Cardinality(C) # 0
  BY Zenon, <1>1, FS_EmptySet
<1> QED
  BY <1>2, <1>3, <1>4 DEF Occurrences

\* The empty sequence is a memtable and a log, of length 0.
LEMMA NoRows ==
    <<>> \in Seq(Record) /\ <<>> \in Seq(Row) /\ Len(<<>>) = 0
  OBVIOUS

\* The rows of a sequence land in partitions.
LEMMA PartOfType ==
    ASSUME NEW s \in Seq(Row)
    PROVE  PartsOf(s) \subseteq Part /\ RowsIn(s) \subseteq Row
<1>1. \A i \in 1..Len(s) : s[i] \in Row
  BY Zenon, ElementOfSeq
<1> QED
  BY Zenon, <1>1, RowAssumption DEF PartsOf, RowsIn

\* A slice of the memtable is a sequence of rows.
LEMMA Slice ==
    ASSUME NEW s \in Seq(Row), NEW m \in Nat, NEW n \in 0..Len(s)
    PROVE  /\ SubSeq(s, m + 1, n) \in Seq(Row)
           /\ Len(SubSeq(s, m + 1, n)) = IF m < n THEN n - m ELSE 0
           /\ \A i \in 1..(n - m) : SubSeq(s, m + 1, n)[i] = s[m + i]
<1>1. \A i \in (m + 1)..n : s[i] \in Row
  BY ElementOfSeq
<1> HIDE DEF SubSeq
<1>2. /\ SubSeq(s, m + 1, n) \in Seq(Row)
      /\ Len(SubSeq(s, m + 1, n)) = IF m + 1 <= n THEN n - (m + 1) + 1 ELSE 0
      /\ \A i \in 1..(n - (m + 1) + 1) : SubSeq(s, m + 1, n)[i] = s[m + 1 + i - 1]
  BY <1>1, SubSeqProperties, m + 1 \in Int, n \in Int
<1> QED
  BY <1>2

\* The fields of the log's records have their types.
LEMMA RecordType ==
    TypeOK => \A i \in 1..Len(wal) :
                /\ wal[i] \in Record
                /\ wal[i].seq \in Nat /\ wal[i].ncols \in Nat
                /\ wal[i].rows \in Seq(Row)
<1>1. TypeOK => \A i \in 1..Len(wal) : wal[i] \in Record
  BY Zenon, ElementOfSeq DEF TypeOK, DurableType
<1> QED
  BY Zenon, <1>1 DEF Record

\* Recovery picks commit_seq among natural numbers.
LEMMA SeqsSeenType == TypeOK => SeqsSeen \subseteq Nat
  BY Zenon, RecordType DEF SeqsSeen, TypeOK, TableType, ReplayType

\* The inductive type invariant holds of a fresh table.
LEMMA TypeInit == Init => TypeInv
<1> SUFFICES ASSUME Init PROVE TypeInv
  OBVIOUS
<1>1. FlagType
  BY Zenon DEF Init, FlagType
<1>2. DurableType /\ TableType /\ BatchType
  BY NoRows DEF Init, DurableType, TableType, BatchType
<1>3. HolderType /\ ReplayType /\ HistoryType
  BY NoRows DEF Init, HolderType, ReplayType, HistoryType, Op, Mishap
<1>4. Control /\ Anchored
  BY Zenon DEF Init, Control, Anchored, InBatch, NoBatch, Flushers
<1> QED
  BY Zenon, <1>1, <1>2, <1>3, <1>4 DEF TypeInv, TypeOK

\* Every step preserves the inductive type invariant.
LEMMA TypeStep == TypeInv /\ [Next]_vars => TypeInv'
<1> SUFFICES ASSUME TypeInv, [Next]_vars PROVE TypeInv'
  OBVIOUS
<1> USE DEF durable, table, batch, holder, replay, history, bounds
<1>1. CASE BatchBegin
  <2>1. FlagType'
    BY Zenon, <1>1 DEF BatchBegin, BatchMuFree, TypeInv, TypeOK, FlagType
  <2>2. DurableType' /\ TableType' /\ BatchType' /\ HolderType'
    BY <1>1 DEF BatchBegin, BatchMuFree, TypeInv, TypeOK, DurableType,
        TableType, BatchType, HolderType, Op
  <2>3. ReplayType' /\ HistoryType'
    BY Zenon, <1>1 DEF BatchBegin, BatchMuFree, TypeInv, TypeOK, TableType,
        BatchType, ReplayType, HistoryType, Mishap
  <2>4. Control' /\ Anchored'
    BY <1>1 DEF BatchBegin, BatchMuFree, TypeInv, TypeOK, HolderType,
        BatchType, TableType, Control, Anchored, InBatch, NoBatch, Flushers
  <2> QED
    BY Zenon, <2>1, <2>2, <2>3, <2>4 DEF TypeInv, TypeOK
<1>2. ASSUME NEW r \in Row, RowAppend(r) PROVE TypeInv'
  BY <1>2 DEF RowAppend, TypeInv, TypeOK, FlagType, DurableType, TableType,
      BatchType, HolderType, ReplayType, HistoryType, Op, Record, Mishap,
      Control, Anchored, InBatch, NoBatch, Flushers
<1>3. CASE RowFlush
  BY Zenon, <1>3 DEF RowFlush, Lock, TypeInv, TypeOK, FlagType, DurableType,
      TableType, BatchType, HolderType, ReplayType, HistoryType, Op, Record,
      Mishap, Control, Anchored, InBatch, NoBatch, Flushers
<1>4. CASE BulkFlush
  BY Zenon, <1>4, NoRows DEF BulkFlush, Lock, TypeInv, TypeOK, FlagType,
      DurableType, TableType, BatchType, HolderType, ReplayType, HistoryType,
      Op, Record, Mishap, Control, Anchored, InBatch, NoBatch, Flushers
<1>5. CASE CommitLog
  <2>1. FlagType'
    BY Zenon, <1>5 DEF CommitLog, Lock, BatchAck, BatchFreed, BatchFails,
        TypeInv, TypeOK, FlagType
  <2>2. BatchType'
    BY <1>5 DEF CommitLog, Lock, BatchAck, BatchFreed, BatchFails, TypeInv,
        TypeOK, BatchType, TableType
  <2>3. HolderType'
    <3>1. SubSeq(mem, mem_logged + 1, Len(mem)) \in Seq(Row)
      BY Slice DEF TypeInv, TypeOK, TableType
    <3>2. RedoRecord \in Record
      BY <3>1 DEF TypeInv, TypeOK, TableType, DurableType, Record, RedoRecord
    <3>3. <<RedoRecord>> \in Seq(Record)
      BY <3>2
    <3>4. wal_tail' \in {wal_tail, <<RedoRecord>>}
      BY Zenon, <1>5 DEF CommitLog
    <3>5. wal_tail' \in Seq(Record)
      BY Zenon, <3>3, <3>4 DEF TypeInv, TypeOK, HolderType
    <3> QED
      BY Zenon, <1>5, <3>5 DEF CommitLog, Lock, TypeInv, TypeOK, HolderType, Op
  <2>4. HistoryType'
    BY Zenon, <1>5 DEF CommitLog, Lock, BatchAck, BatchFreed, BatchFails,
        TypeInv, TypeOK, HistoryType, BatchType, TableType, Mishap
  <2>5. DurableType' /\ TableType' /\ ReplayType'
    BY Zenon, <1>5 DEF CommitLog, Lock, BatchAck, BatchFreed, BatchFails,
        TypeInv, TypeOK, DurableType, TableType, ReplayType
  <2>6. Control' /\ Anchored'
    BY <1>5 DEF CommitLog, Lock, BatchAck, BatchFreed, BatchFails, TypeInv,
        TypeOK, HolderType, BatchType, TableType, Control, Anchored, InBatch,
        NoBatch, Flushers
  <2> QED
    BY Zenon, <2>1, <2>2, <2>3, <2>4, <2>5, <2>6 DEF TypeInv, TypeOK
<1>6. CASE LogSynced
  <2>1. FlagType'
    BY Zenon, <1>6, NoRows DEF LogSynced, Unlock, BatchAck, BatchFreed, TypeInv,
        TypeOK, FlagType
  <2>2. DurableType' /\ TableType' /\ BatchType' /\ HolderType'
    BY <1>6, NoRows DEF LogSynced, Unlock, BatchAck, BatchFreed, TypeInv,
        TypeOK, DurableType, TableType, BatchType, HolderType, Op
  <2>3. ReplayType' /\ HistoryType'
    BY Zenon, <1>6, NoRows DEF LogSynced, Unlock, BatchAck, BatchFreed, TypeInv,
        TypeOK, TableType, BatchType, ReplayType, HistoryType, Mishap
  <2>4. Control' /\ Anchored'
    BY Zenon, <1>6, NoRows DEF LogSynced, Unlock, BatchAck, BatchFreed, TypeInv,
        TypeOK, HolderType, BatchType, TableType, Control, Anchored, InBatch,
        NoBatch, Flushers
  <2> QED
    BY Zenon, <2>1, <2>2, <2>3, <2>4 DEF TypeInv, TypeOK
<1>7. CASE LogFailed
  BY <1>7, NoRows DEF LogFailed, Unlock, BatchFails, Fault, TypeInv, TypeOK,
      FlagType, DurableType, TableType, BatchType, HolderType, ReplayType,
      HistoryType, Op, Record, Mishap, Control, Anchored, InBatch, NoBatch,
      Flushers
<1>8. CASE CommitFlush
  BY Zenon, <1>8 DEF CommitFlush, Lock, TypeInv, TypeOK, FlagType, DurableType,
      TableType, BatchType, HolderType, ReplayType, HistoryType, Op, Record,
      Mishap, Control, Anchored, InBatch, NoBatch, Flushers
<1>9. CASE CommitFlushed
  <2>1. FlagType'
    BY Zenon, <1>9, NoRows DEF CommitFlushed, Unlock, BatchAck, BatchFreed,
        BatchFails, Fault, TypeInv, TypeOK, FlagType
  <2>2. DurableType' /\ TableType' /\ BatchType' /\ HolderType'
    BY <1>9, NoRows DEF CommitFlushed, Unlock, BatchAck, BatchFreed,
        BatchFails, Fault, TypeInv, TypeOK, DurableType, TableType, BatchType,
        HolderType, Op
  <2>3. ReplayType' /\ HistoryType'
    BY <1>9, NoRows DEF CommitFlushed, Unlock, BatchAck, BatchFreed,
        BatchFails, Fault, TypeInv, TypeOK, TableType, BatchType, ReplayType,
        HistoryType, Mishap
  <2>4. Control' /\ Anchored'
    BY <1>9, NoRows DEF CommitFlushed, Unlock, BatchAck, BatchFreed,
        BatchFails, Fault, TypeInv, TypeOK, HolderType, BatchType, TableType,
        Control, Anchored, InBatch, NoBatch, Flushers
  <2> QED
    BY Zenon, <2>1, <2>2, <2>3, <2>4 DEF TypeInv, TypeOK
<1>10. CASE BatchFlushed
  <2>1. FlagType'
    BY Zenon, <1>10, NoRows DEF BatchFlushed, Unlock, TypeInv, TypeOK, FlagType
  <2>2. DurableType' /\ TableType' /\ BatchType' /\ HolderType'
    BY <1>10, NoRows DEF BatchFlushed, Unlock, TypeInv, TypeOK, DurableType,
        TableType, BatchType, HolderType, Op
  <2>3. ReplayType' /\ HistoryType'
    BY Zenon, <1>10, NoRows DEF BatchFlushed, Unlock, TypeInv, TypeOK,
        TableType, BatchType, ReplayType, HistoryType, Mishap
  <2>4. Control' /\ Anchored'
    BY <1>10, NoRows DEF BatchFlushed, Unlock, TypeInv, TypeOK, HolderType,
        BatchType, TableType, Control, Anchored, InBatch, NoBatch, Flushers
  <2> QED
    BY Zenon, <2>1, <2>2, <2>3, <2>4 DEF TypeInv, TypeOK
<1>11. CASE BatchDiscard
  <2>1. FlagType'
    BY Zenon, <1>11, NoRows DEF BatchDiscard, BatchFreed, DiscardTo, TypeInv,
        TypeOK, FlagType
  <2>2. TableType'
    <3>1. base_nrows <= Len(mem) =>
            /\ SubSeq(mem, 1, base_nrows) \in Seq(Row)
            /\ Len(SubSeq(mem, 1, base_nrows)) = base_nrows
      BY Slice, 0 + 1 = 1 DEF TypeInv, TypeOK, TableType, BatchType
    <3>2. mem_logged <= Len(DiscardTo) /\ DiscardTo \in Seq(Row)
      BY <1>11, <3>1, NoRows DEF BatchDiscard, DiscardTo, TypeInv, TypeOK,
          TableType, BatchType, Anchored
    <3> QED
      BY <1>11, <3>2 DEF BatchDiscard, TypeInv, TypeOK, TableType
  <2>3. BatchType'
    BY Zenon, <1>11, NoRows DEF BatchDiscard, BatchFreed, DiscardTo, TypeInv,
        TypeOK, BatchType, TableType
  <2>4. DurableType' /\ HolderType' /\ ReplayType' /\ HistoryType'
    BY Zenon, <1>11, NoRows DEF BatchDiscard, BatchFreed, DiscardTo, TypeInv,
        TypeOK, DurableType, HolderType, ReplayType, HistoryType
  <2>5. Control' /\ Anchored'
    BY Zenon, <1>11, NoRows DEF BatchDiscard, BatchFreed, DiscardTo, TypeInv,
        TypeOK, HolderType, BatchType, TableType, Control, Anchored, InBatch,
        NoBatch, Flushers
  <2> QED
    BY Zenon, <2>1, <2>2, <2>3, <2>4, <2>5 DEF TypeInv, TypeOK
<1>12. CASE BatchRetain
  BY Zenon, <1>12 DEF BatchRetain, BatchFreed, TypeInv, TypeOK, FlagType,
      DurableType, TableType, BatchType, HolderType, ReplayType, HistoryType,
      Op, Record, Mishap, Control, Anchored, InBatch, NoBatch, Flushers
<1>13. CASE FlushEmptyOrFrozen
  BY Zenon, <1>13, NoRows DEF FlushEmptyOrFrozen, FlushReturns, TypeInv, TypeOK,
      FlagType, DurableType, TableType, BatchType, HolderType, ReplayType,
      HistoryType, Op, Record, Mishap, Control, Anchored, InBatch, NoBatch,
      Flushers
<1>14. CASE FlushSkipLocal
  <2> USE DEF FlushSkipLocal, FlushReturns, MemtableDrained, TypeInv, TypeOK
  <2>1. FlagType'
    BY Zenon, <1>14 DEF FlagType
  <2>2. wal' = wal \/ wal' = <<>>
    BY Zenon, <1>14 DEF TruncateLog, WalTruncateIfSafe
  <2>3. DurableType' /\ TableType' /\ BatchType' /\ HolderType'
    <3>1. DurableType'
      BY Zenon, <1>14, <2>2, NoRows DEF DurableType
    <3>2. TableType' /\ BatchType'
      BY <1>14, NoRows DEF TableType, BatchType
    <3>3. HolderType'
      BY Zenon, <1>14 DEF HolderType, Op
    <3> QED
      BY Zenon, <3>1, <3>2, <3>3
  <2>4. faults' \in Nat
    BY <1>14 DEF TruncateLog, Fault, HistoryType
  <2>5. ReplayType' /\ HistoryType'
    BY Zenon, <1>14, <2>4, PartOfType DEF TableType, ReplayType, HistoryType,
        Mishap
  <2>6. Control' /\ Anchored'
    BY Zenon, <1>14, NoRows DEF SkipReplicate, HolderType, BatchType, TableType,
        Control, Anchored, InBatch, NoBatch, Flushers
  <2> QED
    BY Zenon, <2>1, <2>3, <2>5, <2>6
<1>15. CASE FlushStart
  BY <1>15, NoRows, PartOfType DEF FlushStart, TypeInv, TypeOK, FlagType,
      DurableType, TableType, BatchType, HolderType, ReplayType, HistoryType,
      Op, Record, Mishap, Control, Anchored, InBatch, NoBatch, Flushers
<1>16. ASSUME NEW p \in Part, FlushPublish(p) PROVE TypeInv'
  <2>1. DurableType'
    <3> DEFINE flushed == SubSeq(mem, 1, nflush)
    <3>1. flushed \in Seq(Row)
      BY <1>16, Slice, 0 + 1 = 1 DEF FlushPublish, TypeInv, TypeOK, TableType,
          HolderType, Control
    <3>2. \A r \in Row : Occurrences(flushed, r) \in Nat
      BY Zenon, <3>1, OccurrencesType
    <3> QED
      BY <1>16, <3>2 DEF FlushPublish, Stamp, Max2, TypeInv, TypeOK, TableType,
          DurableType
  <2>2. HolderType'
    BY Zenon, <1>16 DEF FlushPublish, NextPart, Stamp, Max2, TypeInv, TypeOK,
        HolderType, TableType, DurableType, Op, Record
  <2>3. FlagType' /\ TableType' /\ BatchType' /\ ReplayType' /\ HistoryType'
    BY Zenon, <1>16 DEF FlushPublish, NextPart, Stamp, Max2, TypeInv, TypeOK,
        FlagType, TableType, BatchType, ReplayType, HistoryType
  <2>4. Control' /\ Anchored'
    BY Zenon, <1>16 DEF FlushPublish, NextPart, Stamp, Max2, TypeInv, TypeOK,
        HolderType, BatchType, TableType, Control, Anchored, InBatch, NoBatch,
        Flushers
  <2> QED
    BY Zenon, <2>1, <2>2, <2>3, <2>4 DEF TypeInv, TypeOK
<1>17. CASE FlushFail
  BY <1>17, PartOfType DEF FlushFail, FlushReturns, Fault, PartlyPublished,
      Mishaps, TypeInv, TypeOK, FlagType, DurableType, TableType, BatchType,
      HolderType, ReplayType, HistoryType, Op, Record, Mishap, Control,
      Anchored, InBatch, NoBatch, Flushers
<1>18. CASE FlushFinish
  <2>1. FlagType'
    BY Zenon, <1>18, NoRows DEF FlushFinish, FlushReturns, WalTruncateIfSafe,
        TruncateLog, MemtableDrained, Fault, TypeInv, TypeOK, FlagType
  <2>2. DurableType'
    BY Zenon, <1>18, NoRows DEF FlushFinish, FlushReturns, WalTruncateIfSafe,
        TruncateLog, MemtableDrained, Fault, TypeInv, TypeOK, DurableType,
        HolderType
  <2>3. TableType'
    BY <1>18, NoRows DEF FlushFinish, FlushReturns, WalTruncateIfSafe,
        TruncateLog, MemtableDrained, Fault, TypeInv, TypeOK, TableType,
        DurableType
  <2>4. HolderType'
    BY Zenon, <1>18, NoRows DEF FlushFinish, FlushReturns, WalTruncateIfSafe,
        TruncateLog, MemtableDrained, Fault, TypeInv, TypeOK, HolderType,
        TableType, DurableType, Op, Record
  <2>5. HistoryType'
    BY <1>18, NoRows DEF FlushFinish, FlushReturns, WalTruncateIfSafe,
        TruncateLog, MemtableDrained, Fault, TypeInv, TypeOK, HistoryType,
        BatchType, TableType, Mishap
  <2>6. BatchType' /\ ReplayType'
    BY Zenon, <1>18, NoRows DEF FlushFinish, FlushReturns, WalTruncateIfSafe,
        TruncateLog, MemtableDrained, Fault, TypeInv, TypeOK, BatchType,
        ReplayType
  <2>7. Control' /\ Anchored'
    BY Zenon, <1>18, NoRows DEF FlushFinish, FlushReturns, WalTruncateIfSafe,
        TruncateLog, MemtableDrained, Fault, TypeInv, TypeOK, HolderType,
        BatchType, TableType, Control, Anchored, InBatch, NoBatch, Flushers
  <2> QED
    BY Zenon, <2>1, <2>2, <2>3, <2>4, <2>5, <2>6, <2>7 DEF TypeInv, TypeOK
<1>19. CASE MaintFlush
  BY Zenon, <1>19 DEF MaintFlush, Lock, TypeInv, TypeOK, FlagType, DurableType,
      TableType, BatchType, HolderType, ReplayType, HistoryType, Op, Record,
      Mishap, Control, Anchored, InBatch, NoBatch, Flushers
<1>20. CASE AlterAddColumn
  BY Zenon, <1>20 DEF AlterAddColumn, Lock, TypeInv, TypeOK, FlagType,
      DurableType, TableType, BatchType, HolderType, ReplayType, HistoryType,
      Op, Record, Mishap, Control, Anchored, InBatch, NoBatch, Flushers
<1>21. CASE FlushedAndDone
  BY <1>21, NoRows DEF FlushedAndDone, Unlock, Fault, TypeInv, TypeOK, FlagType,
      DurableType, TableType, BatchType, HolderType, ReplayType, HistoryType,
      Op, Record, Mishap, Control, Anchored, InBatch, NoBatch, Flushers
<1>22. CASE DeleteRange
  BY Zenon, <1>22, PartOfType DEF DeleteRange, Lock, CoveredBy, TypeInv, TypeOK,
      FlagType, DurableType, TableType, BatchType, HolderType, ReplayType,
      HistoryType, Op, Record, Mishap, Control, Anchored, InBatch, NoBatch,
      Flushers
<1>23. CASE DeleteFlushed
  BY Zenon, <1>23 DEF DeleteFlushed, TypeInv, TypeOK, FlagType, DurableType,
      TableType, BatchType, HolderType, ReplayType, HistoryType, Op, Record,
      Mishap, Control, Anchored, InBatch, NoBatch, Flushers
<1>24. CASE TruncateTable
  <2>1. FlagType'
    BY Zenon, <1>24, NoRows DEF TruncateTable, WalTruncate, Lock, Fault,
        TypeInv, TypeOK, FlagType
  <2>2. DurableType'
    BY Zenon, <1>24, NoRows DEF TruncateTable, WalTruncate, Lock, Fault,
        TypeInv, TypeOK, DurableType, HolderType
  <2>3. TableType'
    BY <1>24, NoRows DEF TruncateTable, WalTruncate, Lock, Fault, TypeInv,
        TypeOK, TableType, DurableType
  <2>4. HolderType'
    BY Zenon, <1>24, NoRows DEF TruncateTable, WalTruncate, Lock, Fault,
        TypeInv, TypeOK, HolderType, TableType, DurableType, Op, Record
  <2>5. HistoryType'
    BY <1>24, NoRows DEF TruncateTable, WalTruncate, Lock, Fault, TypeInv,
        TypeOK, HistoryType, BatchType, TableType, Mishap
  <2>6. BatchType' /\ ReplayType'
    BY Zenon, <1>24, NoRows DEF TruncateTable, WalTruncate, Lock, Fault,
        TypeInv, TypeOK, BatchType, ReplayType
  <2>7. Control' /\ Anchored'
    BY Zenon, <1>24, NoRows DEF TruncateTable, WalTruncate, Lock, Fault,
        TypeInv, TypeOK, HolderType, BatchType, TableType, Control, Anchored,
        InBatch, NoBatch, Flushers
  <2> QED
    BY Zenon, <2>1, <2>2, <2>3, <2>4, <2>5, <2>6, <2>7 DEF TypeInv, TypeOK
<1>25. ASSUME NEW p \in Part, RemovePart(p) PROVE TypeInv'
  BY Zenon, <1>25 DEF RemovePart, Mishaps, TypeInv, TypeOK, FlagType,
      DurableType, TableType, BatchType, HolderType, ReplayType, HistoryType,
      Op, Record, Mishap, Control, Anchored, InBatch, NoBatch, Flushers
<1>26. CASE RemoveDone
  BY Zenon, <1>26, NoRows DEF RemoveDone, Unlock, TypeInv, TypeOK, FlagType,
      DurableType, TableType, BatchType, HolderType, ReplayType, HistoryType,
      Op, Record, Mishap, Control, Anchored, InBatch, NoBatch, Flushers
<1>27. CASE TruncateIfEmpty
  <2>1. FlagType'
    BY Zenon, <1>27 DEF TruncateIfEmpty, TypeInv, TypeOK, FlagType
  <2>2. DurableType'
    BY Zenon, <1>27, NoRows DEF TruncateIfEmpty, WalTruncate, Fault, LooksEmpty,
        TypeInv, TypeOK, DurableType
  <2>3. TableType'
    BY <1>27, NoRows DEF TruncateIfEmpty, WalTruncate, Fault, LooksEmpty,
        TypeInv, TypeOK, TableType
  <2>4. HolderType' /\ BatchType' /\ ReplayType'
    BY Zenon, <1>27 DEF TruncateIfEmpty, TypeInv, TypeOK, HolderType, BatchType,
        ReplayType
  <2>5. HistoryType'
    BY <1>27 DEF TruncateIfEmpty, WalTruncate, Fault, TypeInv, TypeOK,
        HistoryType
  <2>6. Control' /\ Anchored'
    BY Zenon, <1>27 DEF TruncateIfEmpty, LooksEmpty, TypeInv, TypeOK,
        HolderType, BatchType, TableType, Control, Anchored, InBatch, NoBatch,
        Flushers
  <2> QED
    BY Zenon, <2>1, <2>2, <2>3, <2>4, <2>5, <2>6 DEF TypeInv, TypeOK
<1>28. CASE Crash
  <2>1. FlagType'
    BY Zenon, <1>28, NoRows, PartOfType DEF Crash, PartlyPublished, MemoryLost,
        BatchFreed, Mishaps, TypeInv, TypeOK, FlagType
  <2>2. DurableType'
    <3>1. wal \o wal_tail \in Seq(Record)
      BY Zenon, ConcatProperties DEF TypeInv, TypeOK, DurableType, HolderType
    <3> QED
      BY Zenon, <1>28, <3>1 DEF Crash, TypeInv, TypeOK, DurableType
  <2>3. TableType'
    BY <1>28, NoRows, PartOfType DEF Crash, PartlyPublished, MemoryLost,
        BatchFreed, Mishaps, TypeInv, TypeOK, TableType, DurableType
  <2>4. BatchType'
    BY Zenon, <1>28, NoRows, PartOfType DEF Crash, PartlyPublished, MemoryLost,
        BatchFreed, Mishaps, TypeInv, TypeOK, BatchType, TableType
  <2>5. HolderType'
    BY Zenon, <1>28, NoRows, PartOfType DEF Crash, PartlyPublished, MemoryLost,
        BatchFreed, Mishaps, TypeInv, TypeOK, HolderType, TableType,
        DurableType, Op, Record
  <2>6. ReplayType'
    BY <1>28, NoRows, PartOfType DEF Crash, PartlyPublished, MemoryLost,
        BatchFreed, Mishaps, TypeInv, TypeOK, ReplayType, DurableType
  <2>7. HistoryType'
    BY <1>28, NoRows, PartOfType DEF Crash, PartlyPublished, MemoryLost,
        BatchFreed, Mishaps, TypeInv, TypeOK, HistoryType, BatchType,
        TableType, Mishap
  <2>8. Control' /\ Anchored'
    BY Zenon, <1>28, NoRows, PartOfType DEF Crash, PartlyPublished, MemoryLost,
        BatchFreed, Mishaps, TypeInv, TypeOK, HolderType, BatchType,
        TableType, Control, Anchored, InBatch, NoBatch, Flushers
  <2> QED
    BY Zenon, <2>1, <2>2, <2>3, <2>4, <2>5, <2>6, <2>7, <2>8 DEF TypeInv, TypeOK
<1>29. CASE Close
  BY Zenon, <1>29 DEF Close, Lock, TypeInv, TypeOK, FlagType, DurableType,
      TableType, BatchType, HolderType, ReplayType, HistoryType, Op, Record,
      Mishap, Control, Anchored, InBatch, NoBatch, Flushers
<1>30. CASE Closed
  <2>1. FlagType'
    BY Zenon, <1>30, NoRows DEF Closed, MemoryLost, BatchFreed, TypeInv, TypeOK,
        FlagType
  <2>2. DurableType' /\ TableType' /\ BatchType' /\ HolderType'
    BY <1>30, NoRows DEF Closed, MemoryLost, BatchFreed, TypeInv, TypeOK,
        DurableType, TableType, BatchType, HolderType, Op
  <2>3. ReplayType' /\ HistoryType'
    BY <1>30, NoRows DEF Closed, MemoryLost, BatchFreed, TypeInv, TypeOK,
        TableType, BatchType, ReplayType, HistoryType, Mishap
  <2>4. Control' /\ Anchored'
    BY Zenon, <1>30, NoRows DEF Closed, MemoryLost, BatchFreed, TypeInv, TypeOK,
        HolderType, BatchType, TableType, Control, Anchored, InBatch, NoBatch,
        Flushers
  <2> QED
    BY Zenon, <2>1, <2>2, <2>3, <2>4 DEF TypeInv, TypeOK
<1>31. CASE Open
  BY <1>31 DEF Open, Lock, TypeInv, TypeOK, FlagType, DurableType, TableType,
      BatchType, HolderType, ReplayType, HistoryType, Op, Record, Mishap,
      Control, Anchored, InBatch, NoBatch, Flushers
<1>32. CASE ReplaySkip
  <2>1. FlagType'
    BY Zenon, <1>32 DEF ReplaySkip, Scanning, TypeInv, TypeOK, FlagType
  <2>2. DurableType' /\ TableType' /\ BatchType' /\ HolderType'
    BY Zenon, <1>32 DEF ReplaySkip, Scanning, TypeInv, TypeOK, DurableType,
        TableType, BatchType, HolderType, Op
  <2>3. ReplayType' /\ HistoryType'
    BY <1>32 DEF ReplaySkip, Scanning, TypeInv, TypeOK, TableType, BatchType,
        ReplayType, HistoryType, Mishap
  <2>4. Control' /\ Anchored'
    BY Zenon, <1>32 DEF ReplaySkip, Scanning, TypeInv, TypeOK, HolderType,
        BatchType, TableType, Control, Anchored, InBatch, NoBatch, Flushers
  <2> QED
    BY Zenon, <2>1, <2>2, <2>3, <2>4 DEF TypeInv, TypeOK
<1>33. CASE ReplayApply
  <2>1. TableType'
    <3>1. wal[pos] \in Record
      BY <1>33, RecordType DEF ReplayApply, MustApply, TypeInv, TypeOK,
          ReplayType
    <3>2. wal[pos].rows \in Seq(Row)
      BY Zenon, <3>1 DEF Record
    <3>3. /\ mem \o wal[pos].rows \in Seq(Row)
          /\ Len(mem \o wal[pos].rows) = Len(mem) + Len(wal[pos].rows)
      BY Zenon, <3>2, ConcatProperties DEF TypeInv, TypeOK, TableType
    <3> QED
      BY <1>33, <3>2, <3>3 DEF ReplayApply, TypeInv, TypeOK, TableType
  <2>2. ReplayType'
    <3>1. wal[pos] \in Record
      BY <1>33, RecordType DEF ReplayApply, MustApply, TypeInv, TypeOK,
          ReplayType
    <3> QED
      BY <1>33, <3>1 DEF ReplayApply, Record, TypeInv, TypeOK, ReplayType
  <2>3. FlagType' /\ DurableType' /\ BatchType' /\ HolderType' /\ HistoryType'
    BY Zenon, <1>33 DEF ReplayApply, Scanning, MustApply, TypeInv, TypeOK,
        FlagType, DurableType, BatchType, HolderType, HistoryType
  <2>4. Control' /\ Anchored'
    BY Zenon, <1>33 DEF ReplayApply, Scanning, MustApply, TypeInv, TypeOK,
        HolderType, BatchType, TableType, Control, Anchored, InBatch, NoBatch,
        Flushers
  <2> QED
    BY Zenon, <2>1, <2>2, <2>3, <2>4 DEF TypeInv, TypeOK
<1>34. CASE ReplayFlush
  BY Zenon, <1>34 DEF ReplayFlush, Scanning, MustApply, Max2, TypeInv, TypeOK,
      FlagType, DurableType, TableType, BatchType, HolderType, ReplayType,
      HistoryType, Op, Record, Mishap, Control, Anchored, InBatch, NoBatch,
      Flushers
<1>35. CASE ReplayFlushed
  BY Zenon, <1>35 DEF ReplayFlushed, TypeInv, TypeOK, FlagType, DurableType,
      TableType, BatchType, HolderType, ReplayType, HistoryType, Op, Record,
      Mishap, Control, Anchored, InBatch, NoBatch, Flushers
<1>36. CASE ReplayDone
  <2>1. FlagType'
    BY Zenon, <1>36, NoRows DEF ReplayDone, Scanning, RecoveryEnds, Unlock,
        IsHighestSeq, SeqsSeen, TypeInv, TypeOK, FlagType
  <2>2. TableType'
    BY <1>36, SeqsSeenType DEF ReplayDone, RecoveryEnds, TypeInv, TypeOK,
        TableType
  <2>3. HolderType'
    BY Zenon, <1>36, NoRows DEF ReplayDone, Scanning, RecoveryEnds, Unlock,
        IsHighestSeq, SeqsSeen, TypeInv, TypeOK, HolderType, TableType,
        DurableType, Op, Record
  <2>4. ReplayType'
    BY <1>36, NoRows DEF ReplayDone, Scanning, RecoveryEnds, Unlock,
        IsHighestSeq, SeqsSeen, TypeInv, TypeOK, ReplayType, DurableType
  <2>5. HistoryType'
    BY Zenon, <1>36, NoRows DEF ReplayDone, Scanning, RecoveryEnds, Unlock,
        IsHighestSeq, SeqsSeen, TypeInv, TypeOK, HistoryType, BatchType,
        TableType, Mishap
  <2>6. DurableType' /\ BatchType'
    BY Zenon, <1>36, NoRows DEF ReplayDone, Scanning, RecoveryEnds, Unlock,
        IsHighestSeq, SeqsSeen, TypeInv, TypeOK, DurableType, BatchType
  <2>7. Control' /\ Anchored'
    BY Zenon, <1>36, NoRows DEF ReplayDone, Scanning, RecoveryEnds, Unlock,
        IsHighestSeq, SeqsSeen, TypeInv, TypeOK, HolderType, BatchType,
        TableType, Control, Anchored, InBatch, NoBatch, Flushers
  <2> QED
    BY Zenon, <2>1, <2>2, <2>3, <2>4, <2>5, <2>6, <2>7 DEF TypeInv, TypeOK
<1>37. CASE ReplayAbort
  <2>1. FlagType'
    BY Zenon, <1>37, NoRows DEF ReplayAbort, Scanning, RecoveryEnds, Unlock,
        IsHighestSeq, SeqsSeen, Mishaps, UnreadUncovered, TypeInv, TypeOK,
        FlagType
  <2>2. TableType'
    BY <1>37, SeqsSeenType DEF ReplayAbort, RecoveryEnds, TypeInv, TypeOK,
        TableType
  <2>3. HolderType'
    BY Zenon, <1>37, NoRows DEF ReplayAbort, Scanning, RecoveryEnds, Unlock,
        IsHighestSeq, SeqsSeen, Mishaps, UnreadUncovered, TypeInv, TypeOK,
        HolderType, TableType, DurableType, Op, Record
  <2>4. ReplayType'
    BY <1>37, NoRows DEF ReplayAbort, Scanning, RecoveryEnds, Unlock,
        IsHighestSeq, SeqsSeen, Mishaps, UnreadUncovered, TypeInv, TypeOK,
        ReplayType, DurableType
  <2>5. HistoryType'
    BY Zenon, <1>37, NoRows DEF ReplayAbort, Scanning, RecoveryEnds, Unlock,
        IsHighestSeq, SeqsSeen, Mishaps, UnreadUncovered, TypeInv, TypeOK,
        HistoryType, BatchType, TableType, Mishap
  <2>6. DurableType' /\ BatchType'
    BY Zenon, <1>37, NoRows DEF ReplayAbort, Scanning, RecoveryEnds, Unlock,
        IsHighestSeq, SeqsSeen, Mishaps, UnreadUncovered, TypeInv, TypeOK,
        DurableType, BatchType
  <2>7. Control' /\ Anchored'
    BY Zenon, <1>37, NoRows DEF ReplayAbort, Scanning, RecoveryEnds, Unlock,
        IsHighestSeq, SeqsSeen, Mishaps, UnreadUncovered, TypeInv, TypeOK,
        HolderType, BatchType, TableType, Control, Anchored, InBatch, NoBatch,
        Flushers
  <2> QED
    BY Zenon, <2>1, <2>2, <2>3, <2>4, <2>5, <2>6, <2>7 DEF TypeInv, TypeOK
<1>38. CASE UNCHANGED vars
  BY ZenonT(40), <1>38 DEF vars, TypeInv, TypeOK, DurableType, TableType,
      BatchType, HolderType, FlagType, ReplayType, HistoryType, Control,
      Anchored
<1> QED
  BY Zenon, <1>1, <1>2, <1>3, <1>4, <1>5, <1>6, <1>7, <1>8, <1>9, <1>10, <1>11,
      <1>12, <1>13, <1>14, <1>15, <1>16, <1>17, <1>18, <1>19, <1>20, <1>21,
      <1>22, <1>23, <1>24, <1>25, <1>26, <1>27, <1>28, <1>29, <1>30, <1>31,
      <1>32, <1>33, <1>34, <1>35, <1>36, <1>37, <1>38 DEF Next

\* Every reachable state has the types, whatever the rows, partitions, capacity
\* and bounds: in particular a discard never cuts below the logged rows.
THEOREM TypeCorrect == Spec => []TypeOK
<1>1. TypeInv => TypeOK
  BY Zenon DEF TypeInv
<1> QED
  BY <1>1, TypeInit, TypeStep, PTL DEF Spec

\* The inductive type invariant, for the proofs that build on it.
THEOREM TypeInvariance == Spec => []TypeInv
  BY TypeInit, TypeStep, PTL DEF Spec

-----------------------------------------------------------------------------
(* Rows of sequences.                                                      *)

NoRepeat(s) == \A k, l \in 1..Len(s) : s[k] = s[l] => k = l

\* A row that is not in a sequence has no copy in it.
LEMMA OccurrencesNone ==
    ASSUME NEW s \in Seq(Row), NEW r, r \notin RowsIn(s)
    PROVE  Occurrences(s, r) = 0
<1>1. {i \in 1..Len(s) : s[i] = r} = {}
  BY Zenon DEF RowsIn
<1> QED
  BY Zenon, <1>1, FS_EmptySet DEF Occurrences

\* A sequence without repetitions holds a row once or not at all.
LEMMA OccurrencesOnce ==
    ASSUME NEW s \in Seq(Row), NoRepeat(s), NEW r
    PROVE  Occurrences(s, r) = IF r \in RowsIn(s) THEN 1 ELSE 0
<1> DEFINE C == {i \in 1..Len(s) : s[i] = r}
<1>1. CASE r \in RowsIn(s)
  <2>1. PICK k \in 1..Len(s) : s[k] = r
    BY Zenon, <1>1 DEF RowsIn
  <2>2. C = {k}
    BY Zenon, <2>1 DEF NoRepeat
  <2> QED
    BY Zenon, <1>1, <2>2, FS_Singleton DEF Occurrences
<1>2. CASE r \notin RowsIn(s)
  BY Zenon, <1>2, OccurrencesNone
<1> QED
  BY Zenon, <1>1, <1>2

\* What appending a row does to the rows of a sequence.
LEMMA Appended ==
    ASSUME NEW s \in Seq(Row), NEW r \in Row
    PROVE  /\ RowsIn(Append(s, r)) = RowsIn(s) \cup {r}
           /\ NoRepeat(s) /\ r \notin RowsIn(s) => NoRepeat(Append(s, r))
<1>1. /\ Len(s) \in Nat /\ Len(Append(s, r)) = Len(s) + 1
      /\ \A i \in 1..Len(s) : Append(s, r)[i] = s[i]
      /\ Append(s, r)[Len(s) + 1] = r
  BY AppendProperties
<1>2. \A i \in 1..Len(Append(s, r)) : i \in 1..Len(s) \/ i = Len(s) + 1
  BY <1>1
<1>3. /\ \A i \in 1..Len(s) : i \in 1..Len(Append(s, r))
      /\ Len(s) + 1 \in 1..Len(Append(s, r))
  BY <1>1
<1>4. RowsIn(Append(s, r)) = RowsIn(s) \cup {r}
  BY Zenon, <1>1, <1>2, <1>3 DEF RowsIn
<1>5. NoRepeat(s) /\ r \notin RowsIn(s) => NoRepeat(Append(s, r))
  BY Zenon, <1>1, <1>2 DEF RowsIn, NoRepeat
<1> QED
  BY Zenon, <1>4, <1>5

\* What joining two sequences does to their rows.
LEMMA Joined ==
    ASSUME NEW s \in Seq(Row), NEW t \in Seq(Row)
    PROVE  /\ RowsIn(s \o t) = RowsIn(s) \cup RowsIn(t)
           /\ NoRepeat(s) /\ NoRepeat(t) /\ RowsIn(s) \cap RowsIn(t) = {}
                 => NoRepeat(s \o t)
<1>1. /\ Len(s \o t) = Len(s) + Len(t) /\ Len(s) \in Nat /\ Len(t) \in Nat
      /\ \A i \in 1..(Len(s) + Len(t)) :
            (s \o t)[i] = IF i <= Len(s) THEN s[i] ELSE t[i - Len(s)]
  BY Zenon, ConcatProperties, LenProperties
<1>2. \A i \in 1..Len(s) : (s \o t)[i] = s[i] /\ i \in 1..Len(s \o t)
  BY <1>1
<1>3. \A i \in 1..Len(t) :
          (s \o t)[Len(s) + i] = t[i] /\ Len(s) + i \in 1..Len(s \o t)
  BY <1>1
<1>4. \A i \in 1..Len(s \o t) :
          i \in 1..Len(s) \/ \E j \in 1..Len(t) : i = Len(s) + j
  <2> SUFFICES ASSUME NEW i \in 1..Len(s \o t), i \notin 1..Len(s)
               PROVE  \E j \in 1..Len(t) : i = Len(s) + j
    BY Zenon
  <2>1. i - Len(s) \in 1..Len(t) /\ i = Len(s) + (i - Len(s))
    BY <1>1
  <2> QED
    BY Zenon, <2>1
<1>5. RowsIn(s \o t) = RowsIn(s) \cup RowsIn(t)
  <2>1. RowsIn(s) \subseteq RowsIn(s \o t) /\ RowsIn(t) \subseteq RowsIn(s \o t)
    BY Zenon, <1>2, <1>3 DEF RowsIn
  <2>2. ASSUME NEW i \in 1..Len(s \o t)
        PROVE  (s \o t)[i] \in RowsIn(s) \cup RowsIn(t)
    BY Zenon, <1>2, <1>3, <1>4 DEF RowsIn
  <2>3. RowsIn(s \o t) \subseteq RowsIn(s) \cup RowsIn(t)
    BY Zenon, <2>2 DEF RowsIn
  <2> QED
    BY Zenon, <2>1, <2>3
<1>6. NoRepeat(s) /\ NoRepeat(t) /\ RowsIn(s) \cap RowsIn(t) = {}
         => NoRepeat(s \o t)
  <2> SUFFICES ASSUME NoRepeat(s), NoRepeat(t), RowsIn(s) \cap RowsIn(t) = {},
                      NEW k \in 1..Len(s \o t), NEW l \in 1..Len(s \o t),
                      (s \o t)[k] = (s \o t)[l]
               PROVE  k = l
    BY Zenon DEF NoRepeat
  <2>1. CASE k \in 1..Len(s) /\ l \in 1..Len(s)
    BY Zenon, <1>2, <2>1 DEF NoRepeat
  <2>2. ASSUME NEW i \in 1..Len(s), NEW j \in 1..Len(t)
        PROVE  (s \o t)[i] # (s \o t)[Len(s) + j]
    BY Zenon, <1>2, <1>3 DEF RowsIn
  <2>3. ASSUME NEW i \in 1..Len(t), NEW j \in 1..Len(t),
               k = Len(s) + i, l = Len(s) + j
        PROVE  k = l
    BY Zenon, <1>3, <2>3 DEF NoRepeat
  <2> QED
    BY Zenon, <1>4, <2>1, <2>2, <2>3
<1> QED
  BY Zenon, <1>5, <1>6

\* What cutting a slice out of the memtable does to its rows.
LEMMA Sliced ==
    ASSUME NEW s \in Seq(Row), NEW m \in Nat, NEW n \in 0..Len(s)
    PROVE  LET t == SubSeq(s, m + 1, n) IN
           /\ t \in Seq(Row)
           /\ RowsIn(t) = {s[k] : k \in (m + 1)..n}
           /\ NoRepeat(s) => NoRepeat(t)
<1> DEFINE t == SubSeq(s, m + 1, n)
<1>1. /\ t \in Seq(Row) /\ Len(t) = IF m < n THEN n - m ELSE 0
      /\ \A i \in 1..(n - m) : t[i] = s[m + i]
  BY Slice
<1> HIDE DEF t
<1>2. \A i \in 1..Len(t) : t[i] = s[m + i] /\ m + i \in (m + 1)..n
                           /\ m + i \in 1..Len(s)
  BY <1>1
<1>3. ASSUME NEW k \in (m + 1)..n PROVE \E i \in 1..Len(t) : t[i] = s[k]
  <2>1. k - m \in 1..Len(t) /\ m + (k - m) = k
    BY <1>1
  <2> QED
    BY Zenon, <2>1, <1>2
<1>4. RowsIn(t) = {s[k] : k \in (m + 1)..n}
  <2>1. RowsIn(t) \subseteq {s[k] : k \in (m + 1)..n}
    BY Zenon, <1>2 DEF RowsIn
  <2>2. {s[k] : k \in (m + 1)..n} \subseteq RowsIn(t)
    BY Zenon, <1>3 DEF RowsIn
  <2> QED
    BY Zenon, <2>1, <2>2
<1>5. ASSUME NoRepeat(s), NEW k \in 1..Len(t), NEW l \in 1..Len(t), t[k] = t[l]
      PROVE  k = l
  <2>1. m + k = m + l
    BY Zenon, <1>2, <1>5 DEF NoRepeat
  <2> QED
    BY <2>1, <1>1
<1>6. NoRepeat(s) => NoRepeat(t)
  BY Zenon, <1>5 DEF NoRepeat
<1> QED
  BY Zenon, <1>1, <1>4, <1>6 DEF t

-----------------------------------------------------------------------------
(* The inductive invariant of the commit sequence.                         *)

\* The record being written is the next one and holds the unlogged rows.
TailInv ==
    /\ op = "log" => /\ ~wal_incomplete /\ mem_logged < Len(mem)
                     /\ wal_tail = <<RedoRecord>>
    /\ op # "log" => wal_tail = <<>>

LogInv ==
    /\ \A i \in 1..Len(wal) :
          wal[i].seq > 0 /\ wal[i].rows # <<>> /\ wal[i].ncols <= ncols
    /\ \A i, j \in 1..Len(wal) : i < j => wal[i].seq < wal[j].seq

\* An open table's sequence is above every record and checkpoint.
OpenSeqInv ==
    op \notin {"down", "replay"} =>
        /\ \A i \in 1..Len(wal) : wal[i].seq <= commit_seq
        /\ \A p \in Part : ckpt[p] <= commit_seq

\* During a replay, the sequence that flushes are stamped with is below every
\* record still to be read.
ReplaySeqInv ==
    /\ op = "down" => commit_seq = 0 /\ mem = <<>>
    /\ op = "replay" =>
        /\ \A i \in pos..Len(wal) : wal[i].seq > commit_seq
        /\ mem # <<>> => \A i \in pos..Len(wal) : wal[i].seq > last_complete
        /\ \A p \in Part : /\ cpmap[p] <= ckpt[p]
                           /\ ckpt[p] <= cpmap[p] \/ ckpt[p] <= commit_seq

SeqInv == TailInv /\ LogInv /\ OpenSeqInv /\ ReplaySeqInv

-----------------------------------------------------------------------------
(* The actions in groups, one lemma each below.                            *)

BatchSteps ==
    \/ BatchBegin \/ RowFlush \/ BulkFlush \/ CommitLog \/ LogSynced
    \/ LogFailed \/ CommitFlush \/ CommitFlushed \/ BatchFlushed
    \/ BatchDiscard \/ BatchRetain
    \/ \E r \in Row : RowAppend(r)
FlushSteps ==
    \/ FlushEmptyOrFrozen \/ FlushSkipLocal \/ FlushStart
    \/ \E p \in Part : FlushPublish(p)
    \/ FlushFail \/ FlushFinish
MaintSteps ==
    \/ MaintFlush \/ AlterAddColumn \/ FlushedAndDone
    \/ DeleteRange \/ DeleteFlushed \/ TruncateTable
    \/ \E p \in Part : RemovePart(p)
    \/ RemoveDone \/ TruncateIfEmpty
RestartSteps ==
    \/ Crash \/ Close \/ Closed \/ Open
    \/ ReplaySkip \/ ReplayApply \/ ReplayFlush \/ ReplayFlushed
RecoveryEndSteps == ReplayDone \/ ReplayAbort

\* The groups leave no action out.
LEMMA NextSteps ==
    [Next]_vars =>
        \/ BatchSteps \/ FlushSteps \/ MaintSteps
        \/ RestartSteps \/ RecoveryEndSteps \/ UNCHANGED vars
  BY Zenon DEF Next, BatchSteps, FlushSteps, MaintSteps, RestartSteps,
      RecoveryEndSteps

-----------------------------------------------------------------------------
(* The commit sequence.                                                    *)

\* The sequence-number invariant holds of a fresh table.
LEMMA SeqInit == Init => SeqInv
  BY NoRows DEF Init, SeqInv, TailInv, LogInv, OpenSeqInv, ReplaySeqInv

\* What the log looks like once the record being written is in it.
LEMMA TailAppended ==
    ASSUME TypeInv, TailInv, op = "log"
    PROVE  /\ Len(wal \o wal_tail) = Len(wal) + 1
           /\ \A i \in 1..Len(wal) : (wal \o wal_tail)[i] = wal[i]
           /\ (wal \o wal_tail)[Len(wal) + 1] = RedoRecord
           /\ RedoRecord.seq = commit_seq + 1 /\ RedoRecord.ncols = ncols
           /\ RedoRecord.rows # <<>>
           /\ \A i \in 1..Len(mem) :
                 i > mem_logged => mem[i] \in RowsIn(RedoRecord.rows)
<1>1. /\ RedoRecord.rows = SubSeq(mem, mem_logged + 1, Len(mem))
      /\ RedoRecord.seq = commit_seq + 1 /\ RedoRecord.ncols = ncols
  BY Zenon DEF RedoRecord
<1>2. /\ RedoRecord.rows \in Seq(Row)
      /\ Len(RedoRecord.rows) = Len(mem) - mem_logged
      /\ \A i \in 1..(Len(mem) - mem_logged) :
            RedoRecord.rows[i] = mem[mem_logged + i]
  BY <1>1, Slice DEF TailInv, TypeInv, TypeOK, TableType
<1>3. RedoRecord.rows # <<>>
  BY <1>2 DEF TailInv, TypeInv, TypeOK, TableType
<1>4. ASSUME NEW i \in 1..Len(mem), i > mem_logged
      PROVE  mem[i] \in RowsIn(RedoRecord.rows)
  <2>1. i - mem_logged \in 1..(Len(mem) - mem_logged)
    BY <1>4 DEF TypeInv, TypeOK, TableType
  <2>2. RedoRecord.rows[i - mem_logged] = mem[i]
    BY <2>1, <1>2 DEF TypeInv, TypeOK, TableType
  <2> QED
    BY Zenon, <2>1, <2>2, <1>2 DEF RowsIn
<1>5. RedoRecord \in Record
  BY <1>2, <1>1 DEF RedoRecord, Record, TypeInv, TypeOK, TableType, DurableType
<1>6. /\ Len(wal \o wal_tail) = Len(wal) + 1
      /\ \A i \in 1..Len(wal) : (wal \o wal_tail)[i] = wal[i]
      /\ (wal \o wal_tail)[Len(wal) + 1] = RedoRecord
  <2>1. <<RedoRecord>> \in Seq(Record) /\ Len(<<RedoRecord>>) = 1
        /\ <<RedoRecord>>[1] = RedoRecord
    BY <1>5
  <2>2. wal_tail = <<RedoRecord>>
    BY Zenon DEF TailInv
  <2> QED
    BY <2>1, <2>2, ConcatProperties DEF TypeInv, TypeOK, DurableType
<1> QED
  BY Zenon, <1>1, <1>3, <1>4, <1>6

\* Appending the next commit's record keeps the log's sequence numbers
\* increasing.
LEMMA LogGrows ==
    ASSUME TypeInv, SeqInv, op = "log", NEW w, w = wal \o wal_tail
    PROVE  /\ \A i \in 1..Len(w) :
                 w[i].seq > 0 /\ w[i].rows # <<>> /\ w[i].ncols <= ncols
           /\ \A i, j \in 1..Len(w) : i < j => w[i].seq < w[j].seq
<1>1. /\ Len(wal) \in Nat /\ Len(w) = Len(wal) + 1
      /\ \A i \in 1..Len(wal) : w[i] = wal[i]
      /\ w[Len(wal) + 1].seq = commit_seq + 1
      /\ w[Len(wal) + 1].rows # <<>> /\ w[Len(wal) + 1].ncols = ncols
  BY TailAppended DEF SeqInv, TypeInv, TypeOK, DurableType
<1>2. \A i \in 1..Len(wal) :
         wal[i].seq \in Nat /\ wal[i].seq > 0 /\ wal[i].seq <= commit_seq
         /\ wal[i].rows # <<>> /\ wal[i].ncols <= ncols
  BY Zenon, RecordType DEF TypeInv, SeqInv, LogInv, OpenSeqInv
<1>3. commit_seq \in Nat /\ ncols \in Nat
  BY Zenon DEF TypeInv, TypeOK, TableType, DurableType
<1>4. \A i \in 1..Len(w) : i \in 1..Len(wal) \/ i = Len(wal) + 1
  BY <1>1
<1>5. \A i \in 1..Len(w) :
                 w[i].seq > 0 /\ w[i].rows # <<>> /\ w[i].ncols <= ncols
  BY <1>1, <1>2, <1>3, <1>4
<1>6. ASSUME NEW i \in 1..Len(w), NEW j \in 1..Len(w), i < j
      PROVE  w[i].seq < w[j].seq
  <2>1. i \in 1..Len(wal)
    BY <1>1, <1>6
  <2>2. CASE j \in 1..Len(wal)
    BY Zenon, <1>1, <1>6, <2>1, <2>2 DEF SeqInv, LogInv
  <2>3. CASE j = Len(wal) + 1
    BY <1>1, <1>2, <1>3, <2>1, <2>3
  <2> QED
    BY Zenon, <1>4, <2>2, <2>3
<1> QED
  BY Zenon, <1>5, <1>6

\* A step that leaves the log alone or empties it, and raises no checkpoint and
\* no sequence, keeps the log in order and below an open table's sequence.
LEMMA LogKept ==
    ASSUME TypeInv, LogInv, OpenSeqInv, wal' \in {wal, <<>>},
           UNCHANGED <<ncols, commit_seq>>,
           \A p \in Part : ckpt'[p] \in {0, ckpt[p]},
           op' \notin {"down", "replay"} => op \notin {"down", "replay"}
    PROVE  LogInv' /\ OpenSeqInv'
<1>1. \A i \in 1..Len(wal') : wal' = wal /\ i \in 1..Len(wal)
  BY NoRows
<1>2. 0 <= commit_seq
  BY DEF TypeInv, TypeOK, TableType
<1>3. LogInv'
  BY Zenon, <1>1 DEF LogInv
<1>4. OpenSeqInv'
  BY Zenon, <1>1, <1>2 DEF OpenSeqInv
<1> QED
  BY Zenon, <1>3, <1>4

\* The commit-sequence invariant is kept by the steps of a row batch.
LEMMA SeqKeepsBatch ==
    ASSUME TypeInv, SeqInv, BatchSteps
    PROVE  SeqInv'
<1> USE DEF durable, table, batch, holder, replay, history, bounds
<1>1. CASE BatchBegin
  BY Zenon, <1>1, RecordType DEF BatchBegin, BatchMuFree, SeqInv, TypeInv,
      TypeOK, TableType, DurableType, ReplayType, Control, TailInv, RedoRecord,
      LogInv, OpenSeqInv, ReplaySeqInv
<1>2. ASSUME NEW r \in Row, RowAppend(r) PROVE SeqInv'
  BY Zenon, <1>2, RecordType DEF RowAppend, SeqInv, TypeInv, TypeOK, TableType,
      DurableType, ReplayType, Control, TailInv, RedoRecord, LogInv,
      OpenSeqInv, ReplaySeqInv
<1>3. CASE RowFlush
  BY Zenon, <1>3, RecordType DEF RowFlush, Lock, SeqInv, TypeInv, TypeOK,
      TableType, DurableType, ReplayType, Control, TailInv, RedoRecord, LogInv,
      OpenSeqInv, ReplaySeqInv
<1>4. CASE BulkFlush
  BY Zenon, <1>4, NoRows, RecordType DEF BulkFlush, Lock, SeqInv, TypeInv,
      TypeOK, TableType, DurableType, ReplayType, Control, TailInv, RedoRecord,
      LogInv, OpenSeqInv, ReplaySeqInv
<1>5. CASE CommitLog
  BY Zenon, <1>5, RecordType DEF CommitLog, Lock, BatchAck, BatchFreed,
      BatchFails, SeqInv, TypeInv, TypeOK, TableType, DurableType, ReplayType,
      Control, TailInv, RedoRecord, LogInv, OpenSeqInv, ReplaySeqInv
<1>6. CASE LogSynced
  <2>1. TailInv'
    BY Zenon, <1>6, NoRows, RecordType, TailAppended DEF LogSynced, Unlock,
        BatchAck, BatchFreed, SeqInv, TypeInv, TypeOK, TableType, DurableType,
        ReplayType, Control, TailInv, RedoRecord
  <2>2. LogInv'
    BY Zenon, <1>6, LogGrows DEF LogSynced, LogInv, TypeInv, TypeOK, TableType
  <2>3. OpenSeqInv'
    <3>1. /\ wal' = wal \o wal_tail /\ ckpt' = ckpt /\ op = "log"
          /\ commit_seq' = commit_seq + 1
      BY Zenon, <1>6 DEF LogSynced
    <3>2. /\ Len(wal') = Len(wal) + 1 /\ wal'[Len(wal) + 1].seq = commit_seq + 1
          /\ \A i \in 1..Len(wal) : wal'[i] = wal[i]
      BY Zenon, <3>1, TailAppended DEF SeqInv
    <3>3. /\ \A i \in 1..Len(wal) : wal[i].seq \in Nat /\ wal[i].seq <= commit_seq
          /\ \A p \in Part : ckpt[p] \in Nat /\ ckpt[p] <= commit_seq
          /\ commit_seq \in Nat /\ Len(wal) \in Nat
      BY <3>1, RecordType DEF SeqInv, OpenSeqInv, TypeInv, TypeOK, TableType,
          DurableType
    <3>4. \A i \in 1..Len(wal') : i \in 1..Len(wal) \/ i = Len(wal) + 1
      BY <3>2, <3>3
    <3>5. \A i \in 1..Len(wal') : wal'[i].seq <= commit_seq'
      BY <3>1, <3>2, <3>3, <3>4
    <3>6. \A p \in Part : ckpt'[p] <= commit_seq'
      BY <3>1, <3>3
    <3> QED
      BY Zenon, <3>5, <3>6 DEF OpenSeqInv
  <2>4. ReplaySeqInv'
    BY Zenon, <1>6, NoRows, RecordType, TailAppended DEF LogSynced, Unlock,
        BatchAck, BatchFreed, SeqInv, TypeInv, TypeOK, TableType, DurableType,
        ReplayType, Control, ReplaySeqInv, LogInv
  <2> QED
    BY Zenon, <2>1, <2>2, <2>3, <2>4 DEF SeqInv
<1>7. CASE LogFailed
  BY Zenon, <1>7, NoRows, RecordType DEF LogFailed, Unlock, BatchFails, Fault,
      SeqInv, TypeInv, TypeOK, TableType, DurableType, ReplayType, Control,
      TailInv, RedoRecord, LogInv, OpenSeqInv, ReplaySeqInv
<1>8. CASE CommitFlush
  BY Zenon, <1>8, RecordType DEF CommitFlush, Lock, SeqInv, TypeInv, TypeOK,
      TableType, DurableType, ReplayType, Control, TailInv, RedoRecord,
      LogInv, OpenSeqInv, ReplaySeqInv
<1>9. CASE CommitFlushed
  BY Zenon, <1>9, NoRows, RecordType DEF CommitFlushed, Unlock, BatchAck,
      BatchFreed, BatchFails, Fault, SeqInv, TypeInv, TypeOK, TableType,
      DurableType, ReplayType, Control, TailInv, RedoRecord, LogInv, OpenSeqInv,
      ReplaySeqInv
<1>10. CASE BatchFlushed
  BY Zenon, <1>10, NoRows, RecordType DEF BatchFlushed, Unlock, SeqInv, TypeInv,
      TypeOK, TableType, DurableType, ReplayType, Control, TailInv,
      RedoRecord, LogInv, OpenSeqInv, ReplaySeqInv
<1>11. CASE BatchDiscard
  BY Zenon, <1>11, NoRows, RecordType DEF BatchDiscard, BatchFreed, DiscardTo,
      SeqInv, TypeInv, TypeOK, TableType, DurableType, ReplayType, Control,
      TailInv, RedoRecord, LogInv, OpenSeqInv, ReplaySeqInv
<1>12. CASE BatchRetain
  BY Zenon, <1>12, RecordType DEF BatchRetain, BatchFreed, SeqInv, TypeInv,
      TypeOK, TableType, DurableType, ReplayType, Control, TailInv, RedoRecord,
      LogInv, OpenSeqInv, ReplaySeqInv
<1> QED
  BY Zenon, <1>1, <1>2, <1>3, <1>4, <1>5, <1>6, <1>7, <1>8, <1>9, <1>10, <1>11,
      <1>12 DEF BatchSteps

\* The commit-sequence invariant is kept by the steps of a part flush.
LEMMA SeqKeepsFlush ==
    ASSUME TypeInv, SeqInv, FlushSteps
    PROVE  SeqInv'
<1> USE DEF durable, table, batch, holder, replay, history, bounds
<1>1. CASE FlushEmptyOrFrozen
  BY Zenon, <1>1, NoRows, RecordType DEF FlushEmptyOrFrozen, FlushReturns,
      SeqInv, TypeInv, TypeOK, TableType, DurableType, ReplayType, Control,
      TailInv, RedoRecord, LogInv, OpenSeqInv, ReplaySeqInv
<1>2. CASE FlushSkipLocal
  BY <1>2, NoRows, RecordType DEF FlushSkipLocal, FlushReturns,
      WalTruncateIfSafe, TruncateLog, MemtableDrained, SkipReplicate, SeqInv,
      TypeInv, TypeOK, TableType, DurableType, ReplayType, Control, TailInv,
      RedoRecord, LogInv, OpenSeqInv, ReplaySeqInv
<1>3. CASE FlushStart
  BY Zenon, <1>3, NoRows, RecordType DEF FlushStart, SeqInv, TypeInv, TypeOK,
      TableType, DurableType, ReplayType, Control, TailInv, RedoRecord,
      LogInv, OpenSeqInv, ReplaySeqInv
<1>4. ASSUME NEW p \in Part, FlushPublish(p) PROVE SeqInv'
  <2>1. TailInv' /\ LogInv'
    BY Zenon, <1>4 DEF FlushPublish, SeqInv, TailInv, RedoRecord, LogInv
  <2>2. OpenSeqInv' /\ ReplaySeqInv'
    BY <1>4, RecordType DEF FlushPublish, NextPart, Stamp, Max2, SeqInv,
        TypeInv, TypeOK, TableType, DurableType, ReplayType, Control,
        OpenSeqInv, ReplaySeqInv
  <2> QED
    BY Zenon, <2>1, <2>2 DEF SeqInv
<1>5. CASE FlushFail
  BY Zenon, <1>5, RecordType DEF FlushFail, FlushReturns, Fault,
      PartlyPublished, Mishaps, SeqInv, TypeInv, TypeOK, TableType, DurableType,
      ReplayType, Control, TailInv, RedoRecord, LogInv, OpenSeqInv, ReplaySeqInv
<1>6. CASE FlushFinish
  <2>1. TailInv'
    BY Zenon, <1>6, NoRows, RecordType DEF FlushFinish, FlushReturns,
        WalTruncateIfSafe, TruncateLog, MemtableDrained, Fault, SeqInv, TypeInv,
        TypeOK, TableType, DurableType, ReplayType, Control, TailInv, RedoRecord
  <2>2. /\ wal' \in {wal, <<>>} /\ UNCHANGED <<ncols, commit_seq, ckpt, op>>
    BY Zenon, <1>6 DEF FlushFinish, WalTruncateIfSafe, TruncateLog
  <2>3. LogInv' /\ OpenSeqInv'
    BY Zenon, <2>2, LogKept DEF SeqInv
  <2>4. ReplaySeqInv'
    BY Zenon, <1>6, NoRows, RecordType DEF FlushFinish, FlushReturns,
        WalTruncateIfSafe, TruncateLog, MemtableDrained, Fault, SeqInv, TypeInv,
        TypeOK, TableType, DurableType, ReplayType, Control, ReplaySeqInv,
        LogInv
  <2> QED
    BY Zenon, <2>1, <2>3, <2>4 DEF SeqInv
<1> QED
  BY Zenon, <1>1, <1>2, <1>3, <1>4, <1>5, <1>6 DEF FlushSteps

\* The commit-sequence invariant is kept by the steps of ALTER, DELETE,
\* TRUNCATE and the periodic flush.
LEMMA SeqKeepsMaint ==
    ASSUME TypeInv, SeqInv, MaintSteps
    PROVE  SeqInv'
<1> USE DEF durable, table, batch, holder, replay, history, bounds
<1>1. CASE MaintFlush
  BY Zenon, <1>1, RecordType DEF MaintFlush, Lock, SeqInv, TypeInv, TypeOK,
      TableType, DurableType, ReplayType, Control, TailInv, RedoRecord,
      LogInv, OpenSeqInv, ReplaySeqInv
<1>2. CASE AlterAddColumn
  BY Zenon, <1>2, RecordType DEF AlterAddColumn, Lock, SeqInv, TypeInv, TypeOK,
      TableType, DurableType, ReplayType, Control, TailInv, RedoRecord,
      LogInv, OpenSeqInv, ReplaySeqInv
<1>3. CASE FlushedAndDone
  <2>1. TailInv'
    BY Zenon, <1>3, NoRows, RecordType DEF FlushedAndDone, Unlock, Fault,
        SeqInv, TypeInv, TypeOK, TableType, DurableType, ReplayType, Control,
        TailInv, RedoRecord
  <2>2. LogInv'
    <3>1. wal' = wal /\ ncols' \in {ncols, ncols + 1} /\ ncols \in Nat
      BY Zenon, <1>3 DEF FlushedAndDone, TypeInv, TypeOK, DurableType
    <3>2. \A i \in 1..Len(wal) : wal[i].ncols \in Nat
      BY Zenon, RecordType DEF TypeInv
    <3> QED
      BY <3>1, <3>2 DEF SeqInv, LogInv
  <2>3. OpenSeqInv'
    BY Zenon, <1>3, NoRows, RecordType DEF FlushedAndDone, Unlock, Fault,
        SeqInv, TypeInv, TypeOK, TableType, DurableType, ReplayType, Control,
        OpenSeqInv, ReplaySeqInv, LogInv
  <2>4. ReplaySeqInv'
    BY Zenon, <1>3, NoRows, RecordType DEF FlushedAndDone, Unlock, Fault,
        SeqInv, TypeInv, TypeOK, TableType, DurableType, ReplayType, Control,
        ReplaySeqInv, LogInv
  <2> QED
    BY Zenon, <2>1, <2>2, <2>3, <2>4 DEF SeqInv
<1>4. CASE DeleteRange
  BY Zenon, <1>4, RecordType DEF DeleteRange, Lock, CoveredBy, SeqInv, TypeInv,
      TypeOK, TableType, DurableType, ReplayType, Control, TailInv,
      RedoRecord, LogInv, OpenSeqInv, ReplaySeqInv
<1>5. CASE DeleteFlushed
  BY Zenon, <1>5, RecordType DEF DeleteFlushed, SeqInv, TypeInv, TypeOK,
      TableType, DurableType, ReplayType, Control, TailInv, RedoRecord, LogInv,
      OpenSeqInv, ReplaySeqInv
<1>6. CASE TruncateTable
  <2>1. TailInv'
    BY Zenon, <1>6, NoRows, RecordType DEF TruncateTable, WalTruncate, Lock,
        Fault, SeqInv, TypeInv, TypeOK, TableType, DurableType, ReplayType,
        Control, TailInv, RedoRecord
  <2>2. /\ wal' \in {wal, <<>>} /\ UNCHANGED <<ncols, commit_seq, ckpt>>
        /\ op = "none"
    BY Zenon, <1>6 DEF TruncateTable, WalTruncate
  <2>3. LogInv' /\ OpenSeqInv'
    BY <2>2, LogKept DEF SeqInv
  <2>4. ReplaySeqInv'
    BY Zenon, <1>6, NoRows, RecordType DEF TruncateTable, WalTruncate, Lock,
        Fault, SeqInv, TypeInv, TypeOK, TableType, DurableType, ReplayType,
        Control, ReplaySeqInv, LogInv
  <2> QED
    BY Zenon, <2>1, <2>3, <2>4 DEF SeqInv
<1>7. ASSUME NEW p \in Part, RemovePart(p) PROVE SeqInv'
  <2>1. /\ UNCHANGED <<wal, ncols, commit_seq, mem, mem_logged, op, wal_tail>>
        /\ UNCHANGED wal_incomplete /\ op \notin {"log", "down", "replay"}
    BY <1>7 DEF RemovePart, TypeInv, Control
  <2>2. \A q \in Part : ckpt'[q] \in {0, ckpt[q]}
    BY <1>7 DEF RemovePart, TypeInv, TypeOK, DurableType
  <2>3. LogInv' /\ OpenSeqInv'
    BY Zenon, <2>1, <2>2, LogKept DEF SeqInv
  <2> QED
    BY Zenon, <2>1, <2>3 DEF SeqInv, TailInv, ReplaySeqInv
<1>8. CASE RemoveDone
  BY Zenon, <1>8, NoRows, RecordType DEF RemoveDone, Unlock, SeqInv, TypeInv,
      TypeOK, TableType, DurableType, ReplayType, Control, TailInv,
      RedoRecord, LogInv, OpenSeqInv, ReplaySeqInv
<1>9. CASE TruncateIfEmpty
  <2>1. /\ UNCHANGED <<ncols, commit_seq, mem, op, wal_tail>>
        /\ wal' \in {wal, <<>>} /\ op = "none"
    BY Zenon, <1>9 DEF TruncateIfEmpty, WalTruncate
  <2>2. \A q \in Part : ckpt'[q] \in {0, ckpt[q]}
    BY <1>9 DEF TruncateIfEmpty
  <2>3. LogInv' /\ OpenSeqInv'
    BY <2>1, <2>2, LogKept DEF SeqInv
  <2> QED
    BY <2>1, <2>3 DEF SeqInv, TailInv, ReplaySeqInv
<1> QED
  BY Zenon, <1>1, <1>2, <1>3, <1>4, <1>5, <1>6, <1>7, <1>8, <1>9 DEF
      MaintSteps

\* The commit-sequence invariant is kept by a crash, a close, an open and the
\* replay of one record.
LEMMA SeqKeepsRestart ==
    ASSUME TypeInv, SeqInv, RestartSteps
    PROVE  SeqInv'
<1> USE DEF durable, table, batch, holder, replay, history, bounds
<1>1. CASE Crash
  <2>1. op # "log" => wal' = wal
    BY Zenon, <1>1, ConcatEmptySeq DEF Crash, SeqInv, TailInv, TypeInv, TypeOK,
        DurableType
  <2>2. LogInv'
    <3>1. CASE wal' = wal
      BY Zenon, <1>1, <3>1 DEF Crash, SeqInv, LogInv
    <3>2. CASE op = "log" /\ wal' = wal \o wal_tail
      BY Zenon, <1>1, <3>2, LogGrows DEF Crash, LogInv
    <3> QED
      BY Zenon, <1>1, <2>1, <3>1, <3>2 DEF Crash
  <2> QED
    BY Zenon, <1>1, <2>2, NoRows DEF Crash, MemoryLost, SeqInv, TailInv,
        OpenSeqInv, ReplaySeqInv
<1>2. CASE Close
  BY Zenon, <1>2, RecordType DEF Close, Lock, SeqInv, TypeInv, TypeOK,
      TableType, DurableType, ReplayType, Control, TailInv, RedoRecord, LogInv,
      OpenSeqInv, ReplaySeqInv
<1>3. CASE Closed
  BY Zenon, <1>3, NoRows, RecordType DEF Closed, MemoryLost, BatchFreed,
      SeqInv, TypeInv, TypeOK, TableType, DurableType, ReplayType, Control,
      TailInv, RedoRecord, LogInv, OpenSeqInv, ReplaySeqInv
<1>4. CASE Open
  BY <1>4, RecordType DEF Open, Lock, SeqInv, TypeInv, TypeOK, TableType,
      DurableType, ReplayType, Control, TailInv, RedoRecord, LogInv,
      OpenSeqInv, ReplaySeqInv
<1>5. CASE ReplaySkip
  <2>1. TailInv'
    BY Zenon, <1>5, RecordType DEF ReplaySkip, Scanning, SeqInv, TypeInv,
        TypeOK, TableType, DurableType, ReplayType, Control, TailInv, RedoRecord
  <2>2. LogInv'
    BY Zenon, <1>5, RecordType DEF ReplaySkip, Scanning, SeqInv, TypeInv,
        TypeOK, TableType, DurableType, ReplayType, Control, LogInv, TailInv,
        OpenSeqInv
  <2>3. OpenSeqInv'
    BY Zenon, <1>5, RecordType DEF ReplaySkip, Scanning, SeqInv, TypeInv,
        TypeOK, TableType, DurableType, ReplayType, Control, OpenSeqInv,
        ReplaySeqInv, LogInv
  <2>4. ReplaySeqInv'
    BY <1>5, RecordType DEF ReplaySkip, Scanning, SeqInv, TypeInv, TypeOK,
        TableType, DurableType, ReplayType, Control, ReplaySeqInv, LogInv
  <2> QED
    BY Zenon, <2>1, <2>2, <2>3, <2>4 DEF SeqInv
<1>6. CASE ReplayApply
  <2>1. /\ UNCHANGED <<wal, ncols, commit_seq, ckpt, cpmap, op, wal_tail>>
        /\ op = "replay" /\ pos' = pos + 1 /\ pos <= Len(wal)
        /\ last_complete' = wal[pos].seq
    BY Zenon, <1>6 DEF ReplayApply, Scanning, MustApply
  <2>2. LogInv' /\ OpenSeqInv'
    BY Zenon, <2>1, LogKept DEF SeqInv
  <2>3. \A i \in pos + 1..Len(wal) :
            i \in pos..Len(wal) /\ wal[i].seq > wal[pos].seq
    BY <2>1, RecordType DEF TypeInv, TypeOK, DurableType, ReplayType, SeqInv,
        LogInv
  <2>4. ReplaySeqInv'
    BY Zenon, <2>1, <2>3 DEF SeqInv, ReplaySeqInv
  <2> QED
    BY <2>1, <2>2, <2>4 DEF SeqInv, TailInv
<1>7. CASE ReplayFlush
  <2>1. TailInv'
    BY Zenon, <1>7, RecordType DEF ReplayFlush, Scanning, MustApply, Max2,
        SeqInv, TypeInv, TypeOK, TableType, DurableType, ReplayType, Control,
        TailInv, RedoRecord, Fits
  <2>2. LogInv'
    BY Zenon, <1>7, RecordType DEF ReplayFlush, Scanning, MustApply, Max2,
        SeqInv, TypeInv, TypeOK, TableType, DurableType, ReplayType, Control,
        LogInv, TailInv, OpenSeqInv, Fits
  <2>3. OpenSeqInv'
    BY Zenon, <1>7, RecordType DEF ReplayFlush, Scanning, MustApply, Max2,
        SeqInv, TypeInv, TypeOK, TableType, DurableType, ReplayType, Control,
        OpenSeqInv, ReplaySeqInv, LogInv, Fits
  <2>4. ReplaySeqInv'
    <3>1. /\ UNCHANGED <<wal, ckpt, cpmap, op, pos, mem, last_complete>>
          /\ op = "replay" /\ commit_seq' = Max2(last_complete, commit_seq)
          /\ mem # <<>>
      BY <1>7, NoRows DEF ReplayFlush, Scanning, MustApply, Fits
    <3>2. commit_seq \in Nat /\ last_complete \in Nat
          /\ \A p \in Part : ckpt[p] \in Nat
      BY DEF TypeInv, TypeOK, TableType, DurableType, ReplayType
    <3>3. /\ \A i \in pos..Len(wal) : wal[i].seq > commit_seq'
          /\ \A p \in Part : ckpt[p] <= commit_seq => ckpt[p] <= commit_seq'
      BY <3>1, <3>2 DEF SeqInv, ReplaySeqInv, Max2
    <3> QED
      BY Zenon, <3>1, <3>3 DEF SeqInv, ReplaySeqInv
  <2> QED
    BY Zenon, <2>1, <2>2, <2>3, <2>4 DEF SeqInv
<1>8. CASE ReplayFlushed
  BY Zenon, <1>8, RecordType DEF ReplayFlushed, SeqInv, TypeInv, TypeOK,
      TableType, DurableType, ReplayType, Control, TailInv, RedoRecord, LogInv,
      OpenSeqInv, ReplaySeqInv
<1> QED
  BY Zenon, <1>1, <1>2, <1>3, <1>4, <1>5, <1>6, <1>7, <1>8 DEF
      RestartSteps

\* The commit-sequence invariant is kept by the two ways a recovery ends.
LEMMA SeqKeepsRecoveryEnd ==
    ASSUME TypeInv, SeqInv, RecoveryEndSteps
    PROVE  SeqInv'
<1> USE DEF durable, table, batch, holder, replay, history, bounds
<1>1. CASE ReplayDone
  <2>1. TailInv'
    BY Zenon, <1>1, NoRows, RecordType DEF ReplayDone, Scanning, RecoveryEnds,
        Unlock, IsHighestSeq, SeqsSeen, SeqInv, TypeInv, TypeOK, TableType,
        DurableType, ReplayType, Control, TailInv, RedoRecord
  <2>2. LogInv'
    BY Zenon, <1>1, NoRows, RecordType DEF ReplayDone, Scanning, RecoveryEnds,
        Unlock, IsHighestSeq, SeqsSeen, SeqInv, TypeInv, TypeOK, TableType,
        DurableType, ReplayType, Control, LogInv, TailInv, OpenSeqInv
  <2>3. OpenSeqInv'
    <3>1. \A s \in SeqsSeen : s <= commit_seq'
      BY Zenon, <1>1 DEF ReplayDone, RecoveryEnds, IsHighestSeq
    <3>2. \A i \in 1..Len(wal) : wal[i].seq <= commit_seq'
      BY Zenon, <3>1 DEF SeqsSeen
    <3>3. \A p \in Part : cpmap[p] <= commit_seq' /\ commit_seq <= commit_seq'
      BY Zenon, <3>1 DEF SeqsSeen
    <3>4. commit_seq' \in Nat
      BY Zenon, <1>1, SeqsSeenType DEF ReplayDone, RecoveryEnds, TypeInv
    <3>5. op = "replay" /\ wal' = wal /\ ckpt' = ckpt
      BY Zenon, <1>1 DEF ReplayDone, Scanning, RecoveryEnds
    <3>6. \A p \in Part : /\ ckpt[p] \in Nat /\ cpmap[p] \in Nat
                          /\ ckpt[p] <= cpmap[p] \/ ckpt[p] <= commit_seq
      BY Zenon, <3>5 DEF SeqInv, ReplaySeqInv, TypeInv, TypeOK, DurableType,
          ReplayType
    <3>7. commit_seq \in Nat
      BY Zenon DEF TypeInv, TypeOK, TableType
    <3>8. \A p \in Part : ckpt[p] <= commit_seq'
      BY <3>3, <3>4, <3>6, <3>7
    <3> QED
      BY Zenon, <3>2, <3>5, <3>8 DEF OpenSeqInv
  <2>4. ReplaySeqInv'
    BY Zenon, <1>1, NoRows, RecordType DEF ReplayDone, Scanning, RecoveryEnds,
        Unlock, IsHighestSeq, SeqsSeen, SeqInv, TypeInv, TypeOK, TableType,
        DurableType, ReplayType, Control, ReplaySeqInv, LogInv
  <2> QED
    BY Zenon, <2>1, <2>2, <2>3, <2>4 DEF SeqInv
<1>2. CASE ReplayAbort
  <2>1. TailInv'
    BY Zenon, <1>2, NoRows, RecordType DEF ReplayAbort, Scanning, RecoveryEnds,
        Unlock, IsHighestSeq, SeqsSeen, Mishaps, UnreadUncovered, SeqInv,
        TypeInv, TypeOK, TableType, DurableType, ReplayType, Control, TailInv,
        RedoRecord
  <2>2. LogInv'
    BY Zenon, <1>2, NoRows, RecordType DEF ReplayAbort, Scanning, RecoveryEnds,
        Unlock, IsHighestSeq, SeqsSeen, Mishaps, UnreadUncovered, SeqInv,
        TypeInv, TypeOK, TableType, DurableType, ReplayType, Control, LogInv,
        TailInv, OpenSeqInv
  <2>3. OpenSeqInv'
    <3>1. \A s \in SeqsSeen : s <= commit_seq'
      BY Zenon, <1>2 DEF ReplayAbort, RecoveryEnds, IsHighestSeq
    <3>2. \A i \in 1..Len(wal) : wal[i].seq <= commit_seq'
      BY Zenon, <3>1 DEF SeqsSeen
    <3>3. \A p \in Part : cpmap[p] <= commit_seq' /\ commit_seq <= commit_seq'
      BY Zenon, <3>1 DEF SeqsSeen
    <3>4. commit_seq' \in Nat
      BY Zenon, <1>2, SeqsSeenType DEF ReplayAbort, RecoveryEnds, TypeInv
    <3>5. op = "replay" /\ wal' = wal /\ ckpt' = ckpt
      BY Zenon, <1>2 DEF ReplayAbort, Scanning, RecoveryEnds
    <3>6. \A p \in Part : /\ ckpt[p] \in Nat /\ cpmap[p] \in Nat
                          /\ ckpt[p] <= cpmap[p] \/ ckpt[p] <= commit_seq
      BY Zenon, <3>5 DEF SeqInv, ReplaySeqInv, TypeInv, TypeOK, DurableType,
          ReplayType
    <3>7. commit_seq \in Nat
      BY Zenon DEF TypeInv, TypeOK, TableType
    <3>8. \A p \in Part : ckpt[p] <= commit_seq'
      BY <3>3, <3>4, <3>6, <3>7
    <3> QED
      BY Zenon, <3>2, <3>5, <3>8 DEF OpenSeqInv
  <2>4. ReplaySeqInv'
    BY Zenon, <1>2, NoRows, RecordType DEF ReplayAbort, Scanning, RecoveryEnds,
        Unlock, IsHighestSeq, SeqsSeen, Mishaps, UnreadUncovered, SeqInv,
        TypeInv, TypeOK, TableType, DurableType, ReplayType, Control,
        ReplaySeqInv, LogInv
  <2> QED
    BY Zenon, <2>1, <2>2, <2>3, <2>4 DEF SeqInv
<1> QED
  BY Zenon, <1>1, <1>2 DEF RecoveryEndSteps

\* Every step of the table preserves the sequence-number invariant.
LEMMA SeqStep ==
    TypeInv /\ SeqInv /\ [Next]_vars => SeqInv'
<1> SUFFICES ASSUME TypeInv, SeqInv, [Next]_vars
    PROVE  SeqInv'
  OBVIOUS
<1>1. CASE UNCHANGED vars
  BY Zenon, <1>1 DEF vars, durable, table, batch, holder, replay, history,
      bounds, SeqInv, TailInv, RedoRecord, LogInv, OpenSeqInv, ReplaySeqInv
<1> QED
  BY Zenon, <1>1, NextSteps, SeqKeepsBatch, SeqKeepsFlush, SeqKeepsMaint,
      SeqKeepsRestart, SeqKeepsRecoveryEnd

-----------------------------------------------------------------------------
(* Theorems.                                                               *)

\* Commit sequence numbers are never reused: the log's records are in order and
\* an open table's next number is above every record and every checkpoint, even
\* when DELETE overlaps batches.
THEOREM SeqNeverReusedHolds == Spec => []SeqNeverReused
<1>1. Init => TypeInv /\ SeqInv
  BY Zenon, TypeInit, SeqInit
<1>2. TypeInv /\ SeqInv /\ [Next]_vars => (TypeInv /\ SeqInv)'
  BY Zenon, TypeStep, SeqStep
<1>3. SeqInv => SeqNeverReused
  BY Zenon DEF SeqInv, LogInv, OpenSeqInv, SeqNeverReused
<1> QED
  BY <1>1, <1>2, <1>3, PTL DEF Spec

\* What a step may never do to a frozen table: shorten its log, or move a
\* checkpoint other than by removing its partition.
LEMMA FrozenStep ==
    ASSUME TypeInv, SeqInv, [Next]_vars, wal_incomplete, op' # "truncate"
    PROVE  wal' = wal /\ \A p \in Part : ckpt'[p] \in {0, ckpt[p]}
<1> USE DEF durable, table, batch, holder, replay, history, bounds
<1>1. op # "log" /\ wal_tail = <<>> /\ wal \in Seq(Record)
      /\ pc # "publish" /\ op # "replay" /\ ckpt \in [Part -> Nat]
  BY Zenon DEF TypeInv, TypeOK, DurableType, Control, SeqInv, TailInv
<1>2. wal \o wal_tail = wal
  BY Zenon, <1>1, ConcatEmptySeq
<1>3. CASE Crash
  BY Zenon, <1>2, <1>3 DEF Crash
<1>4. ASSUME NEW q \in Part, RemovePart(q)
      PROVE  wal' = wal /\ \A p \in Part : ckpt'[p] \in {0, ckpt[p]}
  BY Zenon, <1>1, <1>4 DEF RemovePart
<1>5. CASE UNCHANGED <<wal, ckpt>>
  BY Zenon, <1>5
<1> QED
  BY ZenonT(40), <1>1, <1>3, <1>4, <1>5 DEF Next, vars, BatchBegin, RowAppend,
      RowFlush, BulkFlush, CommitLog, LogSynced, LogFailed, CommitFlush,
      CommitFlushed, BatchFlushed, BatchDiscard, BatchRetain,
      FlushEmptyOrFrozen, FlushSkipLocal, FlushStart, FlushPublish, FlushFail,
      FlushFinish, MaintFlush, AlterAddColumn, FlushedAndDone, DeleteRange,
      DeleteFlushed, TruncateTable, Lock, RemoveDone, TruncateIfEmpty,
      LooksEmpty, Close, Closed, Open, ReplaySkip, ReplayApply, ReplayFlush,
      ReplayFlushed, ReplayDone, ReplayAbort, RecoveryEnds

\* A frozen table keeps its log and advances no checkpoint until an operator
\* truncates it, whatever else runs.
THEOREM FrozenKeepsLogHolds == Spec => FrozenKeepsLog
<1>1. Init => TypeInv /\ SeqInv
  BY Zenon, TypeInit, SeqInit
<1>2. TypeInv /\ SeqInv /\ [Next]_vars => (TypeInv /\ SeqInv)'
  BY Zenon, TypeStep, SeqStep
<1>3. TypeInv /\ SeqInv /\ [Next]_vars =>
        [wal_incomplete /\ op' # "truncate" =>
            wal' = wal /\ \A p \in Part : ckpt'[p] \in {0, ckpt[p]}]_vars
  BY Zenon, FrozenStep
<1> QED
  BY <1>1, <1>2, <1>3, PTL DEF Spec, FrozenKeepsLog

\* Nothing that went wrong is forgotten.
LEMMA MishapsKept == [Next]_vars => mishaps \subseteq mishaps'
  BY Zenon DEF Next, vars, history, Mishaps, BatchBegin, RowAppend, RowFlush,
      BulkFlush, CommitLog, LogSynced, LogFailed, CommitFlush, CommitFlushed,
      BatchFlushed, BatchDiscard, BatchRetain, FlushEmptyOrFrozen,
      FlushSkipLocal, FlushStart, FlushPublish, FlushFail, FlushFinish,
      MaintFlush, AlterAddColumn, FlushedAndDone, DeleteRange, DeleteFlushed,
      TruncateTable, RemovePart, RemoveDone, TruncateIfEmpty, Crash, Close,
      Closed, Open, ReplaySkip, ReplayApply, ReplayFlush, ReplayFlushed,
      ReplayDone, ReplayAbort
=============================================================================
