---------------------------- MODULE GroupCommit ----------------------------
(***************************************************************************)
(* Group commit of a write-ahead log (src/storage/wal.c): writers append   *)
(* under the mutex and sleep on done_cv; one background thread captures    *)
(* the last sequence number, calls fsync without the mutex, publishes the  *)
(* number and the result, and wakes them.                                  *)
(*                                                                         *)
(* Every action is one critical section.  The batch window may end at any  *)
(* time, so the eager count of waiters, which only ends it sooner, is left *)
(* out.  A failed fsync loses the pages it was to write: the kernel marks  *)
(* them clean, and a later fsync does not retry them.                      *)
(***************************************************************************)
EXTENDS Integers

CONSTANTS
    Writer,    \* threads that call tsdb_wal_append_sync
    MaxSeq,    \* bound: appends
    MaxFaults  \* bound: appends and fsyncs that fail

ASSUME GroupCommitAssumption == MaxSeq \in Nat /\ MaxFaults \in Nat

VARIABLES
    write_seq, fsynced_seq, stop, last_fsync_rc,  \* struct tsdb_group_commit
    writer,    \* each writer: where it is, its number, whether it sleeps
    bg,        \* the background thread: where it is, its target, sleeping
    record,    \* what became of each record: "none", "dirty", "durable", "lost"
    masked,    \* history: lost records whose failure a later fsync hides
    faults     \* faults so far

cvars == <<write_seq, fsynced_seq, stop, last_fsync_rc, writer, bg, record,
           masked, faults>>

Seq1 == 1..MaxSeq

CommitTypeOK ==
    /\ write_seq \in 0..MaxSeq /\ fsynced_seq \in 0..write_seq
    /\ stop \in 0..2 /\ last_fsync_rc \in {"ok", "error"}
    /\ writer \in [Writer -> [pc : {"idle", "waiting", "ok", "error"},
                              seq : 0..MaxSeq, asleep : BOOLEAN]]
    /\ bg \in [pc : {"idle", "batch", "fsync", "yield", "final", "done"},
               target : 0..MaxSeq, asleep : BOOLEAN]
    /\ record \in [Seq1 -> {"none", "dirty", "durable", "lost"}]
    /\ masked \in SUBSET Seq1
    /\ faults \in 0..MaxFaults

CommitInit ==
    /\ write_seq = 0 /\ fsynced_seq = 0 /\ stop = 0 /\ last_fsync_rc = "ok"
    /\ writer = [w \in Writer |-> [pc |-> "idle", seq |-> 0, asleep |-> FALSE]]
    /\ bg = [pc |-> "idle", target |-> 0, asleep |-> FALSE]
    /\ record = [s \in Seq1 |-> "none"]
    /\ masked = {}
    /\ faults = 0

Lost == {s \in Seq1 : record[s] = "lost"}

-----------------------------------------------------------------------------
(* tsdb_wal_append_sync.                                                   *)

\* The signal is missing.
SignalledNobody(t) == t
\* pthread_cond_signal(append_cv) wakes the background thread.
Signalled(t) == [t EXCEPT !.asleep = FALSE]

Ready(w) == writer[w].pc # "waiting"

Append(w) ==
    /\ Ready(w) /\ stop = 0 /\ write_seq < MaxSeq
    /\ write_seq' = write_seq + 1
    /\ record' = [record EXCEPT ![write_seq + 1] = "dirty"]
    /\ writer' = [writer EXCEPT ![w] =
                    [pc |-> "waiting", seq |-> write_seq + 1, asleep |-> TRUE]]
    /\ bg' = Signalled(bg)
    /\ UNCHANGED <<fsynced_seq, stop, last_fsync_rc, masked, faults>>

\* The append fails, or group commit is stopping.
AppendFails(w) ==
    /\ Ready(w)
    /\ IF stop # 0 THEN UNCHANGED faults
       ELSE faults < MaxFaults /\ faults' = faults + 1
    /\ writer' = [writer EXCEPT ![w] = [pc |-> "error", seq |-> 0, asleep |-> FALSE]]
    /\ UNCHANGED <<write_seq, fsynced_seq, stop, last_fsync_rc, bg, record, masked>>

\* A woken writer looks again: it sleeps on, or returns by the result of the
\* last fsync.
Wake(w) ==
    /\ writer[w].pc = "waiting" /\ ~writer[w].asleep
    /\ writer' = [writer EXCEPT ![w] =
          IF fsynced_seq < writer[w].seq /\ stop < 2 THEN [@ EXCEPT !.asleep = TRUE]
          ELSE [@ EXCEPT !.pc = last_fsync_rc]]
    /\ UNCHANGED <<write_seq, fsynced_seq, stop, last_fsync_rc, bg, record, masked, faults>>

\* pthread_cond_broadcast(done_cv).
AllWoken == [w \in Writer |-> [writer[w] EXCEPT !.asleep = FALSE]]

-----------------------------------------------------------------------------
(* gc_bg_thread.                                                           *)

BgIdle ==
    /\ bg.pc = "idle" /\ ~bg.asleep
    /\ bg' = IF stop # 0 THEN [bg EXCEPT !.pc = "final", !.target = write_seq]
             ELSE IF write_seq = fsynced_seq THEN [bg EXCEPT !.asleep = TRUE]
             ELSE [bg EXCEPT !.pc = "batch"]
    /\ UNCHANGED <<write_seq, fsynced_seq, stop, last_fsync_rc, writer, record, masked, faults>>

\* The window is over: the target is captured before the mutex is released.
BgBatch ==
    /\ bg.pc = "batch"
    /\ bg' = [bg EXCEPT !.pc = IF stop # 0 THEN "final" ELSE "fsync",
                        !.target = write_seq]
    /\ UNCHANGED <<write_seq, fsynced_seq, stop, last_fsync_rc, writer, record, masked, faults>>

\* fsync: what was written when it was called, which may be more than was
\* when the mutex was released.
Written(t, result) ==
    [s \in Seq1 |-> IF s <= t /\ record[s] = "dirty" THEN result ELSE record[s]]

\* The number of the next append is taken for that of the last.
CoveredNext == bg.target + 1
\* The number of the last append is read after the fsync.
CoveredLate == write_seq
\* What the fsync covers: target_seq.
Covered == bg.target

\* The result of the fsync is ignored.
ResultIgnored(ok) == "ok"
Result(ok) == IF ok THEN "ok" ELSE "error"

Fault(ok) ==
    IF ok THEN UNCHANGED faults ELSE faults < MaxFaults /\ faults' = faults + 1

BgFsync(ok) ==
    /\ bg.pc = "fsync"
    /\ Fault(ok)
    /\ \E t \in bg.target..write_seq :
          record' = Written(t, IF ok THEN "durable" ELSE "lost")
    /\ masked' = IF ok THEN masked \cup Lost ELSE masked
    /\ last_fsync_rc' = Result(ok)
    /\ fsynced_seq' = IF Covered > fsynced_seq THEN Covered ELSE fsynced_seq
    /\ writer' = AllWoken
    /\ bg' = [bg EXCEPT !.pc = "yield"]
    /\ UNCHANGED <<write_seq, stop>>

\* The mutex is released and taken again.
BgYield ==
    /\ bg.pc = "yield"
    /\ bg' = [bg EXCEPT !.pc = "idle"]
    /\ UNCHANGED <<write_seq, fsynced_seq, stop, last_fsync_rc, writer, record, masked, faults>>

\* The last fsync: nobody looks at its result, every waiter is released.
BgFinal(ok) ==
    /\ bg.pc = "final"
    /\ Fault(ok)
    /\ record' = Written(bg.target, IF ok THEN "durable" ELSE "lost")
    /\ masked' = masked \cup {s \in Seq1 : record'[s] = "lost"}
    /\ fsynced_seq' = write_seq
    /\ stop' = 2
    /\ writer' = AllWoken
    /\ bg' = [bg EXCEPT !.pc = "done"]
    /\ UNCHANGED <<write_seq, last_fsync_rc>>

\* tsdb_group_commit_stop up to the join.
Stop ==
    /\ stop = 0
    /\ stop' = 1
    /\ bg' = [bg EXCEPT !.asleep = FALSE]
    /\ UNCHANGED <<write_seq, fsynced_seq, last_fsync_rc, writer, record, masked, faults>>

Background ==
    \/ BgIdle
    \/ BgBatch
    \/ \E ok \in BOOLEAN : BgFsync(ok) \/ BgFinal(ok)
    \/ BgYield

CommitNext ==
    \/ \E w \in Writer : Append(w) \/ AppendFails(w) \/ Wake(w)
    \/ Background
    \/ Stop

\* Threads that are not asleep run.
CommitFairness == WF_cvars(Background) /\ \A w \in Writer : WF_cvars(Wake(w))

CommitSpec == CommitInit /\ [][CommitNext]_cvars /\ CommitFairness

-----------------------------------------------------------------------------
(* Properties.                                                             *)

\* TSDB_OK means the record is on disk (wal.h: "Returns TSDB_OK when the data
\* is durable"), except for a record whose fsync failed and whose writer read
\* the result of a later fsync, or whose fsync was the last one.
OkMeansDurable ==
    \A w \in Writer : writer[w].pc = "ok" =>
        \/ record[writer[w].seq] = "durable"
        \/ writer[w].seq \in masked

\* Every writer that waits returns: no wakeup is lost, through batches that
\* overlap new appends and through stop.
EveryAppendReturns ==
    \A w \in Writer : []<>(writer[w].pc # "waiting")
=============================================================================
