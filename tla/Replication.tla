---------------------------- MODULE Replication ----------------------------
(***************************************************************************)
(* Row-level replication of one table between the nodes of a cluster       *)
(* (src/cluster/cluster.c, replica.c, rpc.c, outbox.c, dedup.c and the     *)
(* hooks of src/storage/db.c and db_cluster.c).  Every node ingests rows   *)
(* and receives rows.  A flush sends the whole memtable to its peers,      *)
(* numbered by the outbox (TSDB_DEDUP=1), through one worker per peer      *)
(* that retries; the flushing thread waits for a quorum while it holds the *)
(* table's write lock.  A receiver drops a numbered batch its ledger has   *)
(* seen, applies any other under the same write lock, and records it.      *)
(* The nodes run in TSDB_WAL_ONLY_COMMIT mode, the mode of a cluster.      *)
(*                                                                         *)
(* Abstractions.  A committed row is durable from its redo record on, so   *)
(* the memtable is the rows of the records no flush has covered yet        *)
(* (TableStore models what a flush and a reopen do in between).  The node  *)
(* states of the gossip layer reduce to a peer being skipped as DEAD.      *)
(* One stream per sender: one table, one incarnation.  The 16 bytes a      *)
(* replay reads at the wrong offset (db.c 2495) land under a stream no     *)
(* sender uses and are left out.                                           *)
(***************************************************************************)
EXTENDS Integers, Sequences, FiniteSets, SequencesExt

CONSTANTS
    Node, Row,
    Scenario,     \* the configurations and fault budgets to start from
    BlockPoints,  \* schema->block_points: memtable capacity in rows
    Chunk,        \* numbers the outbox reserves at a time
    MaxGap,       \* out-of-order numbers a ledger stream holds
    MaxInflight,  \* fan-out workers in flight before sends are dropped
    MaxAttempts,  \* MAX_ATTEMPTS of a fan-out worker
    MaxSends      \* bound: fan-outs of one node

ASSUME SizeAssumption ==
    /\ BlockPoints \in Nat \ {0} /\ Chunk \in Nat \ {0} /\ MaxGap \in Nat
    /\ MaxInflight \in Nat /\ MaxAttempts \in Nat \ {0} /\ MaxSends \in Nat

VARIABLES
    node,     \* the state of each node, on disk and in memory
    batch,    \* the fan-outs each node has started, oldest first
    worker,   \* fan-out workers
    req,      \* WRITE_BATCH requests, from the send to the end of the handler
    applied,  \* history: how often a node applied the i-th fan-out of another
    acked,    \* history: [from, i, to] counted as acknowledged
    unknown,  \* history: [at, from, seq] applied that a ledger cannot know of
    left      \* the scenario: configuration and what may still happen

vars == <<node, batch, worker, req, applied, acked, unknown, left>>

Sharded == left.owner # {}

\* The memtable: the rows of the redo records since the last flush.
MemRows(n) == FlattenSeq([i \in DOMAIN node[n].tail |-> node[n].tail[i].rows])
Occurrences(s, r) == Cardinality({i \in DOMAIN s : s[i] = r})
Holds(n, r) ==
    \/ node[n].disk[r] > 0
    \/ \E k \in DOMAIN node[n].tail : r \in Range(node[n].tail[k].rows)

NoLedger == [n \in Node |-> [frontier |-> 0, gaps |-> {}]]
NoFlush == [wait |-> FALSE, i |-> 0, acks |-> 0, done |-> 0]

Init ==
    /\ left \in Scenario
    /\ node = [n \in Node |->
         [up |-> n \notin left.down, tail |-> <<>>, disk |-> [r \in Row |-> 0],
          local |-> FALSE, received |-> FALSE,
          reserved |-> 0, next |-> 1, base |-> 1,
          led |-> NoLedger, flush |-> NoFlush]]
    /\ batch = [n \in Node |-> <<>>]
    /\ worker = {} /\ req = {}
    /\ applied = [n \in Node |-> [m \in Node |-> [i \in 1..MaxSends |-> 0]]]
    /\ acked = {} /\ unknown = {}

Fail == left.fail > 0 /\ left' = [left EXCEPT !.fail = @ - 1]
LockFree(n) == node[n].up /\ ~node[n].flush.wait

-----------------------------------------------------------------------------
(* The receiver's ledger (dedup.c).                                        *)

\* absorb: the frontier swallows the run of gaps contiguous with it.
Absorb(f, gaps) ==
    LET top == CHOOSE k \in {f} \cup gaps :
                 (f + 1)..k \subseteq gaps /\ (k + 1) \notin gaps
    IN [frontier |-> top, gaps |-> {k \in gaps : k > top}]

Seen(l, seq) == seq <= l.frontier \/ seq \in l.gaps

RecordFull(l, seq) ==
    ~Seen(l, seq) /\ seq # l.frontier + 1 /\ Cardinality(l.gaps) >= MaxGap

Recorded(l, seq) ==
    IF Seen(l, seq) \/ RecordFull(l, seq) THEN l
    ELSE IF seq = l.frontier + 1 THEN Absorb(seq, l.gaps)
    ELSE [l EXCEPT !.gaps = @ \cup {seq}]

SetFrontier(l, f) ==
    IF f > l.frontier THEN Absorb(f, {k \in l.gaps : k > f}) ELSE l

\* The frontier also passes a batch the sender may still be sending.
AdvanceBaseTooFar(l, base) == IF base > 1 THEN SetFrontier(l, base) ELSE l
\* Everything below the sender's base is settled.
AdvanceBase(l, base) == IF base > 1 THEN SetFrontier(l, base - 1) ELSE l

-----------------------------------------------------------------------------
(* The sender's numbering (outbox.c).  Only the reservation is on disk.    *)

\* A sender resumes where its last reservation begins.
ReopenedInReservation(s) ==
    LET first == IF s.reserved < Chunk THEN 1 ELSE s.reserved - Chunk + 1
    IN [s EXCEPT !.next = first, !.base = first]
\* tsdb_outbox_open: resume above the whole reservation.
Reopened(s) == [s EXCEPT !.next = s.reserved + 1, !.base = s.reserved + 1]

\* tsdb_outbox_next: a number is handed out once its chunk is on disk.
Issued(s) ==
    [s EXCEPT !.reserved = IF s.next > @ THEN s.next + Chunk - 1 ELSE @,
              !.next = @ + 1]

-----------------------------------------------------------------------------
(* Ingest and flush.                                                       *)

\* A client's row: appended and redo-logged under the write lock.
Write(n, r) ==
    /\ LockFree(n) /\ r \in left.todo /\ left.home[r] = n
    /\ Len(MemRows(n)) < BlockPoints
    /\ node' = [node EXCEPT ![n].tail =
                    Append(@, [rows |-> <<r>>, from |-> n, i |-> 0, seq |-> 0]),
                  ![n].local = TRUE]
    /\ left' = [left EXCEPT !.todo = @ \ {r}]
    /\ UNCHANGED <<batch, worker, req, applied, acked, unknown>>

\* flush_and_clear_locked after the hook: the rows are published, the
\* memtable and the log are emptied.
Published(s) ==
    [s EXCEPT !.disk = [r \in Row |-> @[r] + Occurrences(
                          FlattenSeq([i \in DOMAIN s.tail |-> s.tail[i].rows]), r)],
              !.tail = <<>>, !.local = FALSE, !.received = FALSE,
              !.flush = NoFlush]

\* TSDB_SKIP_LOCAL: the local copy is dropped.
Dropped(s) ==
    [s EXCEPT !.tail = <<>>, !.local = FALSE, !.received = FALSE,
              !.flush = NoFlush]

\* Who is sent to: the owners when the table is sharded, else every peer.
Targets(n) == (IF Sharded THEN left.owner ELSE left.member) \ {n}

\* tsdb_cluster_write: q > nremote is capped, and handed on as it is to a
\* wait whose count starts at 1 for the local copy.
QuorumFor(k) == IF left.quorum > k THEN k ELSE left.quorum

\* Workers in flight bound how many of the sends are admitted.
Admitted(n, T) ==
    LET room == MaxInflight - Cardinality({w \in worker : w.from = n})
    IN {L \in SUBSET T :
          Cardinality(L) = IF room <= 0 THEN 0
                           ELSE IF Cardinality(T) < room THEN Cardinality(T)
                           ELSE room}

\* The replicating part of a flush: cluster_on_replicate numbers the batch
\* (a failure of the outbox leaves it unnumbered), tsdb_cluster_write picks
\* the targets that are not DEAD, and the workers are launched.
Replicate(n) ==
    /\ LockFree(n) /\ node[n].tail # <<>>
    /\ Len(batch[n]) < MaxSends
    /\ \E numbered \in BOOLEAN, dead \in SUBSET Targets(n) :
       LET T == Targets(n) \ dead
           i == Len(batch[n]) + 1
           s == IF numbered THEN Issued(node[n]) ELSE node[n]
       IN /\ IF numbered /\ dead = {} THEN UNCHANGED left ELSE Fail
          /\ \E L \in Admitted(n, T) :
             /\ worker' = worker \cup {[from |-> n, to |-> m, i |-> i,
                                        attempt |-> 0, sent |-> FALSE] : m \in L}
             /\ node' = [node EXCEPT ![n] =
                  [s EXCEPT !.flush = [wait |-> TRUE, i |-> i, acks |-> 1,
                                       done |-> Cardinality(T \ L)]]]
          /\ batch' = [batch EXCEPT ![n] = Append(@,
               [rows |-> MemRows(n), n |-> Cardinality(T), rc |-> "none",
                remote |-> 0,
                seq |-> IF numbered THEN node[n].next ELSE 0,
                base |-> IF numbered THEN node[n].base ELSE 0])]
    /\ UNCHANGED <<req, applied, acked, unknown>>

\* tsdb_idle_flush_thread, tsdb_db_flush_all / tsdb_table_flush, and a local
\* batch that finds the memtable full.
IdleFlush(n) == node[n].local /\ ~node[n].received /\ Replicate(n)
FlushAll(n) == left.flushAll /\ Replicate(n)
SizeFlush(n) ==
    /\ Len(MemRows(n)) >= BlockPoints /\ \E r \in left.todo : left.home[r] = n
    /\ Replicate(n)

\* What ends fanout_wait_quorum_ex, the deadline apart.
Resolved(n) ==
    LET f == node[n].flush  b == batch[n][f.i]
    IN f.acks >= QuorumFor(b.n) \/ f.done >= b.n

\* The wait has no deadline.
MayLeaveResolved(n) == node[n].up /\ node[n].flush.wait /\ Resolved(n)
\* Quorum, every worker done, or TSDB_FANOUT_WAIT_TIMEOUT_MS.
MayLeave(n) == node[n].up /\ node[n].flush.wait

Outcome(n) ==
    LET f == node[n].flush  b == batch[n][f.i]
    IN [b EXCEPT !.rc = IF f.acks >= QuorumFor(b.n) THEN "ok" ELSE "io",
                 !.remote = f.acks - 1]

\* The local copy goes as soon as the fan-out returned OK.
SkipsLocalOnOk(n) ==
    Outcome(n).rc = "ok" /\ Sharded /\ n \notin left.owner
\* cluster_on_replicate answers TSDB_SKIP_LOCAL.
SkipsLocal(n) ==
    Outcome(n).rc = "ok" /\ Outcome(n).remote >= 1 /\ Sharded /\ n \notin left.owner

FlushEnds(n) ==
    /\ MayLeave(n)
    /\ batch' = [batch EXCEPT ![n][node[n].flush.i] = Outcome(n)]
    /\ node' = [node EXCEPT ![n] = IF SkipsLocal(n) THEN Dropped(@) ELSE Published(@)]
    /\ UNCHANGED <<worker, req, applied, acked, unknown, left>>

\* The partition flush fails: the rows stay, and the next flush sends them
\* again under a new number.
FlushFails(n) ==
    /\ MayLeave(n) /\ ~SkipsLocal(n) /\ Fail
    /\ batch' = [batch EXCEPT ![n][node[n].flush.i] = Outcome(n)]
    /\ node' = [node EXCEPT ![n].flush = NoFlush]
    /\ UNCHANGED <<worker, req, applied, acked, unknown>>

-----------------------------------------------------------------------------
(* Fan-out workers (fanout_worker).                                        *)

\* The worker leaves: its slot is free and the waiter of its fan-out, if it
\* still waits, counts it.
Counted(w, ack) ==
    [node EXCEPT ![w.from].flush =
        IF @.wait /\ @.i = w.i
        THEN [@ EXCEPT !.done = @ + 1, !.acks = IF ack THEN @ + 1 ELSE @]
        ELSE @]

\* A peer that turned DEAD is not tried at all.
WorkerSkips(w) ==
    /\ ~w.sent /\ w.attempt = 0 /\ Fail
    /\ worker' = worker \ {w} /\ node' = Counted(w, FALSE)
    /\ UNCHANGED <<batch, req, applied, acked, unknown>>

\* One attempt too many.
RetriedOnceMore(w) ==
    IF w.attempt + 1 <= MaxAttempts
    THEN /\ worker' = (worker \ {w}) \cup
                         {[w EXCEPT !.attempt = @ + 1, !.sent = FALSE]}
         /\ node' = node
    ELSE worker' = worker \ {w} /\ node' = Counted(w, FALSE)
\* One attempt is over without an ACK.
Retried(w) ==
    IF w.attempt + 1 < MaxAttempts
    THEN /\ worker' = (worker \ {w}) \cup
                         {[w EXCEPT !.attempt = @ + 1, !.sent = FALSE]}
         /\ node' = node
    ELSE worker' = worker \ {w} /\ node' = Counted(w, FALSE)

Send(w) ==
    /\ ~w.sent /\ node[w.to].up
    /\ worker' = (worker \ {w}) \cup {[w EXCEPT !.sent = TRUE]}
    /\ req' = req \cup {[from |-> w.from, to |-> w.to, i |-> w.i,
                         attempt |-> w.attempt, pc |-> "sent"]}
    /\ UNCHANGED <<node, batch, applied, acked, unknown, left>>

\* No connection: the peer is down.
DialFails(w) ==
    /\ ~w.sent /\ ~node[w.to].up
    /\ Retried(w)
    /\ UNCHANGED <<batch, req, applied, acked, unknown, left>>

Answers(q, w) ==
    q.from = w.from /\ q.to = w.to /\ q.i = w.i /\ q.attempt = w.attempt

\* The ACK (or the error) of this attempt's request.
Reply(w, q) ==
    /\ w.sent /\ Answers(q, w) /\ q.pc \in {"ok", "err"}
    /\ req' = req \ {q}
    /\ IF q.pc = "ok"
       THEN /\ worker' = worker \ {w} /\ node' = Counted(w, TRUE)
            /\ acked' = acked \cup {[from |-> w.from, i |-> w.i, to |-> w.to]}
       ELSE Retried(w) /\ UNCHANGED acked
    /\ UNCHANGED <<batch, applied, unknown, left>>

\* The request, or its answer, was lost: the call times out, the connection
\* is marked desynced and evicted, and whatever is still owed on it goes with
\* it.  A handler past the gate still runs to its end when left.overlap: the
\* 10 s of TSDB_REPL_SEND_TIMEOUT_MS passed while it waited for the lock.
CallFails(w) ==
    /\ w.sent /\ Fail
    /\ \A q \in req : Answers(q, w) => q.pc \in {"sent", "ok", "err"} \/ left.overlap
    /\ req' = {q \in req : Answers(q, w) => left.overlap /\ q.pc \in {"gated", "applied"}}
    /\ Retried(w)
    /\ UNCHANGED <<batch, applied, acked, unknown>>

\* The receiver went down with the request: the connection breaks.
CallBreaks(w) ==
    /\ w.sent /\ ~\E q \in req : Answers(q, w)
    /\ Retried(w)
    /\ UNCHANGED <<batch, req, applied, acked, unknown, left>>

-----------------------------------------------------------------------------
(* The receiver (rpc_apply_write_batch).                                   *)

Moved(q, pc) == req' = (req \ {q}) \cup {[q EXCEPT !.pc = pc]}

\* A handler nobody waits for ends without an answer.
Ended(q, pc) ==
    IF \E w \in worker : Answers(q, w) /\ w.sent THEN Moved(q, pc) ELSE req' = req \ {q}

\* The dedup gate: the sender's base first, then the look-up.
Gate(q) ==
    LET b == batch[q.from][q.i]
        l == AdvanceBase(node[q.to].led[q.from], b.base)
    IN /\ q.pc = "sent"
       /\ IF b.seq # 0 /\ Seen(l, b.seq) THEN Ended(q, "ok") ELSE Moved(q, "gated")
       /\ node' = [node EXCEPT ![q.to].led[q.from] = l]
       /\ UNCHANGED <<batch, worker, applied, acked, unknown, left>>

\* tsdb_batch_append_bulk: a batch that does not fit is preceded by a flush,
\* which does not replicate because this batch is local_only.
RoomFor(s, rows, mem) ==
    IF Len(mem) > 0 /\ Len(mem) + Len(rows) > BlockPoints THEN Published(s) ELSE s

\* Under the write lock: the rows and the id in one redo record.
Apply(q) ==
    LET b == batch[q.from][q.i]
        s == RoomFor(node[q.to], b.rows, MemRows(q.to))
    IN /\ q.pc = "gated" /\ LockFree(q.to)
       /\ node' = [node EXCEPT ![q.to] =
            [s EXCEPT !.tail = Append(@, [rows |-> b.rows, from |-> q.from,
                                          i |-> q.i, seq |-> b.seq]),
                      !.received = TRUE]]
       /\ applied' = [applied EXCEPT ![q.to][q.from][q.i] = @ + 1]
       /\ Moved(q, "applied")
       /\ UNCHANGED <<batch, worker, acked, unknown, left>>

\* Append or commit failed: the batch is discarded, the answer is an error.
ApplyFails(q) ==
    /\ q.pc = "gated" /\ LockFree(q.to) /\ Fail
    /\ Ended(q, "err")
    /\ UNCHANGED <<node, batch, worker, applied, acked, unknown>>

\* The id is recorded once the rows are durable; a full window is only a
\* metric.
Record(q) ==
    LET seq == batch[q.from][q.i].seq
        l == node[q.to].led[q.from]
    IN /\ q.pc = "applied"
       /\ IF seq = 0 THEN UNCHANGED <<node, unknown>>
          ELSE /\ node' = [node EXCEPT ![q.to].led[q.from] = Recorded(l, seq)]
               /\ unknown' = IF RecordFull(l, seq)
                             THEN unknown \cup {<<q.to, q.from, seq>>} ELSE unknown
       /\ Ended(q, "ok")
       /\ UNCHANGED <<batch, worker, applied, acked, left>>

-----------------------------------------------------------------------------
(* Crash and restart.                                                      *)

\* The process dies: what was in memory, its workers and its handlers go.
\* Requests its workers had sent are still handled by their receivers.
Crash(n) ==
    /\ node[n].up /\ n \in left.member /\ left.crash > 0
    /\ left' = [left EXCEPT !.crash = @ - 1]
    /\ node' = [node EXCEPT ![n].up = FALSE, ![n].flush = NoFlush,
                  ![n].local = FALSE, ![n].received = FALSE, ![n].led = NoLedger]
    /\ worker' = {w \in worker : w.from # n}
    /\ req' = {q \in req : q.to # n /\ (q.from = n => q.pc \in {"sent", "gated", "applied"})}
    /\ UNCHANGED <<batch, applied, acked, unknown>>

\* The replayed records and the ledger rebuilt from the ids they carry: a
\* record whose id was already replayed is skipped.
Replay(acc, rec) ==
    LET l == acc.led[rec.from]
    IN IF rec.seq # 0 /\ Seen(l, rec.seq) THEN acc
       ELSE [tail |-> Append(acc.tail, rec),
             led |-> [acc.led EXCEPT ![rec.from] =
                        IF rec.seq # 0 THEN Recorded(@, rec.seq) ELSE @],
             full |-> IF rec.seq # 0 /\ RecordFull(l, rec.seq)
                      THEN acc.full \cup {<<rec.from, rec.seq>>} ELSE acc.full]

\* The ids in the log are not restored.
ReplayedWithoutIds(tail) == [tail |-> tail, led |-> NoLedger, full |-> {}]
\* redo_recover_table.
Replayed(tail) ==
    FoldLeft(Replay, [tail |-> <<>>, led |-> NoLedger, full |-> {}], tail)

\* Ids that no record carries any more: their rows were flushed, and the
\* ledger's frontier is not checkpointed.
Forgotten(n) ==
    {<<n, x[1], batch[x[1]][x[2]].seq>> :
       x \in {y \in Node \X (1..MaxSends) :
          /\ applied[n][y[1]][y[2]] > 0 /\ batch[y[1]][y[2]].seq # 0
          /\ ~\E k \in DOMAIN node[n].tail :
                node[n].tail[k].from = y[1] /\ node[n].tail[k].i = y[2]}}

Restart(n) ==
    LET r == Replayed(node[n].tail)
    IN /\ ~node[n].up
       /\ node' = [node EXCEPT ![n] =
            [Reopened(@) EXCEPT !.up = TRUE, !.tail = r.tail, !.led = r.led]]
       /\ unknown' = unknown \cup Forgotten(n)
                       \cup {<<n, x[1], x[2]>> : x \in r.full}
       /\ UNCHANGED <<batch, worker, req, applied, acked, left>>

-----------------------------------------------------------------------------
NodeStep(n) ==
    \/ \E r \in Row : Write(n, r)
    \/ IdleFlush(n)
    \/ FlushAll(n)
    \/ SizeFlush(n)
    \/ FlushEnds(n)
    \/ FlushFails(n)
    \/ Crash(n)
    \/ Restart(n)

WorkerStep(w) ==
    \/ WorkerSkips(w)
    \/ Send(w)
    \/ DialFails(w)
    \/ \E q \in req : Reply(w, q)
    \/ CallFails(w)
    \/ CallBreaks(w)

HandlerStep(q) ==
    \/ Gate(q)
    \/ Apply(q)
    \/ ApplyFails(q)
    \/ Record(q)

Next ==
    \/ \E n \in Node : NodeStep(n)
    \/ \E w \in worker : WorkerStep(w)
    \/ \E q \in req : HandlerStep(q)

Spec == Init /\ [][Next]_vars

\* Threads run: a flush's wait ends, workers and handlers go on, a node that
\* went down is started again.  What stands for a fault is never required.
Fairness ==
    /\ \A n \in Node : WF_vars(FlushEnds(n)) /\ WF_vars(Restart(n))
    /\ WF_vars(\E w \in worker : Send(w) \/ DialFails(w) \/ CallBreaks(w)
                                  \/ \E q \in req : Reply(w, q))
    /\ \A n \in Node : WF_vars(\E q \in req :
                                  q.to = n /\ (Gate(q) \/ Apply(q) \/ Record(q)))

FairSpec == Spec /\ Fairness

-----------------------------------------------------------------------------
(* Properties.                                                             *)

Batch == [rows : Seq(Row), n : Nat, rc : {"none", "ok", "io"}, remote : Nat,
          seq : Nat, base : Nat]

TypeOK ==
    /\ \A n \in Node :
       /\ node[n].up \in BOOLEAN /\ node[n].local \in BOOLEAN
       /\ node[n].received \in BOOLEAN
       /\ node[n].disk \in [Row -> Nat]
       /\ Len(MemRows(n)) <= BlockPoints
       /\ \A k \in DOMAIN node[n].tail :
             node[n].tail[k].from \in Node /\ node[n].tail[k].rows \in Seq(Row)
       /\ node[n].base <= node[n].next /\ node[n].next <= node[n].reserved + 1
       /\ \A m \in Node : \A k \in node[n].led[m].gaps :
             k > node[n].led[m].frontier + 1
       /\ batch[n] \in Seq(Batch)
       /\ Cardinality({w \in worker : w.from = n}) <= MaxInflight
    /\ \A w \in worker : w.i \in DOMAIN batch[w.from] /\ w.attempt < MaxAttempts
    /\ \A q \in req :
         q.i \in DOMAIN batch[q.from] /\ q.pc \in {"sent", "gated", "applied", "ok", "err"}

\* The outbox never hands out a number twice, whatever the sender lost in a
\* crash (outbox.c: "a crash can lose progress but never re-issue a number").
NumbersNotReused ==
    \A n \in Node : \A i, j \in DOMAIN batch[n] :
        i # j /\ batch[n][i].seq = batch[n][j].seq => batch[n][i].seq = 0

\* A numbered batch is applied at most once by each receiver, through lost
\* ACKs, retries, reordering and crashes between the commit and the record,
\* except where the ledger cannot know of it: the window was full, or the
\* receiver restarted after flushing the rows (dedup.h: "stop the SECOND
\* apply").  Where left.overlap is FALSE, a batch is not sent again while a
\* handler is still at work on it.
AppliedOnce ==
    \A n, m \in Node : \A i \in DOMAIN batch[m] :
        LET seq == batch[m][i].seq
        IN seq # 0 /\ <<n, m, seq>> \notin unknown => applied[n][m][i] <= 1

\* A peer counted as having ACKed a batch holds every row of it: the ledger
\* never answers "applied" for a batch still being sent that is not.
AckMeansApplied ==
    \A a \in acked : \A k \in DOMAIN batch[a.from][a.i].rows :
        Holds(a.to, batch[a.from][a.i].rows[k])

\* The nodes a row is held by, for the abstract specification: a node gives a
\* row up only while another node holds it.
Holders == [r \in Row |-> {n \in Node : Holds(n, r)}]
H == INSTANCE RowHolders WITH holders <- Holders
RowsHeld == H!Spec

\* The write lock is not held for ever: the ring of flushes that each wait for
\* a peer whose handler needs that peer's lock is broken by the deadline, and
\* every request that reached a node is handled.
LockRingBroken ==
    \A n \in Node :
        (node[n].flush.wait \/ \E q \in req : q.to = n)
            ~> (~node[n].flush.wait /\ ~\E q \in req : q.to = n)
=============================================================================
