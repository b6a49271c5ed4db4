---------------------------- MODULE OutboxProofs ----------------------------
(***************************************************************************)
(* The sender's numbers, for any cluster, chunk size, number of crashes    *)
(* and number of batches.  Every number handed out is below next, and next *)
(* is at most one above the reservation on disk; a sender that lost next   *)
(* in a crash resumes above the reservation, hence above every number.     *)
(***************************************************************************)
EXTENDS Replication, SequenceTheorems, TLAPS

\* The fields of a node and of its fan-outs the argument is about.
OutboxShape ==
    /\ node = [n \in Node |-> node[n]] /\ batch = [n \in Node |-> batch[n]]
    /\ \A n \in Node :
         /\ {"next", "reserved"} \subseteq DOMAIN node[n]
         /\ node[n].next \in Nat /\ node[n].reserved \in Nat
         /\ \E B : batch[n] \in Seq(B)
         /\ \A i \in DOMAIN batch[n] :
              "seq" \in DOMAIN batch[n][i] /\ batch[n][i].seq \in Nat

\* The counter is ahead of every number and within the reservation.
NumbersBelowNext ==
    \A n \in Node :
        /\ node[n].next \in 1..(node[n].reserved + 1)
        /\ \A i \in DOMAIN batch[n] : batch[n][i].seq < node[n].next

OutboxIInv == OutboxShape /\ NumbersBelowNext /\ NumbersNotReused

\* A step in which no node issues a number: counters do not go back and the
\* fan-outs keep their numbers.
Unnumbering ==
    /\ node' = [n \in Node |-> node'[n]] /\ batch' = [n \in Node |-> batch'[n]]
    /\ \A n \in Node :
         /\ {"next", "reserved"} \subseteq DOMAIN node'[n]
         /\ \/ node'[n].next = node[n].next /\ node'[n].reserved = node[n].reserved
            \/ /\ node'[n].next = node[n].reserved + 1
               /\ node'[n].reserved = node[n].reserved
         /\ \E B : batch'[n] \in Seq(B)
         /\ DOMAIN batch'[n] = DOMAIN batch[n]
         /\ \A i \in DOMAIN batch[n] :
              "seq" \in DOMAIN batch'[n][i] /\ batch'[n][i].seq = batch[n][i].seq

LEMMA UnnumberingKeeps ==
    ASSUME OutboxIInv, Unnumbering
    PROVE  OutboxIInv'
<1>1. OutboxShape'
    <2>1. ASSUME NEW n \in Node
          PROVE  node'[n].next \in Nat /\ node'[n].reserved \in Nat
        <3>1. node[n].next \in Nat /\ node[n].reserved \in Nat
            BY DEF OutboxIInv, OutboxShape
        <3>2. /\ node'[n].next \in {node[n].next, node[n].reserved + 1}
              /\ node'[n].reserved = node[n].reserved
            BY DEF Unnumbering
        <3> QED
            BY <3>1, <3>2
    <2>2. \A n \in Node : \A i \in DOMAIN batch'[n] :
              "seq" \in DOMAIN batch'[n][i] /\ batch'[n][i].seq \in Nat
        BY DEF OutboxIInv, OutboxShape, Unnumbering
    <2> QED
        BY <2>1, <2>2, Zenon DEF OutboxShape, Unnumbering
<1>2. NumbersBelowNext'
    <2> SUFFICES ASSUME NEW n \in Node
                 PROVE  /\ node'[n].next \in 1..(node'[n].reserved + 1)
                        /\ \A i \in DOMAIN batch'[n] : batch'[n][i].seq < node'[n].next
        BY DEF NumbersBelowNext
    <2>1. /\ node[n].next \in Nat /\ node[n].reserved \in Nat
          /\ \A i \in DOMAIN batch[n] : batch[n][i].seq \in Nat
          /\ node[n].next \in 1..(node[n].reserved + 1)
          /\ \A i \in DOMAIN batch[n] : batch[n][i].seq < node[n].next
        BY DEF OutboxIInv, OutboxShape, NumbersBelowNext
    <2>2. /\ \/ node'[n].next = node[n].next
             \/ node'[n].next = node[n].reserved + 1
          /\ node'[n].reserved = node[n].reserved
          /\ DOMAIN batch'[n] = DOMAIN batch[n]
          /\ \A i \in DOMAIN batch[n] : batch'[n][i].seq = batch[n][i].seq
        BY DEF Unnumbering
    <2> QED
        BY <2>1, <2>2
<1>3. NumbersNotReused'
    BY DEF OutboxIInv, NumbersNotReused, Unnumbering
<1> QED
    BY <1>1, <1>2, <1>3 DEF OutboxIInv

\* A step that leaves the fan-outs and every counter alone.
LEMMA CountersAlone ==
    ASSUME OutboxIInv, batch' = batch,
           node' = [n \in Node |-> node'[n]],
           \A n \in Node : /\ {"next", "reserved"} \subseteq DOMAIN node'[n]
                           /\ node'[n].next = node[n].next
                           /\ node'[n].reserved = node[n].reserved
    PROVE  OutboxIInv'
<1>1. Unnumbering
    BY DEF OutboxIInv, OutboxShape, Unnumbering
<1> QED
    BY <1>1, UnnumberingKeeps

-----------------------------------------------------------------------------
LEMMA OutboxInit == Init => OutboxIInv
<1> SUFFICES ASSUME Init PROVE OutboxIInv
    OBVIOUS
<1>1. \A n \in Node : batch[n] = <<>> /\ <<>> \in Seq({}) /\ DOMAIN <<>> = {}
    BY DEF Init
<1>2. OutboxShape
    BY <1>1 DEF Init, OutboxShape
<1>3. NumbersBelowNext
    BY <1>1 DEF Init, NumbersBelowNext
<1>4. NumbersNotReused
    BY <1>1 DEF NumbersNotReused
<1> QED
    BY <1>2, <1>3, <1>4 DEF OutboxIInv

\* tsdb_outbox_next: the number is the counter, which moves past it; the
\* reservation is on disk before the number is used.
LEMMA IssuedCounts ==
    ASSUME OutboxIInv, NEW n \in Node
    PROVE  LET s == Issued(node[n])
           IN /\ {"next", "reserved"} \subseteq DOMAIN s
              /\ s.next = node[n].next + 1
              /\ s.reserved \in Nat /\ node[n].next <= s.reserved
BY SizeAssumption DEF OutboxIInv, OutboxShape, NumbersBelowNext, Issued

\* A fan-out: numbered with a fresh number, or not numbered.
LEMMA ReplicateKeeps ==
    ASSUME OutboxIInv, NEW n \in Node, Replicate(n)
    PROVE  OutboxIInv'
<1>1. PICK numbered \in BOOLEAN, dead \in SUBSET Targets(n) :
       LET T == Targets(n) \ dead
           i == Len(batch[n]) + 1
           s == IF numbered THEN Issued(node[n]) ELSE node[n]
       IN /\ \E L \in Admitted(n, T) :
               node' = [node EXCEPT ![n] =
                  [s EXCEPT !.flush = [wait |-> TRUE, i |-> i, acks |-> 1,
                                       done |-> Cardinality(T \ L)]]]
          /\ batch' = [batch EXCEPT ![n] = Append(@,
               [rows |-> MemRows(n), n |-> Cardinality(T), rc |-> "none",
                remote |-> 0,
                seq |-> IF numbered THEN node[n].next ELSE 0,
                base |-> IF numbered THEN node[n].base ELSE 0])]
    BY Zenon DEF Replicate
<1> DEFINE s == IF numbered THEN Issued(node[n]) ELSE node[n]
           rec == [rows |-> MemRows(n), n |-> Cardinality(Targets(n) \ dead), rc |-> "none",
                   remote |-> 0,
                   seq |-> IF numbered THEN node[n].next ELSE 0,
                   base |-> IF numbered THEN node[n].base ELSE 0]
<1>2. PICK f : node' = [node EXCEPT ![n] = [s EXCEPT !.flush = f]]
    BY <1>1, Zenon
<1>3. batch' = [batch EXCEPT ![n] = Append(batch[n], rec)]
    BY <1>1
<1>4. "seq" \in DOMAIN rec /\ rec.seq = IF numbered THEN node[n].next ELSE 0
    OBVIOUS
<1>5. /\ {"next", "reserved"} \subseteq DOMAIN s
      /\ s.next = IF numbered THEN node[n].next + 1 ELSE node[n].next
      /\ s.next \in Nat /\ s.reserved \in Nat /\ s.next \in 1..(s.reserved + 1)
    BY IssuedCounts DEF OutboxIInv, OutboxShape, NumbersBelowNext
<1> HIDE DEF s, rec
<1>6. \A m \in Node : m # n => node'[m] = node[m] /\ batch'[m] = batch[m]
    BY <1>2, <1>3, Zenon DEF OutboxIInv, OutboxShape
<1>7. /\ {"next", "reserved"} \subseteq DOMAIN node'[n]
      /\ node'[n].next = s.next /\ node'[n].reserved = s.reserved
    BY <1>2, <1>5 DEF OutboxIInv, OutboxShape
<1>8. PICK B : batch[n] \in Seq(B)
    BY DEF OutboxIInv, OutboxShape
<1>9. /\ batch[n] \in Seq(B \cup {rec}) /\ rec \in B \cup {rec}
      /\ batch'[n] = Append(batch[n], rec)
    BY <1>3, <1>8 DEF OutboxIInv, OutboxShape
<1>10. /\ batch'[n] \in Seq(B \cup {rec})
       /\ Len(batch[n]) \in Nat
       /\ DOMAIN batch[n] = 1..Len(batch[n]) /\ DOMAIN batch'[n] = 1..(Len(batch[n]) + 1)
       /\ \A i \in 1..Len(batch[n]) : batch'[n][i] = batch[n][i]
       /\ batch'[n][Len(batch[n]) + 1] = rec
    BY <1>9
<1>11. \A i \in DOMAIN batch'[n] : i \in DOMAIN batch[n] \/ i = Len(batch[n]) + 1
    BY <1>10
<1>12. OutboxShape'
    <2>1. node' = [m \in Node |-> node'[m]] /\ batch' = [m \in Node |-> batch'[m]]
        BY <1>2, <1>3, Zenon DEF OutboxIInv, OutboxShape
    <2>2. \A m \in Node : /\ {"next", "reserved"} \subseteq DOMAIN node'[m]
                          /\ node'[m].next \in Nat /\ node'[m].reserved \in Nat
        BY <1>5, <1>6, <1>7 DEF OutboxIInv, OutboxShape
    <2>3. \A m \in Node : \E C : batch'[m] \in Seq(C)
        BY <1>6, <1>10, Zenon DEF OutboxIInv, OutboxShape
    <2>4. ASSUME NEW m \in Node, NEW i \in DOMAIN batch'[m]
          PROVE  "seq" \in DOMAIN batch'[m][i] /\ batch'[m][i].seq \in Nat
        <3>1. CASE m # n
            BY <3>1, <1>6 DEF OutboxIInv, OutboxShape
        <3>2. CASE m = n /\ i \in DOMAIN batch[n]
            BY <3>2, <1>10 DEF OutboxIInv, OutboxShape
        <3>3. CASE m = n /\ i = Len(batch[n]) + 1
            BY <3>3, <1>4, <1>10 DEF OutboxIInv, OutboxShape
        <3> QED
            BY <3>1, <3>2, <3>3, <1>11
    <2> QED
        BY <2>1, <2>2, <2>3, <2>4, Zenon DEF OutboxShape
<1>13. \A i \in DOMAIN batch[n] : batch'[n][i].seq = batch[n][i].seq
                                 /\ batch[n][i].seq < node[n].next
    BY <1>10 DEF OutboxIInv, NumbersBelowNext
<1>14. NumbersBelowNext'
    <2>1. ASSUME NEW m \in Node, m # n
          PROVE  /\ node'[m].next \in 1..(node'[m].reserved + 1)
                 /\ \A i \in DOMAIN batch'[m] : batch'[m][i].seq < node'[m].next
        BY <2>1, <1>6 DEF OutboxIInv, NumbersBelowNext
    <2>2. node'[n].next \in 1..(node'[n].reserved + 1)
        BY <1>5, <1>7
    <2>3. \A i \in DOMAIN batch'[n] : batch'[n][i].seq < node'[n].next
        <3>1. node[n].next \in Nat /\ 0 < node[n].next
              /\ \A i \in DOMAIN batch[n] : batch[n][i].seq \in Nat
            BY DEF OutboxIInv, OutboxShape, NumbersBelowNext
        <3>2. \A i \in DOMAIN batch[n] : batch'[n][i].seq < node'[n].next
            BY <3>1, <1>5, <1>7, <1>13
        <3>3. batch'[n][Len(batch[n]) + 1].seq < node'[n].next
            BY <3>1, <1>4, <1>5, <1>7, <1>10
        <3> QED
            BY <3>2, <3>3, <1>11
    <2> QED
        BY <2>1, <2>2, <2>3 DEF NumbersBelowNext
<1>15. NumbersNotReused'
    <2> SUFFICES ASSUME NEW m \in Node, NEW i \in DOMAIN batch'[m],
                        NEW j \in DOMAIN batch'[m], i # j,
                        batch'[m][i].seq = batch'[m][j].seq
                 PROVE  batch'[m][i].seq = 0
        BY DEF NumbersNotReused
    <2>1. CASE m # n
        BY <2>1, <1>6 DEF OutboxIInv, NumbersNotReused
    <2>2. CASE m = n /\ i \in DOMAIN batch[n] /\ j \in DOMAIN batch[n]
        BY <2>2, <1>13 DEF OutboxIInv, NumbersNotReused
    <2>3. CASE m = n /\ (i = Len(batch[n]) + 1 \/ j = Len(batch[n]) + 1)
        <3>1. ASSUME NEW k \in DOMAIN batch[n], batch'[n][k].seq = rec.seq
              PROVE  rec.seq = 0
            <4>1. batch[n][k].seq \in Nat /\ node[n].next \in Nat
                BY DEF OutboxIInv, OutboxShape
            <4> QED
                BY <3>1, <4>1, <1>4, <1>13
        <3> QED
            BY <2>3, <3>1, <1>10, <1>11
    <2> QED
        BY <2>1, <2>2, <2>3, <1>11
<1> QED
    BY <1>12, <1>14, <1>15 DEF OutboxIInv
-----------------------------------------------------------------------------
\* The end of a flush writes the outcome into the fan-out, not its number.
LEMMA FlushEndKeeps ==
    ASSUME OutboxIInv, NEW n \in Node, FlushEnds(n) \/ FlushFails(n)
    PROVE  OutboxIInv'
<1>1. batch' = [batch EXCEPT ![n][node[n].flush.i] = Outcome(n)]
    BY DEF FlushEnds, FlushFails
<1>2. PICK s : /\ node' = [node EXCEPT ![n] = s]
               /\ {"next", "reserved"} \subseteq DOMAIN s
               /\ s.next = node[n].next /\ s.reserved = node[n].reserved
    BY Zenon DEF FlushEnds, FlushFails, Dropped, Published, OutboxIInv, OutboxShape
<1>3. node' = [m \in Node |-> node'[m]] /\ batch' = [m \in Node |-> batch'[m]]
    BY <1>1, <1>2, Zenon DEF OutboxIInv, OutboxShape
<1>4. ASSUME NEW m \in Node
      PROVE  /\ {"next", "reserved"} \subseteq DOMAIN node'[m]
             /\ node'[m].next = node[m].next /\ node'[m].reserved = node[m].reserved
    BY <1>2 DEF OutboxIInv, OutboxShape
<1>5. ASSUME NEW m \in Node
      PROVE  /\ \E B : batch'[m] \in Seq(B)
             /\ DOMAIN batch'[m] = DOMAIN batch[m]
             /\ \A i \in DOMAIN batch[m] :
                  "seq" \in DOMAIN batch'[m][i] /\ batch'[m][i].seq = batch[m][i].seq
    <2>1. PICK B : batch[m] \in Seq(B)
        BY DEF OutboxIInv, OutboxShape
    <2>2. CASE m # n
        <3>1. batch'[m] = batch[m]
            BY <1>1, <2>2 DEF OutboxIInv, OutboxShape
        <3> QED
            BY <2>1, <3>1 DEF OutboxIInv, OutboxShape
    <2>3. CASE m = n
        <3> DEFINE k == node[n].flush.i
        <3>1. batch'[n] = [batch[n] EXCEPT ![k] = Outcome(n)]
            BY <1>1 DEF OutboxIInv, OutboxShape
        <3>2. batch'[n] \in Seq(B \cup {Outcome(n)})
            <4>1. batch[n] \in Seq(B \cup {Outcome(n)})
                BY <2>1, <2>3
            <4>2. CASE k \in 1..Len(batch[n])
                BY <4>1, <4>2, <3>1, ExceptSeq
            <4>3. CASE k \notin 1..Len(batch[n])
                <5>1. batch[n] = [i \in 1..Len(batch[n]) |-> batch[n][i]]
                    BY <4>1
                <5>2. [batch[n] EXCEPT ![k] = Outcome(n)] = batch[n]
                    BY <4>3, <5>1
                <5> QED
                    BY <4>1, <5>2, <3>1, Zenon
            <4> QED
                BY <4>2, <4>3
        <3>3. k \in DOMAIN batch[n] =>
                "seq" \in DOMAIN Outcome(n) /\ Outcome(n).seq = batch[n][k].seq
            BY DEF Outcome, OutboxIInv, OutboxShape
        <3>4. \A i \in DOMAIN batch[n] :
                "seq" \in DOMAIN batch'[n][i] /\ batch'[n][i].seq = batch[n][i].seq
            BY <3>1, <3>3 DEF OutboxIInv, OutboxShape
        <3>5. DOMAIN batch'[n] = DOMAIN batch[n]
            BY <3>1
        <3> QED
            BY <2>3, <3>2, <3>4, <3>5, Zenon
    <2> QED
        BY <2>2, <2>3
<1>6. Unnumbering
    BY <1>3, <1>4, <1>5, Zenon DEF Unnumbering
<1> QED
    BY <1>6, UnnumberingKeeps

\* tsdb_outbox_open: the counter resumes above the reservation.
LEMMA RestartKeeps ==
    ASSUME OutboxIInv, NEW n \in Node, Restart(n)
    PROVE  OutboxIInv'
<1>1. PICK s : /\ node' = [node EXCEPT ![n] = s]
               /\ {"next", "reserved"} \subseteq DOMAIN s
               /\ s.next = node[n].reserved + 1 /\ s.reserved = node[n].reserved
    <2> DEFINE o == Reopened(node[n])
               r == Replayed(node[n].tail)
               s == [o EXCEPT !.up = TRUE, !.tail = r.tail, !.led = r.led]
    <2>1. node' = [node EXCEPT ![n] = s]
        BY DEF Restart
    <2>2. /\ {"next", "reserved"} \subseteq DOMAIN o
          /\ o.next = node[n].reserved + 1 /\ o.reserved = node[n].reserved
        BY DEF Reopened, OutboxIInv, OutboxShape
    <2> HIDE DEF o, r
    <2>3. /\ {"next", "reserved"} \subseteq DOMAIN s
          /\ s.next = node[n].reserved + 1 /\ s.reserved = node[n].reserved
        BY <2>2
    <2> QED
        BY <2>1, <2>3, Zenon
<1>2. batch' = batch
    BY DEF Restart
<1>3. Unnumbering
    <2>1. node' = [m \in Node |-> node'[m]] /\ batch' = [m \in Node |-> batch'[m]]
        BY <1>1, <1>2, Zenon DEF OutboxIInv, OutboxShape
    <2>2. ASSUME NEW m \in Node
          PROVE  /\ {"next", "reserved"} \subseteq DOMAIN node'[m]
                 /\ \/ /\ node'[m].next = node[m].next
                       /\ node'[m].reserved = node[m].reserved
                    \/ /\ node'[m].next = node[m].reserved + 1
                       /\ node'[m].reserved = node[m].reserved
        BY <1>1 DEF OutboxIInv, OutboxShape
    <2>3. \A m \in Node : /\ \E B : batch'[m] \in Seq(B)
                          /\ \A i \in DOMAIN batch[m] : "seq" \in DOMAIN batch'[m][i]
        BY <1>2 DEF OutboxIInv, OutboxShape
    <2> QED
        BY <1>2, <2>1, <2>2, <2>3, Zenon DEF Unnumbering
<1> QED
    BY <1>3, UnnumberingKeeps

-----------------------------------------------------------------------------
\* The steps of a node that issue no number and keep its counter.
LEMMA NodeStepsKeep ==
    ASSUME OutboxIInv, NEW n \in Node, (\E r \in Row : Write(n, r)) \/ Crash(n)
    PROVE  OutboxIInv'
<1>1. PICK s : /\ node' = [node EXCEPT ![n] = s]
               /\ {"next", "reserved"} \subseteq DOMAIN s
               /\ s.next = node[n].next /\ s.reserved = node[n].reserved
    <2>1. ASSUME NEW r \in Row, Write(n, r)
          PROVE  \E t : node' = [node EXCEPT ![n] = [node[n] EXCEPT !.tail = t, !.local = TRUE]]
        BY <2>1, Zenon DEF Write, OutboxIInv, OutboxShape
    <2>2. CASE Crash(n)
        <3>1. node' = [node EXCEPT ![n] =
                 [node[n] EXCEPT !.up = FALSE, !.flush = NoFlush, !.local = FALSE,
                                 !.received = FALSE, !.led = NoLedger]]
            BY <2>2, Zenon DEF Crash, OutboxIInv, OutboxShape
        <3> DEFINE s == [node[n] EXCEPT !.up = FALSE, !.flush = NoFlush, !.local = FALSE,
                                        !.received = FALSE, !.led = NoLedger]
        <3>2. /\ {"next", "reserved"} \subseteq DOMAIN s
              /\ s.next = node[n].next /\ s.reserved = node[n].reserved
            BY DEF OutboxIInv, OutboxShape
        <3> QED
            BY <3>1, <3>2, Zenon
    <2>3. CASE \E r \in Row : Write(n, r)
        BY <2>1, <2>3, Zenon DEF OutboxIInv, OutboxShape
    <2> QED
        BY <2>2, <2>3
<1>2. batch' = batch
    BY Zenon DEF Write, Crash
<1>3. node' = [m \in Node |-> node'[m]]
    BY <1>1, Zenon DEF OutboxIInv, OutboxShape
<1>4. \A m \in Node : /\ {"next", "reserved"} \subseteq DOMAIN node'[m]
                      /\ node'[m].next = node[m].next
                      /\ node'[m].reserved = node[m].reserved
    BY <1>1 DEF OutboxIInv, OutboxShape
<1> QED
    BY <1>2, <1>3, <1>4, CountersAlone

\* A worker's steps change at most the flush of its node.
LEMMA WorkerStepsKeep ==
    ASSUME OutboxIInv, NEW w, WorkerStep(w)
    PROVE  OutboxIInv'
<1>1. batch' = batch
    BY Zenon DEF WorkerStep, WorkerSkips, Send, DialFails, Reply, CallFails, CallBreaks
<1>2. node' = node \/ \E ack \in BOOLEAN : node' = Counted(w, ack)
    BY Zenon DEF WorkerStep, WorkerSkips, Send, DialFails, Reply, CallFails, CallBreaks, Retried
<1>3. node' = node \/ \E f : node' = [node EXCEPT ![w.from].flush = f]
    BY <1>2, Zenon DEF Counted
<1>4. node' = [m \in Node |-> node'[m]]
    BY <1>3, Zenon DEF OutboxIInv, OutboxShape
<1>5. \A m \in Node : /\ {"next", "reserved"} \subseteq DOMAIN node'[m]
                      /\ node'[m].next = node[m].next
                      /\ node'[m].reserved = node[m].reserved
    <2>1. CASE node' = node
        BY <2>1 DEF OutboxIInv, OutboxShape
    <2>2. ASSUME NEW f, node' = [node EXCEPT ![w.from].flush = f], NEW m \in Node
          PROVE  node'[m] = node[m] \/ node'[m] = [node[m] EXCEPT !.flush = f]
        BY <2>2, Zenon DEF OutboxIInv, OutboxShape
    <2>3. \A m \in Node : \A f : LET s == [node[m] EXCEPT !.flush = f]
                                IN /\ {"next", "reserved"} \subseteq DOMAIN s
                                   /\ s.next = node[m].next
                                   /\ s.reserved = node[m].reserved
        BY DEF OutboxIInv, OutboxShape
    <2>4. \A m \in Node : {"next", "reserved"} \subseteq DOMAIN node[m]
        BY DEF OutboxIInv, OutboxShape
    <2> QED
        BY <1>3, <2>1, <2>2, <2>3, <2>4, ZenonT(40)
<1> QED
    BY <1>1, <1>4, <1>5, CountersAlone

\* A handler's steps change the ledger, the memtable and the disk.
LEMMA HandlerStepsKeep ==
    ASSUME OutboxIInv, NEW q, HandlerStep(q)
    PROVE  OutboxIInv'
<1>1. batch' = batch
    BY Zenon DEF HandlerStep, Gate, Apply, ApplyFails, Record
<1>2. node' = [m \in Node |-> node'[m]]
    <2>1. CASE Apply(q)
        BY <2>1, ZenonT(40) DEF Apply, OutboxIInv, OutboxShape
    <2>2. CASE Gate(q) \/ ApplyFails(q) \/ Record(q)
        BY <2>2, Zenon DEF Gate, ApplyFails, Record, OutboxIInv, OutboxShape
    <2> QED
        BY <2>1, <2>2 DEF HandlerStep
<1>3. ASSUME NEW m \in Node
      PROVE  /\ {"next", "reserved"} \subseteq DOMAIN node'[m]
             /\ node'[m].next = node[m].next /\ node'[m].reserved = node[m].reserved
    <2>1. CASE node' = node
        BY <2>1 DEF OutboxIInv, OutboxShape
    <2>2. ASSUME NEW l, node' = [node EXCEPT ![q.to].led[q.from] = l]
          PROVE  /\ {"next", "reserved"} \subseteq DOMAIN node'[m]
                 /\ node'[m].next = node[m].next /\ node'[m].reserved = node[m].reserved
        BY <2>2 DEF OutboxIInv, OutboxShape
    <2>3. CASE Apply(q)
        <3> DEFINE s == RoomFor(node[q.to], batch[q.from][q.i].rows, MemRows(q.to))
        <3>1. PICK t : node' = [node EXCEPT ![q.to] =
                                  [s EXCEPT !.tail = t, !.received = TRUE]]
            BY <2>3, Zenon DEF Apply
        <3>2. s = node[q.to] \/ s = Published(node[q.to])
            BY Zenon DEF RoomFor
        <3> HIDE DEF s
        <3>3. CASE m # q.to
            BY <3>1, <3>3 DEF OutboxIInv, OutboxShape
        <3>4. CASE m = q.to
            <4>1. /\ {"next", "reserved"} \subseteq DOMAIN s
                  /\ s.next = node[m].next /\ s.reserved = node[m].reserved
                BY <3>2, <3>4, Zenon DEF OutboxIInv, OutboxShape, Published
            <4>2. node'[m] = [s EXCEPT !.tail = t, !.received = TRUE]
                BY <3>1, <3>4 DEF OutboxIInv, OutboxShape
            <4> QED
                BY <4>1, <4>2
        <3> QED
            BY <3>3, <3>4
    <2>4. CASE Gate(q) \/ ApplyFails(q) \/ Record(q)
        <3>1. node' = node \/ \E l : node' = [node EXCEPT ![q.to].led[q.from] = l]
            BY <2>4, Zenon DEF Gate, ApplyFails, Record
        <3> QED
            BY <3>1, <2>1, <2>2, Zenon
    <2> QED
        BY <2>3, <2>4 DEF HandlerStep
<1> QED
    BY <1>1, <1>2, <1>3, CountersAlone

\* The invariant is inductive.
LEMMA OutboxStep == OutboxIInv /\ [Next]_vars => OutboxIInv'
<1> SUFFICES ASSUME OutboxIInv, [Next]_vars PROVE OutboxIInv'
    OBVIOUS
<1>1. ASSUME NEW n \in Node, NodeStep(n) PROVE OutboxIInv'
    <2>1. CASE IdleFlush(n) \/ FlushAll(n) \/ SizeFlush(n)
        BY <2>1, ReplicateKeeps DEF IdleFlush, FlushAll, SizeFlush
    <2> QED
        BY <1>1, <2>1, FlushEndKeeps, RestartKeeps, NodeStepsKeep DEF NodeStep
<1>2. CASE UNCHANGED vars
    <2>1. node' = node /\ batch' = batch
        BY <1>2 DEF vars
    <2> QED
        BY <2>1, CountersAlone DEF OutboxIInv, OutboxShape
<1> QED
    BY <1>1, <1>2, WorkerStepsKeep, HandlerStepsKeep DEF Next

\* For any cluster, chunk size and number of crashes, no two fan-outs of a
\* sender carry the same number (tsdb_outbox_next, tsdb_outbox_open).
THEOREM NumbersNotReusedHolds == Spec => []NumbersNotReused
<1>1. OutboxIInv => NumbersNotReused
    BY DEF OutboxIInv
<1> QED
    BY <1>1, OutboxInit, OutboxStep, PTL DEF Spec
=============================================================================
