--------------------------- MODULE MCReplication ---------------------------
(***************************************************************************)
(* Replication on three nodes and up to three rows. Each scenario is a     *)
(* configuration (members, who ingests what, shard owners, quorum) with a  *)
(* small budget of crashes and failures.                                   *)
(***************************************************************************)
EXTENDS Replication

CONSTANTS n1, n2, n3, r1, r2, r3

\* Two rows ingested by one node, the default quorum, no faults.
Base == [member |-> Node, down |-> {}, home |-> [r \in Row |-> n1], todo |-> {r1, r2},
         owner |-> {}, quorum |-> 1, crash |-> 0, fail |-> 0,
         overlap |-> FALSE, flushAll |-> FALSE]
Pair == [Base EXCEPT !.member = {n1, n2}]
Both == [r \in Row |-> IF r = r1 THEN n1 ELSE n2]

FaultScenario ==
    {\* batches in flight together, reordered, with a crash or a failure
     [Pair EXCEPT !.crash = 1], [Pair EXCEPT !.fail = 1],
     \* one batch, its retries and a crash
     [Pair EXCEPT !.crash = 1, !.fail = 2, !.todo = {r1}],
     \* the sender, the receiver or both restart twice
     [Pair EXCEPT !.crash = 2],
     \* two nodes flush at once and wait for each other's lock, the third node
     \* being down although gossip does not know it yet
     [Base EXCEPT !.home = Both, !.quorum = 2, !.down = {n3}],
     \* a third row finds the memtable full
     [Pair EXCEPT !.todo = Row],
     \* a backup flushes whatever is in memory
     [Pair EXCEPT !.flushAll = TRUE, !.todo = {r1}],
     \* a node outside the owner set, waiting for ACKs or not
     [Base EXCEPT !.owner = {n2}, !.quorum = 1, !.crash = 1, !.fail = 1, !.todo = {r1}],
     [Base EXCEPT !.owner = {n2}, !.quorum = 0, !.crash = 1, !.todo = {r1}],
     [Base EXCEPT !.owner = {n2, n3}, !.quorum = 2, !.fail = 1, !.todo = {r1}]}
=============================================================================
