---------------------------- MODULE ServicesProofs ----------------------------
(***************************************************************************)
(* The two services of MCServices.                                         *)
(*                                                                         *)
(* Gossip: the ring follows the node states, for any set of nodes, any     *)
(* initial views and any faults.  The balance thread changes the ring      *)
(* without the node manager's lock; the argument is that it can only add,  *)
(* so that a node thought ALIVE is always on the ring, and a node on the   *)
(* ring that is not thought ALIVE is one the balance thread put back.      *)
(*                                                                         *)
(* Group commit: for any number of writers, appends and faults a writer    *)
(* that is told OK has its record on disk, unless the failure of its fsync *)
(* was hidden.                                                             *)
(***************************************************************************)
EXTENDS Gossip, GroupCommit, TLAPS

-----------------------------------------------------------------------------
(* The hash ring.                                                          *)

Views == [Node -> Info]

\* Views, in the node managers and in datagrams, and the rings' shape.
RingShape ==
    /\ view \in [Node -> Views]
    /\ ring = [n \in Node |-> ring[n]] /\ readded = [n \in Node |-> readded[n]]
    /\ \A q \in net : q.type = "sync" => q.view \in Views

\* A node thought ALIVE is on the ring.
AliveOnRing ==
    \A n, m \in Node : view[n][m].state = "ALIVE" => m \in ring[n]

\* A node on the ring is thought ALIVE or was put back.
RingAliveOrReadded ==
    \A n, m \in Node : m \in ring[n] => view[n][m].state = "ALIVE" \/ m \in readded[n]

RingIInv == RingShape /\ AliveOnRing /\ RingAliveOrReadded

-----------------------------------------------------------------------------
\* A step of the node manager of n that installs a view v and a ring g keeps
\* the invariant when g holds the nodes ALIVE in v, and otherwise only nodes
\* put back earlier.
LEMMA InstallKeeps ==
    ASSUME RingIInv, NEW n, NEW v \in Views, NEW g,
           Install(n, v, g),
           \A q \in net' : q.type = "sync" => q.view \in Views,
           n \in Node => \A m \in Node : v[m].state = "ALIVE" => m \in g,
           n \in Node => \A m \in Node : m \in g => v[m].state = "ALIVE" \/ m \in readded[n]
    PROVE  RingIInv'
<1>1. /\ view' = [view EXCEPT ![n] = v]
      /\ ring' = [ring EXCEPT ![n] = g]
      /\ readded' = [readded EXCEPT ![n] = readded[n] \cap g]
    BY DEF Install
<1>2. RingShape'
    BY <1>1 DEF RingIInv, RingShape
<1>3. ASSUME NEW k \in Node, k # n
      PROVE  view'[k] = view[k] /\ ring'[k] = ring[k] /\ readded'[k] = readded[k]
    BY <1>1, <1>3 DEF RingIInv, RingShape
<1>4. n \in Node => view'[n] = v /\ ring'[n] = g /\ readded'[n] = readded[n] \cap g
    BY <1>1 DEF RingIInv, RingShape
<1>5. AliveOnRing'
    BY <1>3, <1>4 DEF RingIInv, AliveOnRing
<1>6. RingAliveOrReadded'
    BY <1>3, <1>4 DEF RingIInv, RingAliveOrReadded
<1> QED
    BY <1>2, <1>5, <1>6 DEF RingIInv

\* A step that leaves views and rings alone and sends typed views.
LEMMA RingFrame ==
    ASSUME RingIInv, UNCHANGED <<view, ring, readded>>,
           \A q \in net' : q.type = "sync" => q.view \in Views
    PROVE  RingIInv'
BY DEF RingIInv, RingShape, AliveOnRing, RingAliveOrReadded

\* The views a node sends are views; other datagrams carry none.
LEMMA SyncsTyped ==
    ASSUME NEW n, NEW v \in Views, NEW T
    PROVE  \A q \in Syncs(n, v, T) : q.type = "sync" /\ q.view \in Views
BY DEF Syncs, Msg

LEMMA FreshTyped == ASSUME NEW n PROVE Fresh(n) \in Views
BY DEF Fresh, Views, Info, Alive, Unknown

-----------------------------------------------------------------------------
\* tsdb_node_manager_alive.
LEMMA MarkAliveKeeps ==
    ASSUME RingIInv, NEW n, NEW m, MarkAlive(n, m),
           \A q \in net' : q.type = "sync" => q.view \in Views
    PROVE  RingIInv'
<1>1. CASE UNCHANGED <<view, ring, readded>>
    BY <1>1, RingFrame
<1>2. CASE ~UNCHANGED <<view, ring, readded>>
    <2> DEFINE v == [view[n] EXCEPT ![m].state = "ALIVE"]
               g == IF view[n][m].state = "ALIVE" THEN ring[n] ELSE ring[n] \cup {m}
    <2>1. Install(n, v, g)
        BY <1>2 DEF MarkAlive
    <2>2. CASE n \in Node
        <3>1. view[n] \in Views
            BY <2>2 DEF RingIInv, RingShape
        <3>2. v \in Views
            BY <3>1 DEF Views, Info
        <3>3. \A k \in Node : /\ k # m => v[k] = view[n][k]
                              /\ k = m => v[k].state = "ALIVE"
            BY <3>1 DEF Views, Info
        <3>4. \A k \in Node : v[k].state = "ALIVE" => k \in g
            BY <2>2, <3>3 DEF RingIInv, AliveOnRing
        <3>5. \A k \in Node : k \in g => v[k].state = "ALIVE" \/ k \in readded[n]
            BY <2>2, <3>3 DEF RingIInv, RingAliveOrReadded
        <3> HIDE DEF v, g
        <3> QED
            BY <2>1, <3>2, <3>4, <3>5, InstallKeeps
    <2>3. CASE n \notin Node
        BY <2>3, <2>1, <1>2 DEF Install, RingIInv, RingShape
    <2> QED
        BY <2>2, <2>3
<1> QED
    BY <1>1, <1>2

\* tsdb_node_manager_suspect.
LEMMA MarkSuspectKeeps ==
    ASSUME RingIInv, NEW n \in Node, NEW m, MarkSuspect(n, m), net' = net
    PROVE  RingIInv'
<1>0. /\ view[n] \in Views
      /\ \A q \in net' : q.type = "sync" => q.view \in Views
    BY DEF RingIInv, RingShape
<1>1. CASE view[n][m].state # "ALIVE"
    BY <1>0, <1>1, RingFrame DEF MarkSuspect
<1>2. CASE view[n][m].state = "ALIVE"
    <2> DEFINE v == [view[n] EXCEPT ![m] = [state |-> "SUSPECT", version |-> @.version + 1]]
               g == RingWithout(n, {m})
    <2>1. Install(n, v, g)
        BY <1>2 DEF MarkSuspect
    <2>2. v \in Views
        <3>1. m \in Node => [state |-> "SUSPECT", version |-> view[n][m].version + 1] \in Info
            BY <1>0 DEF Views, Info
        <3> QED
            BY <1>0, <3>1 DEF Views
    <2>3. \A k \in Node : /\ k # m => v[k] = view[n][k]
                          /\ k = m => v[k].state = "SUSPECT"
        BY <1>0 DEF Views, Info
    <2>4. \A k \in Node : v[k].state = "ALIVE" => k \in g
        BY <2>3 DEF RingIInv, AliveOnRing, RingWithout
    <2>5. \A k \in Node : k \in g => v[k].state = "ALIVE" \/ k \in readded[n]
        BY <2>3 DEF RingIInv, RingAliveOrReadded, RingWithout
    <2> HIDE DEF v, g
    <2> QED
        BY <1>0, <2>1, <2>2, <2>4, <2>5, InstallKeeps
<1> QED
    BY <1>1, <1>2

\* tsdb_node_manager_dead, also for a node that is ALIVE again by now.
LEMMA MarkDeadKeeps ==
    ASSUME RingIInv, NEW n \in Node, NEW D, MarkDead(n, D), net' = net
    PROVE  RingIInv'
<1> DEFINE v == [m \in Node |-> IF m \notin D THEN view[n][m]
                     ELSE [state |-> "DEAD", version |-> view[n][m].version + 1]]
           g == RingWithout(n, D)
<1>0. /\ view[n] \in Views
      /\ \A q \in net' : q.type = "sync" => q.view \in Views
    BY DEF RingIInv, RingShape
<1>1. Install(n, v, g)
    BY DEF MarkDead
<1>2. v \in Views
    BY <1>0 DEF Views, Info
<1>3. \A k \in Node : v[k].state = "ALIVE" => k \in g
    BY DEF RingIInv, AliveOnRing, RingWithout
<1>4. \A k \in Node : k \in g => v[k].state = "ALIVE" \/ k \in readded[n]
    BY DEF RingIInv, RingAliveOrReadded, RingWithout
<1> HIDE DEF v, g
<1> QED
    BY <1>0, <1>1, <1>2, <1>3, <1>4, InstallKeeps

-----------------------------------------------------------------------------
\* tsdb_node_manager_decode: a merge moves a node onto the ring or off it
\* exactly when its record changes between ALIVE and not ALIVE.
LEMMA SyncMergeKeeps ==
    ASSUME RingIInv, NEW q \in net, ReceiveSync(q)
    PROVE  RingIInv'
<1> DEFINE n == q.to
           v == MergedView(n, q.view)
           g == MergedRing(n, v)
<1>0. /\ q.view \in Views
      /\ \A p \in net' : p.type = "sync" => p.view \in Views
    BY DEF RingIInv, RingShape, ReceiveSync
<1>1. Install(n, v, g)
    BY DEF ReceiveSync
<1>2. CASE n \in Node
    <2>1. view[n] \in Views
        BY <1>2 DEF RingIInv, RingShape
    <2>2. v \in Views
        BY <1>0, <1>2, <2>1 DEF MergedView, Refuted, Alive, Views, Info
    <2>3. \A m \in Node : v[m].state = "ALIVE" => m \in g
        BY <1>2 DEF RingIInv, AliveOnRing, MergedRing
    <2>4. \A m \in Node : m \in g => v[m].state = "ALIVE" \/ m \in readded[n]
        BY <1>2 DEF RingIInv, RingAliveOrReadded, MergedRing
    <2> HIDE DEF v, g, n
    <2> QED
        BY <1>0, <1>1, <2>2, <2>3, <2>4, InstallKeeps
<1>3. CASE n \notin Node
    <2>1. UNCHANGED <<view, ring, readded>>
        BY <1>1, <1>3 DEF Install, RingIInv, RingShape
    <2> QED
        BY <1>0, <2>1, RingFrame
<1> QED
    BY <1>2, <1>3

\* The balance thread only adds, and what it adds to the ring is put back.
LEMMA SetWeightKeeps ==
    ASSUME RingIInv, NEW n \in Node, NEW m \in Node, SetWeight(n, m)
    PROVE  RingIInv'
<1>1. /\ view' = view /\ net' = net
      /\ ring' = [ring EXCEPT ![n] = ring[n] \cup {m}]
      /\ readded' = [readded EXCEPT ![n] = IF m \in ring[n] THEN readded[n]
                                           ELSE readded[n] \cup {m}]
    BY DEF SetWeight
<1>2. RingShape'
    BY <1>1 DEF RingIInv, RingShape
<1>3. \A k \in Node : ring[k] \subseteq ring'[k] /\ readded[k] \subseteq readded'[k]
    BY <1>1 DEF RingIInv, RingShape
<1>4. \A k, i \in Node : i \in ring'[k] => i \in ring[k] \/ i \in readded'[k]
    BY <1>1 DEF RingIInv, RingShape
<1>5. AliveOnRing' /\ RingAliveOrReadded'
    BY <1>1, <1>3, <1>4 DEF RingIInv, AliveOnRing, RingAliveOrReadded
<1> QED
    BY <1>2, <1>5 DEF RingIInv

\* A round's heartbeat changes the node's own version only.
LEMMA TickKeeps ==
    ASSUME RingIInv, NEW n \in Node, Tick(n)
    PROVE  RingIInv'
<1> DEFINE v == [view[n] EXCEPT ![n].version = IF @ < world.beats THEN @ + 1 ELSE @]
<1>0. view[n] \in Views
    BY DEF RingIInv, RingShape
<1>1. v \in Views /\ \A m \in Node : v[m].state = view[n][m].state
    BY <1>0 DEF Views, Info
<1>2. PICK T : net' = net \cup Sent(Syncs(n, v, T))
    BY DEF Tick
<1>3. view' = [view EXCEPT ![n] = v] /\ UNCHANGED <<ring, readded>>
    BY DEF Tick
<1> HIDE DEF v
<1>4. \A q \in net' : q.type = "sync" => q.view \in Views
    BY <1>1, <1>2, SyncsTyped DEF RingIInv, RingShape, Sent
<1>5. \A k, m \in Node : view'[k][m].state = view[k][m].state
    BY <1>1, <1>3 DEF RingIInv, RingShape
<1>6. RingShape'
    BY <1>1, <1>3, <1>4 DEF RingIInv, RingShape
<1> QED
    BY <1>3, <1>5, <1>6 DEF RingIInv, AliveOnRing, RingAliveOrReadded

-----------------------------------------------------------------------------
\* The steps that leave views and rings alone.
LEMMA QuietStepsKeep ==
    ASSUME RingIInv, UNCHANGED <<view, ring, readded>>,
           \/ \E n, m \in Node : Probe(n, m)
           \/ \E n \in Node : \/ NoProbe(n) \/ DirectWaitEnds(n) \/ IndirectWaitEnds(n)
                              \/ Check(n) \/ Snapshot(n) \/ Restart(n)
           \/ \E q \in net : ReceivePingReq(q) \/ Lose(q)
           \/ Heal
    PROVE  RingIInv'
<1> SUFFICES \A q \in net' : q.type = "sync" => q.view \in Views
    BY RingFrame
<1>0. \A q \in net : q.type = "sync" => q.view \in Views
    BY DEF RingIInv, RingShape
<1>1. ASSUME NEW n \in Node, NEW m \in Node, Probe(n, m)
      PROVE  \A q \in net' : q.type = "sync" => q.view \in Views
    <2>1. net' = net \cup Sent({Msg("ping", n, m, m)})
        BY <1>1 DEF Probe
    <2>2. \A q \in Sent({Msg("ping", n, m, m)}) : q.type = "ping"
        BY DEF Sent, Msg
    <2> QED
        BY <1>0, <2>1, <2>2
<1>2. ASSUME NEW n \in Node, DirectWaitEnds(n)
      PROVE  \A q \in net' : q.type = "sync" => q.view \in Views
    BY <1>0, <1>2 DEF DirectWaitEnds, Sent, Msg
<1>3. ASSUME NEW n \in Node, NoProbe(n) \/ IndirectWaitEnds(n) \/ Check(n) \/ Snapshot(n)
      PROVE  net' = net
    BY <1>3 DEF NoProbe, IndirectWaitEnds, Check, Snapshot
<1>4. ASSUME NEW n \in Node, Restart(n)
      PROVE  \A q \in net' : q.type = "sync" => q.view \in Views
    BY <1>0, <1>4, FreshTyped, SyncsTyped DEF Restart
<1>5. ASSUME NEW q \in net, ReceivePingReq(q) \/ Lose(q)
      PROVE  \A p \in net' : p.type = "sync" => p.view \in Views
    BY <1>0, <1>5 DEF ReceivePingReq, Lose, Sent, Msg
<1>6. CASE Heal
    BY <1>0, <1>6 DEF Heal
<1> QED
    BY <1>0, <1>1, <1>2, <1>3, <1>4, <1>5, <1>6

\* A node that stops: it will start with an empty view and itself on the ring.
LEMMA CrashKeeps ==
    ASSUME RingIInv, NEW n \in Node, Crash(n)
    PROVE  RingIInv'
<1>1. Install(n, Fresh(n), {n}) /\ net' \subseteq net
    BY DEF Crash
<1>2. \A m \in Node : Fresh(n)[m].state = "ALIVE" <=> m \in {n}
    BY DEF Fresh, Alive, Unknown
<1>3. \A q \in net' : q.type = "sync" => q.view \in Views
    BY <1>1 DEF RingIInv, RingShape
<1> QED
    BY <1>1, <1>2, <1>3, FreshTyped, InstallKeeps

\* The initial views and rings.
LEMMA RingInit == Init => RingIInv
BY ScenarioAssumption DEF Init, RingIInv, RingShape, AliveOnRing, RingAliveOrReadded, Views

\* The invariant is inductive.
LEMMA RingStep == RingIInv /\ [Next]_gvars => RingIInv'
<1> SUFFICES ASSUME RingIInv, [Next]_gvars PROVE RingIInv'
    OBVIOUS
<1>0. \A q \in net : q.type = "sync" => q.view \in Views
    BY DEF RingIInv, RingShape
<1>1. ASSUME NEW n \in Node, Tick(n) \/ Crash(n) PROVE RingIInv'
    BY <1>1, TickKeeps, CrashKeeps
<1>2. ASSUME NEW n \in Node, NEW m \in Node, SetWeight(n, m) PROVE RingIInv'
    BY <1>2, SetWeightKeeps
<1>3. ASSUME NEW n \in Node, Suspect(n) PROVE RingIInv'
    BY <1>3, MarkSuspectKeeps DEF Suspect
<1>4. ASSUME NEW n \in Node, DeclareDead(n) PROVE RingIInv'
    BY <1>4, MarkDeadKeeps DEF DeclareDead
<1>5. ASSUME NEW q \in net, ReceivePing(q) PROVE RingIInv'
    <2>1. \A p \in net' : p.type = "sync" => p.view \in Views
        BY <1>0, <1>5 DEF ReceivePing, Sent, Msg
    <2> QED
        BY <1>5, <2>1, MarkAliveKeeps DEF ReceivePing
<1>6. ASSUME NEW q \in net, ReceiveAck(q) PROVE RingIInv'
    <2>1. \A p \in net' : p.type = "sync" => p.view \in Views
        BY <1>0, <1>6 DEF ReceiveAck, Relayed, Sent, Msg
    <2> QED
        BY <1>6, <2>1, MarkAliveKeeps DEF ReceiveAck
<1>7. ASSUME NEW q \in net, ReceiveSync(q) PROVE RingIInv'
    BY <1>7, SyncMergeKeeps
<1>8. ASSUME \/ \E n, m \in Node : Probe(n, m)
             \/ \E n \in Node : \/ NoProbe(n) \/ DirectWaitEnds(n) \/ IndirectWaitEnds(n)
                                \/ Check(n) \/ Snapshot(n) \/ Restart(n)
             \/ \E q \in net : ReceivePingReq(q) \/ Lose(q)
             \/ Heal
      PROVE  RingIInv'
    <2>1. UNCHANGED <<view, ring, readded>>
        <3>1. ASSUME NEW n \in Node, NEW m \in Node, Probe(n, m)
              PROVE  UNCHANGED <<view, ring, readded>>
            BY <3>1 DEF Probe
        <3>2. ASSUME NEW n \in Node, \/ NoProbe(n) \/ DirectWaitEnds(n) \/ IndirectWaitEnds(n)
                                     \/ Check(n) \/ Snapshot(n) \/ Restart(n)
              PROVE  UNCHANGED <<view, ring, readded>>
            <4>1. CASE NoProbe(n) \/ Snapshot(n) \/ Restart(n)
                BY <4>1 DEF NoProbe, Snapshot, Restart
            <4>2. CASE DirectWaitEnds(n)
                BY <4>2 DEF DirectWaitEnds
            <4>3. CASE IndirectWaitEnds(n)
                BY <4>3 DEF IndirectWaitEnds
            <4>4. CASE Check(n)
                BY <4>4 DEF Check
            <4> QED
                BY <3>2, <4>1, <4>2, <4>3, <4>4
        <3>3. ASSUME NEW q \in net, ReceivePingReq(q) \/ Lose(q)
              PROVE  UNCHANGED <<view, ring, readded>>
            BY <3>3 DEF ReceivePingReq, Lose
        <3>4. CASE Heal
            BY <3>4 DEF Heal
        <3> QED
            BY <1>8, <3>1, <3>2, <3>3, <3>4
    <2> QED
        BY <1>8, <2>1, QuietStepsKeep
<1>9. CASE UNCHANGED gvars
    BY <1>0, <1>9, RingFrame DEF gvars
<1> QED
    BY <1>1, <1>2, <1>3, <1>4, <1>5, <1>6, <1>7, <1>8, <1>9 DEF Next, Receive

\* For any set of nodes, whatever is lost, late, cut, stopped or restarted, a
\* node's ring holds the nodes it thinks ALIVE and besides them only nodes
\* do_rebalance put back from a snapshot (node.c, hashring.c, autobalance.c).
THEOREM RingFollowsStateHolds == GossipSpec => []RingFollowsState
<1>1. RingIInv => RingFollowsState
    BY DEF RingIInv, AliveOnRing, RingAliveOrReadded, RingFollowsState
<1> QED
    BY <1>1, RingInit, RingStep, PTL DEF GossipSpec

-----------------------------------------------------------------------------
(* Group commit.                                                           *)

\* Every record up to fsynced_seq has been through an fsync.
SyncedSettled ==
    \A s \in Seq1 : s <= fsynced_seq => record[s] \in {"durable", "lost"}

\* Exactly the numbers given out have a record.
UnusedBlank ==
    \A s \in Seq1 : s > write_seq <=> record[s] = "none"

\* When the last result is ok, every lost record is one that result hides.
LossReported == last_fsync_rc = "ok" => Lost \subseteq masked

\* A waiting writer holds a number that was given out.
WaitersNumbered ==
    \A w \in Writer : writer[w].pc = "waiting" => writer[w].seq \in 1..write_seq

\* The background thread syncs no number that was not given out, and after
\* the last fsync there is none left.
TargetGiven ==
    /\ bg.pc \in {"fsync", "final"} => bg.target <= write_seq
    /\ bg.pc = "final" => stop # 0 /\ bg.target = write_seq
    /\ stop = 2 => fsynced_seq = write_seq

\* What a writer that was told OK may rely on.
OkSettled ==
    \A w \in Writer : writer[w].pc = "ok" =>
        /\ writer[w].seq \in Seq1
        /\ record[writer[w].seq] = "durable" \/ writer[w].seq \in masked

CommitIInv ==
    /\ CommitTypeOK /\ SyncedSettled /\ UnusedBlank /\ LossReported
    /\ WaitersNumbered /\ TargetGiven /\ OkSettled

-----------------------------------------------------------------------------
\* A step that leaves the log, the numbers and the background thread alone.
LEMMA CommitStutter ==
    ASSUME CommitIInv, UNCHANGED cvars
    PROVE  CommitIInv'
BY DEF CommitIInv, CommitTypeOK, SyncedSettled, UnusedBlank, LossReported,
       WaitersNumbered, TargetGiven, OkSettled, cvars, Lost

\* tsdb_group_commit_start establishes the invariant.
LEMMA CommitInitial == CommitInit => CommitIInv
<1> SUFFICES ASSUME CommitInit PROVE CommitIInv
    OBVIOUS
<1> USE GroupCommitAssumption
<1>1. CommitTypeOK
    BY DEF CommitInit, CommitTypeOK, Seq1
<1>2. SyncedSettled /\ UnusedBlank /\ LossReported
    BY DEF CommitInit, SyncedSettled, UnusedBlank, LossReported, Lost, Seq1
<1>3. WaitersNumbered /\ OkSettled
    BY DEF CommitInit, WaitersNumbered, OkSettled
<1>4. TargetGiven
    BY DEF CommitInit, TargetGiven
<1> QED
    BY <1>1, <1>2, <1>3, <1>4 DEF CommitIInv

-----------------------------------------------------------------------------
\* tsdb_wal_append_sync up to its wait: the new record has the next number.
LEMMA AppendKeeps ==
    ASSUME CommitIInv, NEW w \in Writer, Append(w)
    PROVE  CommitIInv'
<1> USE GroupCommitAssumption DEF Seq1
<1>0. /\ write_seq \in 0..MaxSeq /\ write_seq < MaxSeq /\ stop = 0
      /\ write_seq' = write_seq + 1 /\ write_seq + 1 \in 1..MaxSeq
    BY DEF CommitIInv, CommitTypeOK, Append
<1>1. CommitTypeOK'
    <2>1. /\ write_seq' \in 0..MaxSeq /\ fsynced_seq' \in 0..write_seq'
          /\ stop' \in 0..2 /\ last_fsync_rc' \in {"ok", "error"}
          /\ masked' \in SUBSET Seq1 /\ faults' \in 0..MaxFaults
        BY <1>0 DEF CommitIInv, CommitTypeOK, Append
    <2>2. writer' \in [Writer -> [pc : {"idle", "waiting", "ok", "error"},
                                  seq : 0..MaxSeq, asleep : BOOLEAN]]
        BY <1>0 DEF CommitIInv, CommitTypeOK, Append
    <2>3. bg' \in [pc : {"idle", "batch", "fsync", "yield", "final", "done"},
                   target : 0..MaxSeq, asleep : BOOLEAN]
        BY DEF CommitIInv, CommitTypeOK, Append, Signalled
    <2>4. record' \in [Seq1 -> {"none", "dirty", "durable", "lost"}]
        BY <1>0 DEF CommitIInv, CommitTypeOK, Append
    <2> QED
        BY <2>1, <2>2, <2>3, <2>4 DEF CommitTypeOK
<1>2. \A s \in Seq1 : s # write_seq + 1 => record'[s] = record[s]
    BY <1>0 DEF CommitIInv, CommitTypeOK, Append
<1>3. record[write_seq + 1] = "none" /\ record'[write_seq + 1] = "dirty"
    BY <1>0 DEF CommitIInv, CommitTypeOK, UnusedBlank, Append
<1>4. SyncedSettled' /\ UnusedBlank'
    BY <1>0, <1>2, <1>3 DEF CommitIInv, CommitTypeOK, SyncedSettled, UnusedBlank, Append
<1>5. LossReported'
    BY <1>0, <1>2, <1>3 DEF CommitIInv, LossReported, Lost, Append
<1>6. WaitersNumbered'
    BY <1>0 DEF CommitIInv, CommitTypeOK, WaitersNumbered, Append
<1>7. TargetGiven'
    BY <1>0 DEF CommitIInv, CommitTypeOK, TargetGiven, Append, Signalled
<1>8. OkSettled'
    <2> SUFFICES ASSUME NEW v \in Writer, writer'[v].pc = "ok"
                 PROVE  /\ writer'[v].seq \in Seq1
                        /\ \/ record'[writer'[v].seq] = "durable"
                           \/ writer'[v].seq \in masked'
        BY DEF OkSettled
    <2>1. v # w /\ writer'[v] = writer[v]
        BY DEF CommitIInv, CommitTypeOK, Append
    <2>2. /\ writer[v].seq \in Seq1
          /\ record[writer[v].seq] = "durable" \/ writer[v].seq \in masked
        BY <2>1 DEF CommitIInv, OkSettled
    <2> QED
        BY <2>1, <2>2, <1>2, <1>3 DEF Append
<1> QED
    BY <1>1, <1>4, <1>5, <1>6, <1>7, <1>8 DEF CommitIInv

\* A failed append leaves only its result.
LEMMA AppendFailsKeeps ==
    ASSUME CommitIInv, NEW w \in Writer, AppendFails(w)
    PROVE  CommitIInv'
<1> USE GroupCommitAssumption DEF Seq1
<1>1. CommitTypeOK'
    BY DEF CommitIInv, CommitTypeOK, AppendFails
<1>2. \A v \in Writer : writer'[v].pc \in {"waiting", "ok"} => writer'[v] = writer[v]
    BY DEF CommitIInv, CommitTypeOK, AppendFails
<1>3. WaitersNumbered' /\ OkSettled'
    BY <1>2 DEF CommitIInv, WaitersNumbered, OkSettled, AppendFails
<1>4. SyncedSettled' /\ UnusedBlank' /\ LossReported' /\ TargetGiven'
    BY DEF CommitIInv, SyncedSettled, UnusedBlank, LossReported, TargetGiven, Lost,
           AppendFails
<1> QED
    BY <1>1, <1>3, <1>4 DEF CommitIInv

\* A woken writer that returns OK: its number is at or below fsynced_seq, and
\* if its record was lost the last result hides it.
LEMMA WakeKeeps ==
    ASSUME CommitIInv, NEW w \in Writer, Wake(w)
    PROVE  CommitIInv'
<1> USE GroupCommitAssumption DEF Seq1
<1>0. /\ writer \in [Writer -> [pc : {"idle", "waiting", "ok", "error"},
                                seq : 0..MaxSeq, asleep : BOOLEAN]]
      /\ writer[w].pc = "waiting" /\ writer[w].seq \in 1..write_seq
      /\ write_seq \in 0..MaxSeq /\ fsynced_seq \in 0..write_seq /\ stop \in 0..2
      /\ last_fsync_rc \in {"ok", "error"}
    BY DEF CommitIInv, CommitTypeOK, WaitersNumbered, Wake
<1>1. /\ \A v \in Writer : v # w => writer'[v] = writer[v]
      /\ writer'[w].seq = writer[w].seq
      /\ writer'[w].pc \in {"waiting", last_fsync_rc}
      /\ writer'[w].pc # "waiting" => fsynced_seq >= writer[w].seq \/ stop = 2
    BY <1>0 DEF Wake
<1>2. CommitTypeOK'
    BY <1>0 DEF CommitIInv, CommitTypeOK, Wake
<1>3. SyncedSettled' /\ UnusedBlank' /\ LossReported' /\ TargetGiven'
    BY DEF CommitIInv, SyncedSettled, UnusedBlank, LossReported, TargetGiven, Lost, Wake
<1>4. WaitersNumbered'
    BY <1>0, <1>1 DEF CommitIInv, WaitersNumbered, Wake
<1>5. OkSettled'
    <2> SUFFICES ASSUME NEW v \in Writer, writer'[v].pc = "ok"
                 PROVE  /\ writer'[v].seq \in Seq1
                        /\ \/ record[writer'[v].seq] = "durable"
                           \/ writer'[v].seq \in masked
        BY DEF OkSettled, Wake
    <2>1. CASE v # w
        BY <2>1, <1>1 DEF CommitIInv, OkSettled
    <2>2. CASE v = w
        <3>1. last_fsync_rc = "ok" /\ writer[w].seq \in Seq1
            BY <2>2, <1>0, <1>1
        <3>2. writer[w].seq <= fsynced_seq
            BY <2>2, <1>0, <1>1 DEF CommitIInv, TargetGiven
        <3>3. record[writer[w].seq] \in {"durable", "lost"}
            BY <3>1, <3>2 DEF CommitIInv, SyncedSettled
        <3> QED
            BY <2>2, <1>1, <3>1, <3>3 DEF CommitIInv, LossReported, Lost
    <2> QED
        BY <2>1, <2>2
<1> QED
    BY <1>2, <1>3, <1>4, <1>5 DEF CommitIInv

-----------------------------------------------------------------------------
\* The steps of the background thread between two fsyncs, and stop.
LEMMA QuietKeeps ==
    ASSUME CommitIInv, BgIdle \/ BgBatch \/ BgYield \/ Stop
    PROVE  CommitIInv'
<1> USE GroupCommitAssumption DEF Seq1
<1>1. UNCHANGED <<write_seq, fsynced_seq, last_fsync_rc, writer, record, masked, faults>>
    BY DEF BgIdle, BgBatch, BgYield, Stop
<1>2. SyncedSettled' /\ UnusedBlank' /\ LossReported' /\ WaitersNumbered' /\ OkSettled'
    BY <1>1 DEF CommitIInv, SyncedSettled, UnusedBlank, LossReported, WaitersNumbered,
                OkSettled, Lost
<1>3. stop' \in 0..2 /\ (stop' = 2 => stop = 2)
    BY DEF BgIdle, BgBatch, BgYield, Stop, CommitIInv, CommitTypeOK
<1>4. bg' \in [pc : {"idle", "batch", "fsync", "yield", "final", "done"},
               target : 0..MaxSeq, asleep : BOOLEAN]
    <2> USE DEF CommitIInv, CommitTypeOK
    <2>1. CASE BgIdle
        <3>1. \/ bg' = [bg EXCEPT !.pc = "final", !.target = write_seq]
              \/ bg' = [bg EXCEPT !.asleep = TRUE]
              \/ bg' = [bg EXCEPT !.pc = "batch"]
            BY <2>1 DEF BgIdle
        <3> QED
            BY <3>1
    <2>2. CASE BgBatch
        <3>1. \/ bg' = [bg EXCEPT !.pc = "final", !.target = write_seq]
              \/ bg' = [bg EXCEPT !.pc = "fsync", !.target = write_seq]
            BY <2>2 DEF BgBatch
        <3> QED
            BY <3>1
    <2>3. CASE BgYield
        BY <2>3 DEF BgYield
    <2>4. CASE Stop
        BY <2>4 DEF Stop
    <2> QED
        BY <2>1, <2>2, <2>3, <2>4
<1>5. /\ bg'.pc \in {"fsync", "final"} => bg'.target <= write_seq
      /\ bg'.pc = "final" => stop' # 0 /\ bg'.target = write_seq
    <2> USE DEF CommitIInv, CommitTypeOK, TargetGiven
    <2>1. CASE BgIdle
        BY <2>1 DEF BgIdle
    <2>2. CASE BgBatch
        BY <2>2 DEF BgBatch
    <2>3. CASE BgYield
        BY <2>3 DEF BgYield
    <2>4. CASE Stop
        BY <2>4 DEF Stop
    <2> QED
        BY <2>1, <2>2, <2>3, <2>4
<1>6. CommitTypeOK'
    BY <1>1, <1>3, <1>4 DEF CommitIInv, CommitTypeOK
<1>7. TargetGiven'
    BY <1>1, <1>3, <1>5 DEF CommitIInv, TargetGiven
<1> QED
    BY <1>2, <1>6, <1>7 DEF CommitIInv

\* What fsync does to the records: those up to t are settled, nothing is
\* unsettled, and only a failing fsync loses one.
LEMMA WrittenSettles ==
    ASSUME CommitIInv, NEW t \in 0..write_seq, NEW result \in {"durable", "lost"}
    PROVE  /\ Written(t, result) \in [Seq1 -> {"none", "dirty", "durable", "lost"}]
           /\ \A s \in Seq1 : record[s] \in {"none", "durable", "lost"}
                                 => Written(t, result)[s] = record[s]
           /\ \A s \in Seq1 : Written(t, result)[s] \in {record[s], result}
           /\ \A s \in Seq1 : s <= t => Written(t, result)[s] # "dirty"
BY GroupCommitAssumption DEF CommitIInv, CommitTypeOK, Written

\* Waking every writer changes neither what it holds nor where it is.
LEMMA WokenSame ==
    ASSUME CommitIInv, writer' = AllWoken
    PROVE  /\ writer' \in [Writer -> [pc : {"idle", "waiting", "ok", "error"},
                                      seq : 0..MaxSeq, asleep : BOOLEAN]]
           /\ \A w \in Writer : /\ writer'[w].pc = writer[w].pc
                               /\ writer'[w].seq = writer[w].seq
BY DEF CommitIInv, CommitTypeOK, AllWoken

\* The records and the writers after an fsync, for both fsync steps.
LEMMA SyncKeeps ==
    ASSUME CommitIInv, NEW t \in 0..write_seq, NEW result \in {"durable", "lost"},
           record' = Written(t, result), writer' = AllWoken,
           UNCHANGED write_seq, masked \subseteq masked'
    PROVE  UnusedBlank' /\ WaitersNumbered' /\ OkSettled'
<1> USE GroupCommitAssumption DEF Seq1
<1>1. UnusedBlank'
    BY WrittenSettles DEF CommitIInv, UnusedBlank
<1>2. WaitersNumbered'
    BY WokenSame DEF CommitIInv, WaitersNumbered
<1>3. OkSettled'
    BY WokenSame, WrittenSettles DEF CommitIInv, OkSettled
<1> QED
    BY <1>1, <1>2, <1>3

\* fsync, and the publication of its number and result.
LEMMA FsyncKeeps ==
    ASSUME CommitIInv, NEW ok \in BOOLEAN, BgFsync(ok)
    PROVE  CommitIInv'
<1> USE GroupCommitAssumption DEF Seq1
<1> DEFINE result == IF ok THEN "durable" ELSE "lost"
<1>0. /\ write_seq \in 0..MaxSeq /\ fsynced_seq \in 0..write_seq /\ stop \in 0..2
      /\ bg.target \in 0..write_seq /\ bg.pc = "fsync"
      /\ write_seq' = write_seq /\ stop' = stop
    BY DEF CommitIInv, CommitTypeOK, TargetGiven, BgFsync
<1>1. PICK t \in bg.target..write_seq : record' = Written(t, result)
    BY DEF BgFsync
<1>2. t \in 0..write_seq /\ bg.target <= t /\ result \in {"durable", "lost"}
    BY <1>0
<1> HIDE DEF result
<1>3. /\ fsynced_seq' \in 0..write_seq /\ fsynced_seq <= fsynced_seq'
      /\ fsynced_seq' = fsynced_seq \/ fsynced_seq' <= t
    BY <1>0, <1>2 DEF BgFsync, Covered
<1>4. writer' = AllWoken /\ masked \subseteq masked'
    BY DEF BgFsync
<1>5. CommitTypeOK'
    <2>1. bg' \in [pc : {"idle", "batch", "fsync", "yield", "final", "done"},
                   target : 0..MaxSeq, asleep : BOOLEAN]
        BY DEF CommitIInv, CommitTypeOK, BgFsync
    <2>2. last_fsync_rc' \in {"ok", "error"} /\ faults' \in 0..MaxFaults
        BY DEF CommitIInv, CommitTypeOK, BgFsync, Result, Fault
    <2>3. masked' \in SUBSET Seq1
        BY DEF CommitIInv, CommitTypeOK, BgFsync, Lost
    <2> QED
        BY <1>0, <1>1, <1>2, <1>3, <1>4, <2>1, <2>2, <2>3, WokenSame, WrittenSettles
        DEF CommitTypeOK
<1>6. UnusedBlank' /\ WaitersNumbered' /\ OkSettled'
    BY <1>0, <1>1, <1>2, <1>4, SyncKeeps
<1>7. SyncedSettled'
    <2> SUFFICES ASSUME NEW s \in Seq1, s <= fsynced_seq'
                 PROVE  record'[s] \in {"durable", "lost"}
        BY DEF SyncedSettled
    <2>1. CASE s <= fsynced_seq
        BY <2>1, <1>1, <1>2, WrittenSettles DEF CommitIInv, SyncedSettled
    <2>2. CASE ~(s <= fsynced_seq)
        <3>1. s <= t /\ ~(s > write_seq)
            BY <2>2, <1>0, <1>2, <1>3
        <3>2. record[s] \in {"dirty", "durable", "lost"}
            BY <3>1 DEF CommitIInv, CommitTypeOK, UnusedBlank
        <3> QED
            BY <3>1, <3>2, <1>1, <1>2, WrittenSettles
    <2> QED
        BY <2>1, <2>2
<1>8. LossReported'
    <2> SUFFICES ASSUME last_fsync_rc' = "ok", NEW s \in Seq1, record'[s] = "lost"
                 PROVE  s \in masked'
        BY DEF LossReported, Lost
    <2>1. ok
        BY DEF BgFsync, Result
    <2>2. record[s] = "lost"
        BY <2>1, <1>1, <1>2, WrittenSettles DEF result
    <2> QED
        BY <2>1, <2>2 DEF BgFsync, Lost
<1>9. TargetGiven'
    BY <1>0, <1>3 DEF CommitIInv, CommitTypeOK, TargetGiven, BgFsync
<1> QED
    BY <1>5, <1>6, <1>7, <1>8, <1>9 DEF CommitIInv

\* The last fsync: every number is published, and what was lost is hidden.
LEMMA FinalKeeps ==
    ASSUME CommitIInv, NEW ok \in BOOLEAN, BgFinal(ok)
    PROVE  CommitIInv'
<1> USE GroupCommitAssumption DEF Seq1
<1> DEFINE result == IF ok THEN "durable" ELSE "lost"
<1>0. /\ write_seq \in 0..MaxSeq /\ bg.target = write_seq
      /\ write_seq' = write_seq /\ stop' = 2 /\ fsynced_seq' = write_seq
      /\ last_fsync_rc' = last_fsync_rc
    BY DEF CommitIInv, CommitTypeOK, TargetGiven, BgFinal
<1>1. /\ record' = Written(write_seq, result) /\ write_seq \in 0..write_seq
      /\ result \in {"durable", "lost"} /\ writer' = AllWoken
      /\ masked' = masked \cup {s \in Seq1 : record'[s] = "lost"}
    BY <1>0 DEF BgFinal
<1> HIDE DEF result
<1>2. CommitTypeOK'
    <2>1. bg' \in [pc : {"idle", "batch", "fsync", "yield", "final", "done"},
                   target : 0..MaxSeq, asleep : BOOLEAN]
        BY DEF CommitIInv, CommitTypeOK, BgFinal
    <2>2. faults' \in 0..MaxFaults /\ last_fsync_rc' \in {"ok", "error"}
        BY <1>0 DEF CommitIInv, CommitTypeOK, BgFinal, Fault
    <2>3. masked' \in SUBSET Seq1
        BY <1>1 DEF CommitIInv, CommitTypeOK
    <2> QED
        BY <1>0, <1>1, <2>1, <2>2, <2>3, WokenSame, WrittenSettles DEF CommitTypeOK
<1>3. UnusedBlank' /\ WaitersNumbered' /\ OkSettled'
    BY <1>0, <1>1, SyncKeeps
<1>4. SyncedSettled'
    <2> SUFFICES ASSUME NEW s \in Seq1, s <= write_seq
                 PROVE  record'[s] \in {"durable", "lost"}
        BY <1>0 DEF SyncedSettled
    <2>1. record[s] \in {"dirty", "durable", "lost"}
        BY <1>0 DEF CommitIInv, CommitTypeOK, UnusedBlank
    <2> QED
        BY <2>1, <1>1, WrittenSettles
<1>5. LossReported'
    BY <1>1 DEF LossReported, Lost
<1>6. TargetGiven'
    BY <1>0 DEF CommitIInv, CommitTypeOK, TargetGiven, BgFinal
<1> QED
    BY <1>2, <1>3, <1>4, <1>5, <1>6 DEF CommitIInv

-----------------------------------------------------------------------------
\* The invariant is inductive.
LEMMA CommitStep == CommitIInv /\ [CommitNext]_cvars => CommitIInv'
<1> SUFFICES ASSUME CommitIInv, [CommitNext]_cvars PROVE CommitIInv'
    OBVIOUS
<1>1. ASSUME NEW w \in Writer, Append(w) \/ AppendFails(w) \/ Wake(w)
      PROVE  CommitIInv'
    BY <1>1, AppendKeeps, AppendFailsKeeps, WakeKeeps
<1>2. CASE BgIdle \/ BgBatch \/ BgYield \/ Stop
    BY <1>2, QuietKeeps
<1>3. ASSUME NEW ok \in BOOLEAN, BgFsync(ok) \/ BgFinal(ok)
      PROVE  CommitIInv'
    BY <1>3, FsyncKeeps, FinalKeeps
<1>4. CASE UNCHANGED cvars
    BY <1>4, CommitStutter
<1> QED
    BY <1>1, <1>2, <1>3, <1>4 DEF CommitNext, Background

\* For any number of writers, appends and faults, tsdb_wal_append_sync returns
\* TSDB_OK only for a record that is on disk, or whose failed fsync a later
\* result or the stop has hidden.
THEOREM OkMeansDurableHolds == CommitSpec => [](CommitTypeOK /\ OkMeansDurable)
<1>1. CommitIInv => CommitTypeOK /\ OkMeansDurable
    BY DEF CommitIInv, OkSettled, OkMeansDurable
<1> QED
    BY <1>1, CommitInitial, CommitStep, PTL DEF CommitSpec
===============================================================================
