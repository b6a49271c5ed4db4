------------------------------- MODULE Gossip -------------------------------
(***************************************************************************)
(* Membership and failure detection (src/cluster/gossip.c, node.c) and     *)
(* the hash ring that follows it (hashring.c, autobalance.c).  On every    *)
(* node the tick thread sends its view of the cluster to its peers and     *)
(* probes one of them, directly and then through helpers; the receive      *)
(* thread answers, relays and merges views; the balance thread sets the    *)
(* weights of the ring.  Datagrams are lost, delayed and reordered, nodes  *)
(* crash and come back with an empty view, links break and heal.           *)
(*                                                                         *)
(* Abstractions.  A peer's record is its state and version.  Heartbeat     *)
(* stamps are left out: they are taken from the monotonic clock of another *)
(* host, so a SUSPECT peer may be declared DEAD at once, later or not at   *)
(* all (Check).  A datagram arrives while its sender waits for the answer  *)
(* or within the sender's round, an ACK within the round of the node it    *)
(* goes to, unless it is one of the late ones.  The views of one round are *)
(* equal.  DISK_SYNC carries no membership, and of a node's weight on the  *)
(* ring only whether it is there is kept.                                  *)
(***************************************************************************)
EXTENDS Integers, FiniteSets

CONSTANTS
    Node,
    Scenario   \* [view, world]: clusters and faults to start from

VARIABLES
    view,      \* what each node knows of each node: node manager
    ring,      \* the nodes on each node's hash ring
    fails,     \* probe_fails
    tick,      \* each tick thread: where it is, its probe, the nodes to declare
               \* DEAD, tick_counter
    relay,     \* [target, requester] pairs each node relays an ACK for
    balance,   \* the snapshot each balance thread works through
    readded,   \* history: put on the ring from a stale snapshot
    net,       \* datagrams in flight
    world      \* the scenario: which nodes are up and run their tick thread,
               \* seeds, cut links, what may still happen, SUSPECT_THRESHOLD,
               \* every how many rounds SUSPECT and DEAD peers get the view (5
               \* in the code), and beats, where heartbeats stop (bound)

\* Three peers get a round's view and two are asked to help: in a cluster of
\* three that is every peer.
ASSUME ClusterAssumption == Cardinality(Node) <= 3

gvars == <<view, ring, fails, tick, relay, balance, readded, net, world>>

\* A peer's record in a view.
Info == [state : {"none", "ALIVE", "SUSPECT", "DEAD"}, version : Nat]

ASSUME ScenarioAssumption == \A s \in Scenario : s.view \in [Node -> [Node -> Info]]

Unknown == [state |-> "none", version |-> 0]
Alive(v) == [state |-> "ALIVE", version |-> v]
Down(r) == r.state \in {"SUSPECT", "DEAD"}
AlivePeers(n) == {m \in Node \ {n} : view[n][m].state = "ALIVE"}

\* tsdb_node_manager_new: a node that starts knows only itself.
Fresh(n) == [m \in Node |-> IF m = n THEN Alive(1) ELSE Unknown]

Sleeping == [pc |-> "sleep", target |-> {}, waiting |-> FALSE, doomed |-> {},
             count |-> 0]

Init ==
    /\ \E s \in Scenario : view = s.view /\ world = s.world
    /\ ring = [n \in Node |-> {m \in Node : view[n][m].state = "ALIVE"}]
    /\ fails = [n \in Node |-> [m \in Node |-> 0]]
    /\ tick = [n \in Node |-> Sleeping]
    /\ relay = [n \in Node |-> {}]
    /\ balance = [n \in Node |-> {}]
    /\ readded = [n \in Node |-> {}]
    /\ net = {}

-----------------------------------------------------------------------------
(* Datagrams.                                                              *)

Reaches(a, b) == {a, b} \subseteq world.up /\ {a, b} \notin world.cut

Msg(type, from, to, about) ==
    [type |-> type, from |-> from, to |-> to, about |-> about, view |-> <<>>]

\* Views of n for the nodes of T.
Syncs(n, v, T) == {[Msg("sync", n, m, n) EXCEPT !.view = v] : m \in T}

\* What reaches the network; the rest is lost at once.
Sent(M) == {q \in M : Reaches(q.from, q.to)}

-----------------------------------------------------------------------------
(* The node manager (node.c); each operation runs under its lock.          *)

\* View and ring of n become v and g.
Install(n, v, g) ==
    /\ view' = [view EXCEPT ![n] = v]
    /\ ring' = [ring EXCEPT ![n] = g]
    /\ readded' = [readded EXCEPT ![n] = @ \cap g]

\* tsdb_node_manager_alive(id, 0).
MarkAlive(n, m) ==
    IF view[n][m].state = "none" THEN UNCHANGED <<view, ring, readded>>
    ELSE Install(n, [view[n] EXCEPT ![m].state = "ALIVE"],
                 IF view[n][m].state = "ALIVE" THEN ring[n] ELSE ring[n] \cup {m})

\* tsdb_node_manager_upsert: a newer record wins; an ALIVE one also wins
\* over a SUSPECT or DEAD one of the same version.
Wins(old, new) ==
    \/ old.state = "none"
    \/ new.version > old.version
    \/ new.state = "ALIVE" /\ Down(old) /\ new.version >= old.version

\* tsdb_node_manager_refute: what a peer says of a live node itself.
Refuted(own, claim) ==
    IF Down(claim) /\ claim.version >= own.version
    THEN Alive(claim.version + 1) ELSE own

\* tsdb_node_manager_decode of the view w.
MergedView(n, w) ==
    [m \in Node |-> IF m = n THEN Refuted(view[n][n], w[n])
                    ELSE IF w[m].state # "none" /\ Wins(view[n][m], w[m]) THEN w[m]
                    ELSE view[n][m]]

\* The ring after a merge: only a record that changed whether its node
\* belongs there moves it.
MergedRing(n, v) ==
    (ring[n] \cup {m \in Node : v[m].state = "ALIVE" /\ view[n][m].state # "ALIVE"})
        \ {m \in Node : v[m].state # "ALIVE" /\ view[n][m].state = "ALIVE"}

\* The node is left on the ring.
RingWithoutSame(n, D) == ring[n]
\* tsdb_hashring_remove of the nodes of D.
RingWithout(n, D) == ring[n] \ D

\* tsdb_node_manager_suspect.
MarkSuspect(n, m) ==
    IF view[n][m].state # "ALIVE" THEN UNCHANGED <<view, ring, readded>>
    ELSE Install(n, [view[n] EXCEPT ![m] =
                        [state |-> "SUSPECT", version |-> @.version + 1]],
                 RingWithout(n, {m}))

\* tsdb_node_manager_dead, whatever the node's state is by now.
MarkDead(n, D) ==
    Install(n, [m \in Node |-> IF m \notin D THEN view[n][m]
                  ELSE [state |-> "DEAD", version |-> view[n][m].version + 1]],
            RingWithout(n, D))

-----------------------------------------------------------------------------
(* The tick thread (tick_loop).                                            *)

\* Views go to the ALIVE peers and to the seeds only.
TickTargetsAliveOnly(n, again) == AlivePeers(n) \cup world.seeds[n]
\* Views go to ALIVE peers (3 of them, at random) and to the seeds, in some
\* rounds also to the peers thought SUSPECT or DEAD.
TickTargets(n, again) ==
    AlivePeers(n) \cup world.seeds[n]
        \cup (IF again THEN {m \in Node \ {n} : Down(view[n][m])} ELSE {})

\* Time passes for n after the datagrams M have arrived, or before them when
\* one is late.
InTime(M) ==
    IF M # {} THEN world.late > 0 /\ world' = [world EXCEPT !.late = @ - 1]
    ELSE UNCHANGED world

\* A round starts with a heartbeat; what n asked its helpers to relay in the
\* round before has expired by now.
Tick(n) ==
    /\ n \in world.up \cap world.ticking /\ tick[n].pc = "sleep"
    /\ InTime({q \in net : IF q.type = "ack" THEN q.to = n ELSE q.from = n})
    /\ LET v == [view[n] EXCEPT ![n].version = IF @ < world.beats THEN @ + 1 ELSE @]
           count == (tick[n].count + 1) % world.every
       IN /\ view' = [view EXCEPT ![n] = v]
          /\ net' = net \cup Sent(Syncs(n, v, TickTargets(n, count = 0)))
          /\ tick' = [tick EXCEPT ![n].pc = "probe", ![n].count = count]
    /\ relay' = [h \in Node |-> {e \in relay[h] : e.requester # n}]
    /\ UNCHANGED <<ring, fails, balance, readded>>

\* One ALIVE peer, at random, is pinged.
Probe(n, m) ==
    /\ n \in world.up /\ tick[n].pc = "probe" /\ m \in AlivePeers(n)
    /\ tick' = [tick EXCEPT ![n] = [@ EXCEPT !.pc = "direct", !.target = {m},
                                                   !.waiting = TRUE]]
    /\ net' = net \cup Sent({Msg("ping", n, m, m)})
    /\ UNCHANGED <<view, ring, fails, relay, balance, readded, world>>

NoProbe(n) ==
    /\ n \in world.up /\ tick[n].pc = "probe" /\ AlivePeers(n) = {}
    /\ tick' = [tick EXCEPT ![n].pc = "check"]
    /\ UNCHANGED <<view, ring, fails, relay, balance, readded, net, world>>

\* The answers to the probe of n that are under way.
Expected(n) ==
    {q \in net :
        /\ tick[n].waiting /\ q.about \in tick[n].target /\ q.type # "sync"
        /\ \/ n \in {q.from, q.to}
           \/ \E h \in {q.from, q.to} :
                 [target |-> q.about, requester |-> n] \in relay[h]}

\* The direct wait is over: an unanswered probe asks helpers (two of the
\* ALIVE peers, the target left out).
DirectWaitEnds(n) ==
    /\ n \in world.up /\ tick[n].pc = "direct"
    /\ InTime(Expected(n))
    /\ IF tick[n].waiting
       THEN /\ net' = net \cup Sent({Msg("ping_req", n, h, m) :
                              h \in AlivePeers(n) \ tick[n].target, m \in tick[n].target})
            /\ tick' = [tick EXCEPT ![n].pc = "indirect"]
       ELSE UNCHANGED net /\ tick' = [tick EXCEPT ![n].pc = "check"]
    /\ UNCHANGED <<view, ring, fails, relay, balance, readded>>

\* The indirect wait is over: an unanswered probe counts as a failure.
IndirectWaitEnds(n) ==
    \E m \in tick[n].target :
       /\ n \in world.up /\ tick[n].pc = "indirect"
       /\ InTime(Expected(n))
       /\ fails' = IF tick[n].waiting /\ fails[n][m] < world.threshold
                   THEN [fails EXCEPT ![n][m] = @ + 1] ELSE fails
       /\ tick' = [tick EXCEPT ![n].pc =
                     IF tick[n].waiting /\ fails'[n][m] = world.threshold
                     THEN "suspect" ELSE "check"]
       /\ UNCHANGED <<view, ring, readded, relay, balance, net>>

\* SUSPECT_THRESHOLD failures were counted, the lock of the counters is
\* released: an ACK may have come in between.
Suspect(n) ==
    /\ n \in world.up /\ tick[n].pc = "suspect"
    /\ \E m \in tick[n].target : MarkSuspect(n, m)
    /\ tick' = [tick EXCEPT ![n].pc = "check"]
    /\ UNCHANGED <<fails, relay, balance, net, world>>

\* The end of a round: the SUSPECT peers of a snapshot whose heartbeat looks
\* older than DEAD_TIMEOUT_NS are to be declared DEAD.
Check(n) ==
    /\ n \in world.up /\ tick[n].pc = "check"
    /\ \E D \in SUBSET {m \in Node : view[n][m].state = "SUSPECT"} :
          tick' = [tick EXCEPT ![n] =
                     [Sleeping EXCEPT !.pc = IF D = {} THEN "sleep" ELSE "declare",
                                      !.doomed = D, !.count = tick[n].count]]
    /\ UNCHANGED <<view, ring, readded, fails, relay, balance, net, world>>

DeclareDead(n) ==
    /\ n \in world.up /\ tick[n].pc = "declare"
    /\ MarkDead(n, tick[n].doomed)
    /\ tick' = [tick EXCEPT ![n].pc = "sleep", ![n].doomed = {}]
    /\ UNCHANGED <<fails, relay, balance, net, world>>

-----------------------------------------------------------------------------
(* The receive thread (recv_loop).                                         *)

\* A PING is acknowledged and proves its sender alive.
ReceivePing(q) ==
    /\ q.type = "ping"
    /\ net' = (net \ {q}) \cup Sent({Msg("ack", q.to, q.from, q.about)})
    /\ MarkAlive(q.to, q.from)
    /\ UNCHANGED <<fails, tick, relay, balance, world>>

\* relay_flush is missing.
RelayedNone(n, m) == {}
\* relay_flush: the ACKs passed on to those who asked for m.
Relayed(n, m) ==
    {Msg("ack", n, e.requester, m) : e \in {e \in relay[n] : e.target = m}}

\* An ACK proves its subject alive, ends the probe of it and is relayed.
ReceiveAck(q) ==
    LET n == q.to  m == q.about  mine == tick[n].waiting /\ tick[n].target = {m}
    IN /\ q.type = "ack"
       /\ MarkAlive(n, m)
       /\ tick' = IF mine THEN [tick EXCEPT ![n].waiting = FALSE] ELSE tick
       /\ fails' = IF mine THEN [fails EXCEPT ![n][m] = 0] ELSE fails
       /\ net' = (net \ {q}) \cup Sent(Relayed(n, m))
       /\ relay' = [relay EXCEPT ![n] = {e \in @ : e.target # m}]
       /\ UNCHANGED <<balance, world>>

\* A PING_REQ for a known node: relay_add replaces an entry for the same
\* target, and the target is pinged.
ReceivePingReq(q) ==
    LET n == q.to
    IN /\ q.type = "ping_req"
       /\ IF view[n][q.about].state = "none" THEN net' = net \ {q} /\ UNCHANGED relay
          ELSE /\ relay' = [relay EXCEPT ![n] = {e \in @ : e.target # q.about}
                              \cup {[target |-> q.about, requester |-> q.from]}]
               /\ net' = (net \ {q}) \cup Sent({Msg("ping", n, q.about, q.about)})
       /\ UNCHANGED <<view, ring, fails, tick, balance, readded, world>>

\* The bug the code's comment describes: hearing of an ALIVE record resets
\* the evidence of this node's own probes.
FailsAfterSyncReset(n, w) ==
    [m \in Node |-> IF w[m].state = "ALIVE" THEN 0 ELSE fails[n][m]]
FailsAfterSync(n, w) == fails[n]

ReceiveSync(q) ==
    LET n == q.to  v == MergedView(n, q.view)
    IN /\ q.type = "sync"
       /\ net' = net \ {q}
       /\ Install(n, v, MergedRing(n, v))
       /\ fails' = [fails EXCEPT ![n] = FailsAfterSync(n, q.view)]
       /\ UNCHANGED <<tick, relay, balance, world>>

Lose(q) ==
    /\ world.loss > 0
    /\ world' = [world EXCEPT !.loss = @ - 1]
    /\ net' = net \ {q}
    /\ UNCHANGED <<view, ring, fails, tick, relay, balance, readded>>

-----------------------------------------------------------------------------
(* The balance thread (do_rebalance): the ALIVE nodes of a snapshot get a  *)
(* weight, without the node manager's lock; a node that is not on the ring *)
(* is added to it.                                                         *)

Snapshot(n) ==
    /\ n \in world.up /\ n \in world.balancing /\ AlivePeers(n) # {}
    /\ world' = [world EXCEPT !.balancing = @ \ {n}]
    /\ balance' = [balance EXCEPT ![n] = {m \in Node : view[n][m].state = "ALIVE"}]
    /\ UNCHANGED <<view, ring, fails, tick, relay, readded, net>>

SetWeight(n, m) ==
    /\ n \in world.up /\ m \in balance[n]
    /\ balance' = [balance EXCEPT ![n] = @ \ {m}]
    /\ ring' = [ring EXCEPT ![n] = @ \cup {m}]
    /\ readded' = [readded EXCEPT ![n] = IF m \in ring[n] THEN @ ELSE @ \cup {m}]
    /\ UNCHANGED <<view, fails, tick, relay, net, world>>

-----------------------------------------------------------------------------
(* Faults.                                                                 *)

Crash(n) ==
    /\ n \in world.up \cap world.crash
    /\ world' = [world EXCEPT !.up = @ \ {n}, !.crash = @ \ {n}]
    /\ net' = {q \in net : q.to # n}
    /\ tick' = [tick EXCEPT ![n] = Sleeping]
    /\ relay' = [h \in Node |-> IF h = n THEN {} ELSE {e \in relay[h] : e.requester # n}]
    /\ balance' = [balance EXCEPT ![n] = {}]
    /\ fails' = [fails EXCEPT ![n] = [m \in Node |-> 0]]
    /\ Install(n, Fresh(n), {n})

\* tsdb_gossip_new and tsdb_gossip_add_seed.
Restart(n) ==
    /\ n \in world.back \ world.up /\ n \notin world.crash
    /\ world' = [world EXCEPT !.up = @ \cup {n}, !.back = @ \ {n}]
    /\ net' = net \cup {q \in Syncs(n, Fresh(n), world.seeds[n]) :
                           q.to \in world.up /\ {n, q.to} \notin world.cut}
    /\ UNCHANGED <<view, ring, fails, tick, relay, balance, readded>>

Heal ==
    /\ world.heals /\ world.cut # {}
    /\ world' = [world EXCEPT !.cut = {}]
    /\ UNCHANGED <<view, ring, fails, tick, relay, balance, readded, net>>

Receive(q) ==
    \/ ReceivePing(q)
    \/ ReceiveAck(q)
    \/ ReceivePingReq(q)
    \/ ReceiveSync(q)

Next ==
    \/ \E n \in Node :
         \/ Tick(n)
         \/ \E m \in Node : Probe(n, m) \/ SetWeight(n, m)
         \/ NoProbe(n)
         \/ DirectWaitEnds(n)
         \/ IndirectWaitEnds(n)
         \/ Suspect(n)
         \/ Check(n)
         \/ DeclareDead(n)
         \/ Snapshot(n)
         \/ Crash(n)
         \/ Restart(n)
    \/ \E q \in net : Receive(q) \/ Lose(q)
    \/ Heal

\* The two loops go on: the tick thread takes its steps, the probe's target is
\* picked at random, every datagram that is not lost arrives, a cut that heals
\* does, a node that comes back does.
Fairness ==
    /\ \A n \in Node :
         /\ WF_gvars(Tick(n) \/ NoProbe(n) \/ DirectWaitEnds(n) \/ IndirectWaitEnds(n)
                       \/ Suspect(n) \/ Check(n) \/ DeclareDead(n))
         /\ \A m \in Node \ {n} : SF_gvars(Probe(n, m))
         /\ WF_gvars(\E q \in net : q.to = n /\ ReceiveAck(q))
         /\ WF_gvars(\E q \in net : q.to = n /\ Receive(q) /\ q.type # "ack")
    /\ WF_gvars(Heal \/ \E n \in Node : Restart(n))

GossipSpec == Init /\ [][Next]_gvars /\ Fairness

-----------------------------------------------------------------------------
(* Properties.                                                             *)

\* The ring holds the nodes thought ALIVE and no others (node.c: "Add to
\* hashring only if ALIVE"), through suspicion, merges and refutation; the
\* exception is a node the balance thread put back from a stale snapshot.
RingFollowsState ==
    \A n \in Node : \A m \in Node \ readded[n] :
        m \in ring[n] <=> view[n][m].state = "ALIVE"

\* Where the only fault is a broken link, a node that a helper reaches is
\* never suspected (gossip.c: "a peer reachable only via a third node isn't
\* falsely SUSPECTed").
RelayedProbeSuffices ==
    world.relayed => \A n, m \in Node : view[n][m].state \in {"none", "ALIVE"}

\* Once the faults are over, nodes that are up see each other as ALIVE for
\* good, also two nodes that each thought the other DEAD.
UpNodesConverge ==
    <>[](\A n, m \in world.up : view[n][m].state = "ALIVE")

\* A node that stays down is found out by every other node for good, although
\* they keep telling each other older news of it.
StoppedNodeFound ==
    <>[](\A n \in world.up, m \in Node \ world.up : view[n][m].state # "ALIVE")
=============================================================================
