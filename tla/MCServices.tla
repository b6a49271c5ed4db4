----------------------------- MODULE MCServices -----------------------------
(***************************************************************************)
(* Two services of a node whose threads must not wait forever, in one      *)
(* instance: gossip among up to three nodes, and the group commit of one   *)
(* write-ahead log.  They share nothing; a behaviour exercises one of them *)
(* and leaves the other at rest.                                           *)
(***************************************************************************)
EXTENDS Gossip, GroupCommit

CONSTANTS a, b, c

VARIABLE service

allvars == <<service, gvars, cvars>>

-----------------------------------------------------------------------------
(* Clusters.  Nobody has seeds and nothing goes wrong unless said so.      *)

Nobody == [n \in Node |-> {}]
World ==
    [up |-> {a, b}, ticking |-> Node, seeds |-> Nobody, cut |-> {},
     heals |-> FALSE, crash |-> {}, back |-> {}, loss |-> 0, late |-> 0,
     balancing |-> {}, relayed |-> FALSE, threshold |-> 1, every |-> 1, beats |-> 1]
Seeded == [Nobody EXCEPT ![b] = {a}]

Dead(v) == [state |-> "DEAD", version |-> v]
Joined(S) ==
    [n \in Node |-> [m \in Node |-> IF n = m \/ {n, m} \subseteq S THEN Alive(1) ELSE Unknown]]
Pair == Joined({a, b})
Apart == [Joined({}) EXCEPT ![a][b] = Dead(3), ![b][a] = Dead(3)]

Start(v, w) == [view |-> v, world |-> w]

Clusters == {
    \* Each thinks the other DEAD, after a partition.
    Start(Apart, [World EXCEPT !.threshold = 2, !.every = 2, !.beats = 2]),
    \* A partition that one side has noticed, and that heals.
    Start([Pair EXCEPT ![a][b] = Dead(3)],
          [World EXCEPT !.cut = {{a, b}}, !.heals = TRUE]),
    \* c has stopped; b has newer news of it than a.
    Start([Joined(Node) EXCEPT ![b][c] = Alive(2)], [World EXCEPT !.threshold = 2]),
    \* c has stopped before b heard of it.
    Start([Joined(Node) EXCEPT ![b][c] = Unknown], [World EXCEPT !.ticking = {a}]),
    \* b came back and a has not noticed that it was gone.
    Start([Joined({}) EXCEPT ![a][b] = Alive(2)],
          [World EXCEPT !.seeds = Seeded, !.threshold = 2, !.beats = 2]),
    \* b crashes and comes back.
    Start(Pair, [World EXCEPT !.crash = {b}, !.back = {b}, !.seeds = Seeded]),
    \* b crashes while a sets the weights of the ring, and a datagram is late.
    Start(Pair, [World EXCEPT !.crash = {b}, !.balancing = {a}, !.late = 1]),
    \* a and c only reach each other through b.
    Start(Joined(Node), [World EXCEPT !.up = Node, !.ticking = {a, c}, !.cut = {{a, c}},
                                      !.relayed = TRUE, !.threshold = 2, !.beats = 2]),
    \* A datagram is lost; one is late.
    Start(Pair, [World EXCEPT !.loss = 1]),
    Start(Pair, [World EXCEPT !.late = 2]),
    \* b joins through its seed a.
    Start(Joined({}), [World EXCEPT !.seeds = Seeded, !.threshold = 2, !.beats = 2])}

\* No cluster: nothing can happen.
Nowhere == Start(Joined({}), [World EXCEPT !.up = {}])

MCScenario == Clusters \cup {Nowhere}

\* A group commit that has stopped.
Stopped ==
    /\ write_seq = 0 /\ fsynced_seq = 0 /\ stop = 2 /\ last_fsync_rc = "ok"
    /\ writer = [w \in Writer |-> [pc |-> "idle", seq |-> 0, asleep |-> FALSE]]
    /\ bg = [pc |-> "done", target |-> 0, asleep |-> FALSE]
    /\ record = [s \in Seq1 |-> "none"]
    /\ masked = {}
    /\ faults = 0

-----------------------------------------------------------------------------
MCInit ==
    /\ Init
    /\ \/ service = "gossip" /\ world.up # {} /\ Stopped
       \/ service = "commit" /\ world.up = {} /\ CommitInit

MCNext ==
    \/ service = "gossip" /\ Next /\ UNCHANGED <<service, cvars>>
    \/ service = "commit" /\ CommitNext /\ UNCHANGED <<service, gvars>>

MCSpec == MCInit /\ [][MCNext]_allvars /\ Fairness /\ CommitFairness
=============================================================================
