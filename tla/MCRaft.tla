-------------------------------- MODULE MCRaft --------------------------------
EXTENDS Raft, TLC

CONSTANTS s1, s2, s3, v1, v2

MCValue == <<v1, v2>>
Three == {s1, s2, s3}
Budget(e, index, p, m, t, r) ==
    [elections |-> s1 :> e[1] @@ s2 :> e[2] @@ s3 :> e[3], index |-> index,
     proposals |-> p, changes |-> 0, sends |-> m, timeouts |-> t, restarts |-> r,
     stride |-> 9, late |-> FALSE, sleepy |-> FALSE]
Among(S, b) == [config |-> S, joiners |-> {}, view |-> Three, left |-> b]

MCScenario ==
    { \* a client value and two leaders
      Among(Three, Budget(<<1, 1, 0>>, 2, 1, 2, 0, 0)),
      \* a client value and two timeouts: rollback, step-down
      Among({s1, s2}, Budget(<<1, 0, 0>>, 2, 1, 3, 2, 0)),
      \* two leaders, a request handled although its caller timed out
      Among(Three, [Budget(<<1, 1, 0>>, 2, 0, 2, 1, 0) EXCEPT !.late = TRUE]),
      \* an entry of an old term is replicated in its leader's next term
      Among(Three, Budget(<<2, 2, 0>>, 2, 0, 2, 0, 0)),
      \* two leaders and a restart in any state
      Among(Three, Budget(<<1, 1, 0>>, 2, 0, 3, 0, 1)),
      \* compaction, and a third master that joins through a snapshot
      Among({s1, s2}, [Budget(<<2, 1, 0>>, 3, 0, 4, 0, 0) EXCEPT !.stride = 1,
                                                              !.sleepy = TRUE]),
      \* a snapshot for a follower that is applying the same entries
      Among(Three, [Budget(<<1, 0, 0>>, 2, 1, 3, 1, 0) EXCEPT !.stride = 1,
                                                          !.late = TRUE]),
      \* a master is added or removed by a client, or added by the tick thread
      Among({s1, s2}, [Budget(<<1, 0, 0>>, 3, 0, 3, 0, 0) EXCEPT !.changes = 1]),
      \* a new cluster: the first master seeds the config, two join
      [config |-> {}, joiners |-> {s2, s3}, view |-> {s1},
       left |-> Budget(<<1, 0, 0>>, 4, 0, 3, 0, 0)] }

\* The instance of the run that ends in a counterexample: requests that reach
\* a follower although the leader has given them up.
RollbackScenario ==
    { Among({s1, s2}, [Budget(<<1, 0, 0>>, 1, 1, 3, 2, 0) EXCEPT !.late = TRUE]) }

\* Not followed any further: a log emptied by a conflict at the first entry
\* after its snapshot, whose numbering restarts at 1 (raft_log.c, examined in
\* RaftLog), and a snapshot the apply thread passes while it is restored,
\* which takes the state machine back (on_install_snapshot).
Followed ==
    \A s \in Server :
        /\ node[s].log.base >= node[s].log.snap
        /\ install[s] # None => node[s].applied < install[s].idx
=============================================================================
