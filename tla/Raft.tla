--------------------------------- MODULE Raft ---------------------------------
(***************************************************************************)
(* Consensus among the masters of a cluster (src/raft/raft.c): pre-vote    *)
(* and election, AppendEntries, commit and apply, client proposals with    *)
(* their timeout, log compaction and InstallSnapshot, and membership       *)
(* changes through CONFIG entries.                                         *)
(*                                                                         *)
(* Every node has a tick thread (elections, heartbeats, the leader's NOOP, *)
(* SEED and ADD proposals), an apply thread and client threads that        *)
(* propose, here one.  r->lock is dropped around every RPC, so an RPC is   *)
(* three steps: it is sent, handled by the peer, and its answer merged;    *)
(* the caller may time out in between.                                     *)
(*                                                                         *)
(* Abstractions.  Time: an election deadline may pass at any moment, a     *)
(* leader lease may refuse any pre-vote, a leader that needs a peer for    *)
(* its quorum may have missed three quorum windows.  term, vote, log and   *)
(* config.bin survive a restart (RaftLog examines their files).  A pre-    *)
(* vote changes nothing at the peer, a vote is only counted when the round *)
(* ends: their request, handling and answer are one step.  A snapshot      *)
(* travels as one chunk; MAX_ENTRIES_PER_AE (64) is above MaxIndex.        *)
(***************************************************************************)
EXTENDS Integers, Sequences, FiniteSets, Functions

CONSTANTS
    Server, Value, None,
    Scenario,       \* the instances checked: see Init
    MaxIndex        \* bound on log indices

ASSUME RaftAssumption == MaxIndex \in Nat /\ IsFiniteSet(Server) /\ None \notin Server

VARIABLES
    node,      \* struct tsdb_raft of every server, with its log and config
    machine,   \* the state machine: the entry applied at each index, on disk
    round,     \* the tick thread's pre-vote or election round
    prop,      \* the proposal each thread is waiting for
    apply,     \* the apply thread's loop: index it is at, last index to apply
    install,   \* the snapshot a handler is restoring with r->lock released
    calls,     \* RPCs in flight
    view,      \* gossip: the masters a server knows of and believes alive
    ok, failed,\* history: values answered TSDB_OK, and TSDB_ERR_IO
    left       \* the instance's switches, and what may still happen in it

vars == <<node, machine, round, prop, apply, install, calls, view, ok, failed, left>>

Thread == {"tick", "client"}
Set(v) == [op |-> "set", arg |-> v]
Noop == [op |-> "noop", arg |-> None]
SeedOf(S) == [op |-> "seed", arg |-> S]
AddOf(s) == [op |-> "add", arg |-> s]
RemoveOf(s) == [op |-> "remove", arg |-> s]
IsConfig(v) == v.op \in {"seed", "add", "remove"}
Larger(a, b) == IF a > b THEN a ELSE b
Smaller(a, b) == IF a < b THEN a ELSE b

-----------------------------------------------------------------------------
(***************************************************************************)
(* The log (src/raft/raft_log.c) as the consensus code sees it: entries    *)
(* base+1, base+2, ... and the snapshot marker.                            *)
(***************************************************************************)
LastIndex(l) == l.base + Len(l.ents)
LastTerm(l) ==
    IF l.ents # <<>> THEN l.ents[Len(l.ents)].term ELSE IF l.base = 0 THEN 0 ELSE l.snapTerm
Holds(l, i) == i \in (l.base + 1)..LastIndex(l)
EntryAt(l, i) == l.ents[i - l.base]
TermAt(l, i) ==
    IF i = 0 THEN 0
    ELSE IF i = l.snap THEN l.snapTerm
    ELSE IF Holds(l, i) THEN EntryAt(l, i).term ELSE 0
AppendTo(l, e) == [l EXCEPT !.ents = Append(@, [term |-> e.term, val |-> e.val])]

\* An emptied log restarts at index 1, an index before the first is ignored.
TruncateFrom(l, i) ==
    IF ~Holds(l, i) THEN l
    ELSE IF i = l.base + 1 THEN [l EXCEPT !.base = 0, !.ents = <<>>]
    ELSE [l EXCEPT !.ents = SubSeq(@, 1, i - l.base - 1)]

CompactTo(l, i, t) ==
    IF i <= l.snap THEN l
    ELSE [base |-> i, snap |-> i, snapTerm |-> t,
          ents |-> SubSeq(l.ents, i - l.base + 1, Len(l.ents))]

\* Entries i.. with their indices, as an AppendEntries carries them.
From(l, i) ==
    [k \in 1..(LastIndex(l) - i + 1) |->
        [idx |-> i + k - 1, term |-> EntryAt(l, i + k - 1).term,
         val |-> EntryAt(l, i + k - 1).val]]

-----------------------------------------------------------------------------
EmptyLog == [base |-> 0, ents |-> <<>>, snap |-> 0, snapTerm |-> 0]

\* A scenario gives the config every node starts with ({}: config.bin does
\* not exist), the nodes started with seeds and what gossip shows at first.
\* Its left has the stride of compaction (SNAP_COMPACT_STRIDE), whether a
\* request may be handled although its caller times out (late), a proposer
\* may sleep through the loss of its leadership (sleepy), and the bounds: the
\* largest index proposed, the elections each node may start, and how many
\* client proposals, membership changes, RPCs, timeouts and restarts happen.
Init ==
    \E sc \in Scenario :
        /\ node = [s \in Server |->
              [role |-> "follower", term |-> 0, vote |-> None, log |-> EmptyLog,
               commit |-> 0, applied |-> 0, config |-> sc.config,
               removed |-> {}, joiner |-> s \in sc.joiners,
               peers |-> {}, next |-> [p \in Server |-> 1],
               match |-> [p \in Server |-> 0], noop |-> FALSE, seed |-> FALSE,
               mayAdd |-> FALSE]]
        /\ machine = [s \in Server |-> <<>>]
        /\ round = [s \in Server |-> None]
        /\ prop = [s \in Server |-> [th \in Thread |-> None]]
        /\ apply = [s \in Server |-> None]
        /\ install = [s \in Server |-> None]
        /\ calls = {}
        /\ view = [s \in Server |-> sc.view]
        /\ ok = {} /\ failed = {}
        /\ left = sc.left

Spend(what) == left[what] > 0 /\ left' = [left EXCEPT ![what] = @ - 1]

Quorum(r) == (Cardinality(r.peers) + 1) \div 2 + 1

\* config_has_member_locked: before the SEED commits everyone is a member.
IsMember(r, s) == r.config = {} \/ s \in r.config

\* A node that is neither leader nor candidate: the peer table is rebuilt
\* before it is used again.
Passive(r) ==
    [r EXCEPT !.role = "follower", !.peers = {}, !.mayAdd = FALSE,
              !.next = [p \in Server |-> 1], !.match = [p \in Server |-> 0]]

\* become_follower_locked.
Follower(r, t) ==
    [Passive(r) EXCEPT !.seed = FALSE, !.term = Larger(@, t),
                       !.vote = IF t > r.term THEN None ELSE @]

Idle(s, th) ==
    /\ prop[s][th] = None
    /\ \A c \in calls : ~(c.live /\ c.from = s /\ c.thread = th)
TickIdle(s) == round[s] = None /\ Idle(s, "tick")

\* A plausible bug: the node is its own peer.
WantedPeersAndSelf(s) == IF node[s].config # {} THEN node[s].config ELSE view[s]

\* rebuild_peers_locked, at the start of a tick: the members of the config,
\* or the masters gossip knows while there is none.  A tick proposes at most
\* one ADD.
WantedPeers(s) == (IF node[s].config # {} THEN node[s].config ELSE view[s]) \ {s}

Rebuilt(r, wanted) ==
    [r EXCEPT !.peers = wanted, !.mayAdd = TRUE,
              !.next = [p \in Server |-> IF p \in r.peers THEN @[p]
                                         ELSE LastIndex(r.log) + 1],
              !.match = [p \in Server |-> IF p \in r.peers THEN @[p] ELSE 0]]

\* The tick of a leader; another node's peers only matter to its elections.
RebuildPeers(s) ==
    /\ TickIdle(s) /\ node[s].role = "leader"
    /\ node[s].peers # WantedPeers(s) \/ ~node[s].mayAdd
    /\ node' = [node EXCEPT ![s] = Rebuilt(@, WantedPeers(s))]
    /\ UNCHANGED <<machine, round, prop, apply, install, calls, view, ok, failed, left>>

\* Gossip shows the masters that started late.
Discover(s) ==
    /\ view[s] # Server
    /\ view' = [view EXCEPT ![s] = Server]
    /\ UNCHANGED <<node, machine, round, prop, apply, install, calls, ok, failed, left>>

-----------------------------------------------------------------------------
(***************************************************************************)
(* Elections.                                                              *)
(***************************************************************************)
\* A plausible bug: only the length of the logs is compared.
UpToDateByLength(lastTerm, lastIdx, l) == lastIdx >= LastIndex(l)

UpToDate(lastTerm, lastIdx, l) ==
    \/ lastTerm > LastTerm(l)
    \/ lastTerm = LastTerm(l) /\ lastIdx >= LastIndex(l)

Round(kind, r, t) ==
    [kind |-> kind, term |-> t, lastIdx |-> LastIndex(r.log),
     lastTerm |-> LastTerm(r.log), todo |-> r.peers, granted |-> 1]

\* on_pre_vote; the leader lease may refuse on top of this.
MayGrantPreVote(r, s, q) ==
    UpToDate(q.lastTerm, q.lastIdx, r.log) /\ q.term > r.term /\ IsMember(r, s)

\* The election deadline passes and a pre-vote round is won: become_candidate.
\* A seeded node without a config waits to be added.  A round that is lost
\* changes nothing.
PreVote(s) ==
    LET r == Rebuilt(node[s], WantedPeers(s))
        q == Round("pre", r, r.term + 1)
    IN  /\ TickIdle(s)
        /\ r.role # "leader"
        /\ ~(r.joiner /\ r.config = {})
        /\ Cardinality({p \in r.peers : MayGrantPreVote(node[p], s, q)}) + 1 >= Quorum(r)
        /\ left.elections[s] > 0
        /\ left' = [left EXCEPT !.elections[s] = @ - 1]
        /\ node' = [node EXCEPT ![s] =
              [r EXCEPT !.term = @ + 1, !.vote = s, !.role = "candidate"]]
        /\ round' = [round EXCEPT ![s] = q]
        /\ UNCHANGED <<machine, prop, apply, install, calls, view, ok, failed>>

\* run_election_unlocked takes the lock again and reads term and log.
StartElection(s) ==
    /\ round[s] # None /\ round[s].kind = "pre"
    /\ round' = [round EXCEPT ![s] = Round("vote", node[s], node[s].term)]
    /\ UNCHANGED <<node, machine, prop, apply, install, calls, view, ok, failed, left>>

\* A plausible bug: voted_for is not looked at.
VoterTwice(r, s, q) ==
    LET up == IF q.term > r.term THEN Follower(r, q.term) ELSE r
        grant == /\ q.term >= r.term
                 /\ UpToDate(q.lastTerm, q.lastIdx, r.log)
                 /\ IsMember(r, s)
    IN  [node |-> IF grant THEN [up EXCEPT !.vote = s] ELSE up, granted |-> grant]

\* on_request_vote: the voter afterwards, and its answer.
Voter(r, s, q) ==
    LET up == IF q.term > r.term THEN Follower(r, q.term) ELSE r
        grant == /\ q.term >= r.term
                 /\ UpToDate(q.lastTerm, q.lastIdx, r.log)
                 /\ IsMember(r, s)
                 /\ up.vote \in {None, s}
    IN  [node |-> IF grant THEN [up EXCEPT !.vote = s] ELSE up, granted |-> grant]

\* An answer of a later term.
SteppedDown(r, t) == IF t > r.term THEN Follower(r, t) ELSE r

\* send_request_vote: the peer is asked and its answer merged ...
RequestVote(s, p) ==
    LET q == round[s]
        v == Voter(node[p], s, q)
    IN  /\ q # None /\ q.kind = "vote" /\ p \in q.todo
        /\ node' = [node EXCEPT ![p] = v.node, ![s] = SteppedDown(node[s], v.node.term)]
        /\ round' = [round EXCEPT ![s] =
              [q EXCEPT !.todo = @ \ {p},
                        !.granted = IF v.granted /\ v.node.term <= node[s].term
                                    THEN @ + 1 ELSE @]]
        /\ UNCHANGED <<machine, prop, apply, install, calls, view, ok, failed, left>>

\* ... or it times out: the request is lost, or still on its way.
RequestVoteTimesOut(s, p) ==
    LET q == round[s]
    IN  /\ q # None /\ q.kind = "vote" /\ p \in q.todo
        /\ Spend("timeouts")
        /\ round' = [round EXCEPT ![s] = [q EXCEPT !.todo = @ \ {p}]]
        /\ \/ UNCHANGED calls
           \/ /\ left.late
              /\ calls' = calls \union {[kind |-> "vote", from |-> s, to |-> p, live |-> FALSE,
                                         q |-> [q EXCEPT !.todo = {}, !.granted = 0]]}
        /\ UNCHANGED <<node, machine, prop, apply, install, view, ok, failed>>

LateVote(c) ==
    /\ c.kind = "vote"
    /\ node' = [node EXCEPT ![c.to] = Voter(@, c.from, c.q).node]
    /\ calls' = calls \ {c}
    /\ UNCHANGED <<machine, round, prop, apply, install, view, ok, failed, left>>

\* become_leader_locked, when the node is still a candidate of that term.
Leader(r) ==
    [r EXCEPT !.role = "leader",
              !.next = [p \in Server |-> LastIndex(r.log) + 1],
              !.match = [p \in Server |-> 0],
              !.seed = @ \/ (r.config = {} /\ ~r.joiner),
              !.noop = TRUE]

EndElection(s) ==
    LET q == round[s]
        r == node[s]
    IN  /\ q # None /\ q.kind = "vote" /\ q.todo = {}
        /\ node' = IF r.role = "candidate" /\ r.term = q.term /\ q.granted >= Quorum(r)
                   THEN [node EXCEPT ![s] = Leader(r)] ELSE node
        /\ round' = [round EXCEPT ![s] = None]
        /\ UNCHANGED <<machine, prop, apply, install, calls, view, ok, failed, left>>

\* check_quorum_locked after three windows without a quorum.
CheckQuorum(s) ==
    /\ TickIdle(s)
    /\ node[s].role = "leader"
    /\ Quorum(node[s]) > 1
    /\ Spend("timeouts")
    /\ node' = [node EXCEPT ![s] = Follower(@, @.term)]
    /\ UNCHANGED <<machine, round, prop, apply, install, calls, view, ok, failed>>

-----------------------------------------------------------------------------
(***************************************************************************)
(* Replication.                                                            *)
(***************************************************************************)

\* maybe_advance_commit_locked: the largest index of the current term that a
\* quorum holds.
Committable(r) ==
    {i \in (r.commit + 1)..LastIndex(r.log) :
        /\ TermAt(r.log, i) = r.term
        /\ Cardinality({p \in r.peers : r.match[p] >= i}) + 1 >= Quorum(r)}

Advanced(r) ==
    LET c == Committable(r)
    IN  IF r.role # "leader" \/ c = {} THEN r
        ELSE [r EXCEPT !.commit = CHOOSE i \in c : \A j \in c : j <= i]

\* A thread in replicate_all: the tick thread between proposals, or a
\* proposer on its sweep over the peers.
MaySend(s, th, p) ==
    /\ \A c \in calls : ~(c.live /\ c.from = s /\ c.thread = th)
    /\ node[s].role = "leader" /\ p \in node[s].peers
    /\ IF prop[s][th] = None THEN th = "tick" /\ round[s] = None
       ELSE p \in prop[s][th].todo

\* A proposer that is no longer leader, or whose peer left, skips the peer.
SweepSkips(s, th) ==
    /\ prop[s][th] # None
    /\ \E p \in prop[s][th].todo :
          /\ node[s].role # "leader" \/ p \notin node[s].peers
          /\ prop' = [prop EXCEPT ![s][th].todo = @ \ {p}]
    /\ UNCHANGED <<node, machine, round, apply, install, calls, view, ok, failed, left>>

Swept(s, th, p) ==
    IF prop[s][th] = None THEN prop
    ELSE [prop EXCEPT ![s][th].todo = @ \ {p}]

\* replicate_to, the peer within reach of the log: AppendEntries with all
\* entries from next_index on.
SendAppend(s, th, p) ==
    LET r == node[s]
        i == r.next[p]
        c == [kind |-> "append", from |-> s, thread |-> th, to |-> p, live |-> TRUE,
              term |-> r.term, prev |-> i - 1, prevTerm |-> TermAt(r.log, i - 1),
              ents |-> From(r.log, i), commit |-> r.commit, reply |-> None]
    IN  /\ MaySend(s, th, p)
        /\ i > r.log.snap
        /\ Spend("sends")
        /\ calls' = calls \union {c}
        /\ prop' = Swept(s, th, p)
        /\ UNCHANGED <<node, machine, round, apply, install, view, ok, failed>>

\* A plausible bug: a conflicting entry does not cut the log.
StoreKeepsConflict(l, e) ==
    IF e.idx <= LastIndex(l) THEN l ELSE AppendTo(l, e)

\* The entries of an AppendEntries one by one: an entry the log has is
\* skipped, a conflicting one cuts the log, and append takes the next index.
Store(l, e) ==
    IF e.idx <= LastIndex(l) /\ TermAt(l, e.idx) = e.term THEN l
    ELSE AppendTo(IF e.idx <= LastIndex(l) THEN TruncateFrom(l, e.idx) ELSE l, e)

\* The loop over all of them; the snapshot marker is left alone.
Stored(l, ents) ==
    LET after[k \in 0..Len(ents)] == IF k = 0 THEN l ELSE Store(after[k - 1], ents[k])
        last == after[Len(ents)]
    IN  [l EXCEPT !.base = last.base, !.ents = last.ents]

\* Every request of a leader of the term makes a candidate a follower.
HeardFrom(r, t) ==
    IF t > r.term THEN Follower(r, t)
    ELSE IF r.role = "candidate" THEN Passive(r) ELSE r

\* on_append_entries: the follower afterwards, and its answer.
Appended(r, c) ==
    LET f == HeardFrom(r, c.term)
        no(l, hint) == [node |-> [f EXCEPT !.log = l],
                        reply |-> [term |-> f.term, success |-> FALSE, match |-> hint]]
        l == Stored(r.log, c.ents)
    IN  IF c.term < r.term
        THEN [node |-> r, reply |-> [term |-> r.term, success |-> FALSE, match |-> 0]]
        ELSE IF c.prev > LastIndex(r.log) THEN no(r.log, LastIndex(r.log))
        ELSE IF c.prev > 0 /\ TermAt(r.log, c.prev) # c.prevTerm
        THEN no(TruncateFrom(r.log, c.prev), c.prev - 1)
        ELSE [node |-> [f EXCEPT !.log = l,
                          !.commit = Larger(@, Smaller(c.commit, LastIndex(l)))],
              reply |-> [term |-> f.term, success |-> TRUE, match |-> LastIndex(l)]]

Answer(c, reply) ==
    IF c.live THEN (calls \ {c}) \union {[c EXCEPT !.reply = reply]} ELSE calls \ {c}

HandleAppend(c) ==
    LET a == Appended(node[c.to], c)
    IN  /\ c.kind = "append" /\ c.reply = None
        /\ node' = [node EXCEPT ![c.to] = a.node]
        /\ calls' = Answer(c, a.reply)
        /\ UNCHANGED <<machine, round, prop, apply, install, view, ok, failed, left>>

\* The rest of replicate_to.  Whatever happened meanwhile, the answer counts
\* as long as the node is leader: its term is not compared with the request's.
Merged(r, c) ==
    LET n == c.prev + Len(c.ents)
        hint == c.reply.match + 1
    IN  CASE c.reply.term > r.term -> Follower(r, c.reply.term)
          [] c.reply.term <= r.term /\ (c.to \notin r.peers \/ r.role # "leader") -> r
          [] c.reply.term <= r.term /\ c.to \in r.peers /\ r.role = "leader"
             /\ c.reply.success ->
                Advanced([r EXCEPT !.match[c.to] = Larger(@, n), !.next[c.to] = n + 1])
          [] OTHER ->
                [r EXCEPT !.next[c.to] = IF hint < @ THEN hint
                                         ELSE IF @ > 1 THEN @ - 1 ELSE @]

MergeAppend(c) ==
    /\ c.kind = "append" /\ c.live /\ c.reply # None
    /\ node' = [node EXCEPT ![c.from] = Merged(@, c)]
    /\ calls' = calls \ {c}
    /\ UNCHANGED <<machine, round, prop, apply, install, view, ok, failed, left>>

\* The caller gives up after 3 s (5 s for a snapshot).  The request is lost,
\* or it was handled and the answer is lost, or it is still on its way.
CallTimesOut(c) ==
    /\ c.live
    /\ Spend("timeouts")
    /\ \/ (c.reply = None \/ left.late) /\ calls' = calls \ {c}
       \/ /\ c.reply = None /\ left.late
          /\ calls' = (calls \ {c}) \union {[c EXCEPT !.live = FALSE]}
    /\ UNCHANGED <<node, machine, round, prop, apply, install, view, ok, failed>>

-----------------------------------------------------------------------------
(***************************************************************************)
(* InstallSnapshot, for a peer that needs compacted entries.  The body is  *)
(* the leader's state machine as it is when the body is written.           *)
(***************************************************************************)
SendSnapshot(s, th, p) ==
    LET r == node[s]
    IN  /\ MaySend(s, th, p)
        /\ r.next[p] <= r.log.snap
        /\ Spend("sends")
        /\ calls' = calls \union
              {[kind |-> "snap", from |-> s, thread |-> th, to |-> p, live |-> TRUE,
                term |-> r.term, idx |-> r.log.snap, idxTerm |-> r.log.snapTerm,
                body |-> machine[s], reply |-> None]}
        /\ prop' = Swept(s, th, p)
        /\ UNCHANGED <<node, machine, round, apply, install, view, ok, failed>>

\* on_install_snapshot up to where it drops the lock.
HandleSnapshot(c) ==
    LET r == node[c.to]
        f == IF c.term < r.term THEN r ELSE HeardFrom(r, c.term)
    IN  /\ c.kind = "snap" /\ c.reply = None
        /\ install[c.to] = None
        /\ node' = [node EXCEPT ![c.to] = f]
        /\ IF c.term < r.term \/ c.idx <= r.log.snap
           THEN /\ calls' = Answer(c, [term |-> f.term])
                /\ UNCHANGED install
           ELSE /\ install' = [install EXCEPT ![c.to] = c]
                /\ UNCHANGED calls
        /\ UNCHANGED <<machine, round, prop, apply, view, ok, failed, left>>

\* The restore hook replaces the state machine; then, under the lock again,
\* the log is compacted and last_applied and commit_index follow.
Installed(r, c) ==
    [r EXCEPT !.log = CompactTo(@, c.idx, c.idxTerm),
              !.applied = Larger(@, c.idx), !.commit = Larger(@, c.idx)]

FinishSnapshot(p) ==
    LET c == install[p]
        r == Installed(node[p], c)
    IN  /\ c # None
        /\ machine' = [machine EXCEPT ![p] = c.body]
        /\ node' = [node EXCEPT ![p] = r]
        /\ install' = [install EXCEPT ![p] = None]
        /\ calls' = IF c \in calls THEN Answer(c, [term |-> r.term])
                    ELSE calls \ {[c EXCEPT !.live = FALSE]}
        /\ UNCHANGED <<round, prop, apply, view, ok, failed, left>>

SnapshotMerged(r, c) ==
    IF c.reply.term > r.term \/ c.to \notin r.peers THEN SteppedDown(r, c.reply.term)
    ELSE [r EXCEPT !.next[c.to] = c.idx + 1, !.match[c.to] = Larger(@, c.idx)]

MergeSnapshot(c) ==
    /\ c.kind = "snap" /\ c.live /\ c.reply # None
    /\ node' = [node EXCEPT ![c.from] = SnapshotMerged(@, c)]
    /\ calls' = calls \ {c}
    /\ UNCHANGED <<machine, round, prop, apply, install, view, ok, failed, left>>

-----------------------------------------------------------------------------
(***************************************************************************)
(* tsdb_raft_propose.                                                      *)
(***************************************************************************)

\* The entry is appended; a lone leader commits it at once.
Submit(s, th, val) ==
    LET r == [node[s] EXCEPT !.log = AppendTo(@, [term |-> node[s].term, val |-> val])]
    IN  /\ node[s].role = "leader"
        /\ LastIndex(node[s].log) < left.index
        /\ node' = [node EXCEPT ![s] = Advanced(r)]
        /\ prop' = [prop EXCEPT ![s][th] =
              [idx |-> LastIndex(r.log), term |-> r.term, val |-> val, todo |-> r.peers]]
        /\ UNCHANGED <<machine, round, apply, install, calls, view, ok, failed>>

Propose(s) ==
    /\ Idle(s, "client")
    /\ left.proposals > 0
    /\ Submit(s, "client", Set(Value[left.proposals]))
    /\ Spend("proposals")

\* drive_pending_noop and drive_pending_seed; once there is a config seed is
\* not looked at again.
ProposeNoop(s) ==
    /\ TickIdle(s) /\ node[s].noop
    /\ Submit(s, "tick", Noop)
    /\ UNCHANGED left

ProposeSeed(s) ==
    /\ TickIdle(s) /\ node[s].seed /\ node[s].config = {}
    /\ Submit(s, "tick", SeedOf(view[s] \union {s}))
    /\ UNCHANGED left

\* has_pending_config_locked.
PendingConfig(r) ==
    \E i \in (r.applied + 1)..LastIndex(r.log) :
        Holds(r.log, i) /\ IsConfig(EntryAt(r.log, i).val)

\* tsdb_raft_add_master and tsdb_raft_remove_master look for a pending CONFIG
\* entry, release the lock ...
CheckConfig(s, th, val) ==
    /\ Idle(s, th)
    /\ ~PendingConfig(node[s])
    /\ prop' = [prop EXCEPT ![s][th] = [idx |-> 0, term |-> 0, val |-> val, todo |-> {}]]
    /\ UNCHANGED <<machine, round, apply, install, calls, view, ok, failed>>

\* ... asked by a client, or by drive_pending_add for a master gossip shows ...
ChangeConfig(s, p) ==
    /\ node[s].role = "leader" /\ node[s].config # {}
    /\ \/ p \notin node[s].config /\ CheckConfig(s, "client", AddOf(p))
       \/ p \in node[s].config /\ CheckConfig(s, "client", RemoveOf(p))
    /\ Spend("changes")
    /\ UNCHANGED node

DriveAdd(s, p) ==
    /\ TickIdle(s) /\ node[s].role = "leader" /\ node[s].config # {}
    /\ node[s].mayAdd
    /\ p \in view[s] \ (node[s].config \union node[s].removed \union {s})
    /\ CheckConfig(s, "tick", AddOf(p))
    /\ node' = [node EXCEPT ![s].mayAdd = FALSE]
    /\ UNCHANGED left

\* ... and propose.
ProposeConfig(s, th) ==
    /\ prop[s][th] # None /\ prop[s][th].idx = 0
    /\ \/ Submit(s, th, prop[s][th].val)
       \/ /\ node[s].role # "leader" \/ LastIndex(node[s].log) = left.index
          /\ prop' = [prop EXCEPT ![s][th] = None]
          /\ UNCHANGED <<node, machine, round, apply, install, calls, view, ok, failed>>
    /\ UNCHANGED left

\* The sweep is over and the proposer waits.
Waiting(s, th) ==
    /\ prop[s][th] # None /\ prop[s][th].idx > 0 /\ prop[s][th].todo = {}
    /\ \A c \in calls : ~(c.live /\ c.from = s /\ c.thread = th)

\* A plausible bug: the proposer never looks at the role and term again.
AwakeAlways(s, th) == TRUE

\* Losing the leadership does not wake a proposer; it looks at its node again
\* when an entry is applied or its time is up.
Awake(s, th) ==
    left.sleepy \/ (node[s].role = "leader" /\ node[s].term = prop[s][th].term)

Done(s, th) ==
    /\ prop' = [prop EXCEPT ![s][th] = None]
    /\ UNCHANGED <<machine, round, apply, install, calls, view>>

\* TSDB_OK or TSDB_ERR_PERMISSION end the tick thread's NOOP and SEED.
Settled(r, th, op) ==
    [r EXCEPT !.noop = @ /\ ~(th = "tick" /\ op = "noop"),
              !.seed = @ /\ ~(th = "tick" /\ op = "seed")]

ReturnOk(s, th) ==
    /\ Waiting(s, th) /\ Awake(s, th)
    /\ node[s].applied >= prop[s][th].idx
    /\ ok' = IF prop[s][th].val.op = "set" THEN ok \union {prop[s][th].val.arg} ELSE ok
    /\ node' = [node EXCEPT ![s] = Settled(@, th, prop[s][th].val.op)]
    /\ Done(s, th) /\ UNCHANGED <<failed, left>>

ReturnNotLeader(s, th) ==
    /\ Waiting(s, th)
    /\ IF left.sleepy THEN node[s].applied < prop[s][th].idx /\ node[s].role # "leader"
       ELSE ~Awake(s, th)
    /\ node' = [node EXCEPT ![s] = Settled(@, th, prop[s][th].val.op)]
    /\ Done(s, th) /\ UNCHANGED <<ok, failed, left>>

\* A plausible bug: requests in flight are not looked at.
UnreplicatedByMatch(s, i) ==
    LET r == node[s]
    IN  /\ r.commit < i /\ i = LastIndex(r.log)
        /\ \A p \in r.peers : r.match[p] < i

\* Case (a) of the timeout: "provably un-replicated".
Unreplicated(s, i) ==
    LET r == node[s]
    IN  /\ r.commit < i /\ i = LastIndex(r.log)
        /\ \A p \in r.peers : r.match[p] < i
        /\ \A c \in calls : ~(c.live /\ c.from = s /\ c.kind = "append" /\ c.ents # <<>>)

\* The wait times out: the entry is taken back, or its fate left open.
ReturnTimeout(s, th) ==
    /\ Waiting(s, th) /\ Awake(s, th)
    /\ node[s].applied < prop[s][th].idx /\ node[s].role = "leader"
    /\ Spend("timeouts")
    /\ IF Unreplicated(s, prop[s][th].idx)
       THEN /\ node' = [node EXCEPT ![s].log = TruncateFrom(@, prop[s][th].idx)]
            /\ failed' = IF prop[s][th].val.op = "set"
                         THEN failed \union {prop[s][th].val.arg} ELSE failed
       ELSE UNCHANGED <<node, failed>>
    /\ Done(s, th) /\ UNCHANGED ok

-----------------------------------------------------------------------------
(***************************************************************************)
(* The apply thread.                                                       *)
(***************************************************************************)

\* What a CONFIG entry does to the node that applies it.
Configured(r, s, v) ==
    CASE v.op = "seed" -> [r EXCEPT !.config = v.arg]
      [] v.op = "add" -> [r EXCEPT !.config = @ \union {v.arg}]
      [] v.op = "remove" ->
            [(IF v.arg = s /\ r.role = "leader" THEN Passive(r) ELSE r) EXCEPT
                !.config = @ \ {v.arg}, !.removed = @ \union {v.arg}]
      [] OTHER -> r

At(i, upto) == IF i > upto THEN None ELSE [idx |-> i, upto |-> upto, term |-> 0]
Loop(s) == IF apply[s] = None THEN At(node[s].applied + 1, node[s].commit) ELSE apply[s]
Applied(s, i, e) ==
    [machine EXCEPT ![s] = [j \in DOMAIN @ \union {i} |-> IF j = i THEN e ELSE @[j]]]

\* A plausible bug: last_applied moves to the commit index at once.
FinishedUpTo(r, s, a) == [r EXCEPT !.applied = a.upto]

\* last_applied moves to the entry, and the log is compacted up to it.  With
\* a stride of 256 no request is still on its way that starts before the
\* boundary, which a small stride has to ask for.
Overtaken(s, i) ==
    \E c \in calls : c.kind = "append" /\ c.to = s /\ c.reply = None /\ c.prev < i

Finished(r, s, a) ==
    [r EXCEPT !.applied = a.idx,
              !.log = IF a.idx >= @.snap + left.stride /\ ~Overtaken(s, a.idx)
                      THEN CompactTo(@, a.idx, a.term) ELSE @]

\* One entry is read, without r->lock, and applied; then last_applied follows.
ApplyEntry(s) ==
    LET r == node[s]
        a == Loop(s)
        e == EntryAt(r.log, a.idx)
    IN  /\ a # None /\ a.term = 0 /\ Holds(r.log, a.idx)
        /\ machine' = Applied(s, a.idx, e)
        /\ node' = [node EXCEPT ![s] =
              Finished(Configured(r, s, e.val), s, [a EXCEPT !.term = e.term])]
        /\ apply' = [apply EXCEPT ![s] = At(a.idx + 1, a.upto)]
        /\ UNCHANGED <<round, prop, install, calls, view, ok, failed, left>>

\* The same in two steps, with a snapshot on its way.
ApplyBegin(s) ==
    LET r == node[s]
        a == Loop(s)
        e == EntryAt(r.log, a.idx)
    IN  /\ a # None /\ a.term = 0 /\ Holds(r.log, a.idx)
        /\ \E c \in calls : c.kind = "snap" /\ c.to = s
        /\ machine' = Applied(s, a.idx, e)
        /\ node' = [node EXCEPT ![s] = Configured(r, s, e.val)]
        /\ apply' = [apply EXCEPT ![s] = [a EXCEPT !.term = e.term]]
        /\ UNCHANGED <<round, prop, install, calls, view, ok, failed, left>>

ApplyEnd(s) ==
    LET a == apply[s]
    IN  /\ a # None /\ a.term > 0
        /\ node' = [node EXCEPT ![s] = Finished(@, s, a)]
        /\ apply' = [apply EXCEPT ![s] = At(a.idx + 1, a.upto)]
        /\ UNCHANGED <<machine, round, prop, install, calls, view, ok, failed, left>>

\* An entry a snapshot took over meanwhile is skipped; one that cannot be
\* read ends the loop.
ApplySkips(s) ==
    LET r == node[s]
        a == apply[s]
    IN  /\ a # None /\ a.term = 0 /\ ~Holds(r.log, a.idx)
        /\ IF a.idx <= r.log.snap
           THEN /\ node' = [node EXCEPT ![s].applied = Larger(@, r.log.snap)]
                /\ apply' = [apply EXCEPT ![s] = At(r.log.snap + 1, a.upto)]
           ELSE /\ apply' = [apply EXCEPT ![s] = None]
                /\ UNCHANGED node
        /\ UNCHANGED <<machine, round, prop, install, calls, view, ok, failed, left>>

\* tsdb_raft_open after a crash.
Reopened(r) ==
    [Passive(r) EXCEPT !.commit = r.log.snap, !.applied = r.log.snap,
                       !.noop = FALSE, !.seed = FALSE, !.removed = {}]

Restart(s) ==
    /\ Spend("restarts")
    /\ node' = [node EXCEPT ![s] = Reopened(@)]
    /\ round' = [round EXCEPT ![s] = None]
    /\ prop' = [prop EXCEPT ![s] = [th \in Thread |-> None]]
    /\ apply' = [apply EXCEPT ![s] = None]
    /\ install' = [install EXCEPT ![s] = None]
    /\ calls' = {c \in calls : ~c.live \/ c.from # s}
                \union {[c EXCEPT !.live = FALSE] : c \in
                            {d \in calls : left.late /\ d.live /\ d.from = s
                                           /\ d.reply = None}}
    /\ UNCHANGED <<machine, view, ok, failed>>

Next ==
    \/ \E s \in Server :
          \/ RebuildPeers(s) \/ Discover(s)
          \/ PreVote(s) \/ StartElection(s) \/ EndElection(s)
          \/ CheckQuorum(s)
          \/ Propose(s) \/ ProposeNoop(s) \/ ProposeSeed(s)
          \/ ApplyEntry(s) \/ ApplyBegin(s) \/ ApplyEnd(s) \/ ApplySkips(s)
          \/ FinishSnapshot(s) \/ Restart(s)
    \/ \E s, p \in Server :
          \/ RequestVote(s, p) \/ RequestVoteTimesOut(s, p)
          \/ ChangeConfig(s, p) \/ DriveAdd(s, p)
    \/ \E s \in Server, th \in Thread :
          \/ SweepSkips(s, th) \/ ProposeConfig(s, th)
          \/ ReturnOk(s, th) \/ ReturnNotLeader(s, th) \/ ReturnTimeout(s, th)
    \/ \E s, p \in Server, th \in Thread :
          SendAppend(s, th, p) \/ SendSnapshot(s, th, p)
    \/ \E c \in calls :
          \/ LateVote(c) \/ HandleAppend(c) \/ MergeAppend(c) \/ CallTimesOut(c)
          \/ HandleSnapshot(c) \/ MergeSnapshot(c)

Spec == Init /\ [][Next]_vars

-----------------------------------------------------------------------------
(***************************************************************************)
(* Raft's guarantees, for this implementation.                             *)
(***************************************************************************)
Roles == {"follower", "candidate", "leader"}
TypeOK ==
    /\ \A s \in Server :
          /\ node[s].role \in Roles /\ node[s].vote \in Server \union {None}
          /\ {node[s].term, node[s].commit, node[s].applied} \subseteq Nat
          /\ node[s].peers \subseteq Server \ {s}
          /\ node[s].match \in [Server -> 0..MaxIndex]
          /\ node[s].next \in [Server -> 1..(MaxIndex + 1)]
    /\ ok \union failed \subseteq Range(Value)

\* Two leaders never share a term, whatever restarts, lost answers and
\* step-downs in the middle of a round the election goes through.
ElectionSafety ==
    \A s, t \in Server :
        node[s].role = "leader" /\ node[t].role = "leader"
            /\ node[s].term = node[t].term => s = t

\* An index and a term name one entry: a follower that skips an entry because
\* index and term agree (on_append_entries) has the leader's entry.
LogMatching ==
    \A s, t \in Server :
        \A i \in 1..MaxIndex :
            Holds(node[s].log, i) /\ Holds(node[t].log, i)
                /\ TermAt(node[s].log, i) = TermAt(node[t].log, i) =>
            \A j \in 1..i :
                Holds(node[s].log, j) /\ Holds(node[t].log, j) =>
                    EntryAt(node[s].log, j) = EntryAt(node[t].log, j)

\* No two nodes apply different entries at an index, also when an entry is
\* applied again after a restart or arrives inside a snapshot.
StateMachineSafety ==
    \A s, t \in Server :
        \A i \in DOMAIN machine[s] \intersect DOMAIN machine[t] :
            machine[s][i] = machine[t][i]

\* A node that applied up to an index has the effect of every entry before.
NothingSkipped ==
    \A s \in Server : 1..node[s].applied \subseteq DOMAIN machine[s]

\* The leader of the newest term has every entry that any node applied.
LeaderCompleteness ==
    \A l \in Server :
        node[l].role = "leader" /\ (\A s \in Server : node[s].term <= node[l].term) =>
            \A s \in Server : \A i \in DOMAIN machine[s] :
                \/ i <= node[l].log.snap
                \/ Holds(node[l].log, i) /\ EntryAt(node[l].log, i) = machine[s][i]

\* tsdb_raft_propose "returns TSDB_OK once the entry is committed AND
\* applied" (raft.h): the value is in the state machine of some node.
OkMeansApplied ==
    \A v \in ok : \E s \in Server : \E i \in DOMAIN machine[s] : machine[s][i].val = Set(v)

\* TSDB_ERR_IO after a timeout is "definitive: write did NOT apply": the
\* value is not applied then or later.
FailedNeverApplied ==
    \A v \in failed : \A s \in Server : \A i \in DOMAIN machine[s] :
        machine[s][i].val # Set(v)
=============================================================================
