--------------------------- MODULE RaftApplyProofs ---------------------------
(***************************************************************************)
(* A node has the effect of every entry up to last_applied (src/raft/      *)
(* raft.c), for every number of servers and every bound, membership        *)
(* changes included.                                                       *)
(*                                                                         *)
(* last_applied is moved by the apply loop, by a snapshot that is restored *)
(* and by a restart, which goes back to the snapshot marker.  The          *)
(* invariant says what each of them relies on: the state machine covers    *)
(* the marker too, a snapshot on its way covers its own index, and the     *)
(* loop is never more than one entry ahead.                                *)
(***************************************************************************)
EXTENDS Raft, TLAPS

\* The fields of a node and of its log.
Fields ==
    {"role", "term", "vote", "log", "commit", "applied", "config", "removed",
     "joiner", "peers", "next", "match", "noop", "seed", "mayAdd"}
LogFields == {"base", "ents", "snap", "snapTerm"}

Solid(r) == DOMAIN r = Fields /\ DOMAIN r.log = LogFields

\* A snapshot request carries the effect of every entry up to its index.
Body(c) == c.idx \in Nat /\ 1..c.idx \subseteq DOMAIN c.body

CallBody(c) ==
    /\ {"kind", "from", "to"} \subseteq DOMAIN c
    /\ c.from \in Server /\ c.to \in Server
    /\ c.kind = "snap" => {"idx", "body"} \subseteq DOMAIN c /\ Body(c)

\* The state machine of s covers last_applied and the snapshot marker; the
\* apply loop is at most one entry ahead of last_applied, and the entry it
\* has applied already is in the state machine; a snapshot being restored is
\* ahead of the marker.
Covers(r, m, a, c) ==
    /\ Solid(r) /\ r.applied \in Nat /\ r.log.snap \in Nat
    /\ 1..r.applied \subseteq DOMAIN m /\ 1..r.log.snap \subseteq DOMAIN m
    /\ a # None =>
          /\ DOMAIN a = {"idx", "upto", "term"}
          /\ a.idx \in Nat \ {0} /\ a.idx <= r.applied + 1
          /\ a.term > 0 => a.idx \in DOMAIN m
    /\ c # None => CallBody(c) /\ c.kind = "snap" /\ r.log.snap < c.idx

SkipInv ==
    /\ DOMAIN node = Server /\ DOMAIN machine = Server
    /\ DOMAIN apply = Server /\ DOMAIN install = Server
    /\ \A s \in Server : Covers(node[s], machine[s], apply[s], install[s])
    /\ \A c \in calls : CallBody(c)

\* No apply thread passes the snapshot that is being restored.
NotPassed ==
    \A s \in Server : install[s] # None => node[s].applied < install[s].idx

\* What most steps leave alone in a node.
KeepsSnap(l, k) == DOMAIN k = DOMAIN l /\ k.snap = l.snap
KeepsApplied(r, r2) ==
    DOMAIN r2 = DOMAIN r /\ r2.applied = r.applied /\ KeepsSnap(r.log, r2.log)

LEMMA SolidKeeps ==
    ASSUME NEW r, NEW f, NEW g, Solid(r), KeepsApplied(r, f), KeepsApplied(f, g)
    PROVE  KeepsApplied(r, r) /\ Solid(f) /\ KeepsApplied(r, g)
BY DEF Solid, KeepsApplied, KeepsSnap

\* The log's operations except compaction leave the marker alone.
LEMMA LogKeepsSnap ==
    ASSUME NEW l, DOMAIN l = LogFields
    PROVE  /\ \A e : KeepsSnap(l, AppendTo(l, e))
           /\ \A i : KeepsSnap(l, TruncateFrom(l, i))
           /\ \A ents : KeepsSnap(l, Stored(l, ents))
<1>1. ASSUME NEW e PROVE KeepsSnap(l, AppendTo(l, e))
    BY DEF LogFields, KeepsSnap, AppendTo
<1>2. ASSUME NEW i PROVE KeepsSnap(l, TruncateFrom(l, i))
    BY DEF LogFields, KeepsSnap, TruncateFrom
<1>3. ASSUME NEW ents PROVE KeepsSnap(l, Stored(l, ents))
    <2>1. PICK b, es : Stored(l, ents) = [l EXCEPT !.base = b, !.ents = es]
        BY DEF Stored
    <2> QED
        BY <2>1 DEF LogFields, KeepsSnap
<1> QED
    BY <1>1, <1>2, <1>3

\* The handlers that change neither last_applied nor the marker.
LEMMA RoleKeepsApplied ==
    ASSUME NEW r, Solid(r)
    PROVE  /\ KeepsApplied(r, Passive(r))
           /\ \A t : KeepsApplied(r, Follower(r, t))
           /\ \A t : KeepsApplied(r, HeardFrom(r, t))
           /\ \A s, q : KeepsApplied(r, Voter(r, s, q).node)
           /\ KeepsApplied(r, Leader(r))
           /\ \A wanted : KeepsApplied(r, Rebuilt(r, wanted))
           /\ KeepsApplied(r, Advanced(r))
<1>1. KeepsApplied(r, Passive(r)) /\ KeepsApplied(r, r)
    BY DEF Solid, KeepsApplied, KeepsSnap, Fields, Passive
<1>2. ASSUME NEW t PROVE KeepsApplied(r, Follower(r, t))
    <2> DEFINE g == Passive(r)
    <2>1. DOMAIN g = Fields
        BY <1>1 DEF KeepsApplied, Solid
    <2>2. \E a, b, c : Follower(r, t) = [g EXCEPT !.seed = a, !.term = b, !.vote = c]
        BY DEF Follower
    <2> HIDE DEF g
    <2>3. KeepsApplied(g, Follower(r, t))
        BY <2>1, <2>2 DEF KeepsApplied, KeepsSnap, Fields
    <2> QED
        BY <1>1, <2>3, SolidKeeps DEF g
<1>3. ASSUME NEW t PROVE KeepsApplied(r, HeardFrom(r, t))
    BY <1>1, <1>2 DEF HeardFrom
<1>4. ASSUME NEW s, NEW q PROVE KeepsApplied(r, Voter(r, s, q).node)
    <2>1. PICK up : /\ up = (IF q.term > r.term THEN Follower(r, q.term) ELSE r)
                    /\ Voter(r, s, q).node \in {up, [up EXCEPT !.vote = s]}
        BY DEF Voter
    <2>2. KeepsApplied(r, up)
        BY <1>1, <1>2, <2>1
    <2>3. DOMAIN up = Fields
        BY <2>2 DEF KeepsApplied, Solid
    <2>4. KeepsApplied(up, [up EXCEPT !.vote = s])
        BY <2>3 DEF KeepsApplied, KeepsSnap, Fields
    <2> QED
        BY <2>1, <2>2, <2>4, SolidKeeps
<1>5. KeepsApplied(r, Leader(r))
    BY DEF Solid, KeepsApplied, KeepsSnap, Fields, Leader
<1>6. ASSUME NEW wanted PROVE KeepsApplied(r, Rebuilt(r, wanted))
    BY DEF Solid, KeepsApplied, KeepsSnap, Fields, Rebuilt
<1>7. KeepsApplied(r, Advanced(r))
    <2>1. Advanced(r) = r \/ \E i : Advanced(r) = [r EXCEPT !.commit = i]
        BY DEF Advanced
    <2>2. ASSUME NEW i PROVE KeepsApplied(r, [r EXCEPT !.commit = i])
        BY DEF Solid, KeepsApplied, KeepsSnap, Fields
    <2> QED
        BY <1>1, <2>1, <2>2
<1> QED
    BY <1>1, <1>2, <1>3, <1>4, <1>5, <1>6, <1>7

LEMMA AppendedKeepsApplied ==
    ASSUME NEW r, Solid(r), NEW c
    PROVE  KeepsApplied(r, Appended(r, c).node)
<1> DEFINE f == HeardFrom(r, c.term)
<1>1. KeepsApplied(r, r) /\ KeepsApplied(r, f) /\ Solid(f) /\ DOMAIN f = Fields
    BY RoleKeepsApplied, SolidKeeps DEF Solid, KeepsApplied, KeepsSnap
<1>2. \/ Appended(r, c).node = r
      \/ \E k : /\ Appended(r, c).node = [f EXCEPT !.log = k]
                /\ KeepsSnap(r.log, k)
      \/ \E k, m : /\ Appended(r, c).node = [f EXCEPT !.log = k, !.commit = m]
                   /\ KeepsSnap(r.log, k)
    <2> DEFINE l == Stored(r.log, c.ents)
    <2>1. /\ KeepsSnap(r.log, r.log) /\ KeepsSnap(r.log, TruncateFrom(r.log, c.prev))
          /\ KeepsSnap(r.log, l)
        BY LogKeepsSnap DEF Solid, KeepsSnap
    <2> HIDE DEF l, f
    <2>2. \/ Appended(r, c).node = r
          \/ Appended(r, c).node = [f EXCEPT !.log = r.log]
          \/ Appended(r, c).node = [f EXCEPT !.log = TruncateFrom(r.log, c.prev)]
          \/ \E m : Appended(r, c).node = [f EXCEPT !.log = l, !.commit = m]
        <3>1. CASE c.term < r.term
            BY <3>1 DEF Appended
        <3>2. CASE ~(c.term < r.term) /\ c.prev > LastIndex(r.log)
            BY <3>2 DEF Appended, f
        <3>3. CASE /\ ~(c.term < r.term) /\ ~(c.prev > LastIndex(r.log))
                   /\ c.prev > 0 /\ TermAt(r.log, c.prev) # c.prevTerm
            BY <3>3 DEF Appended, f
        <3>4. CASE /\ ~(c.term < r.term) /\ ~(c.prev > LastIndex(r.log))
                   /\ ~(c.prev > 0 /\ TermAt(r.log, c.prev) # c.prevTerm)
            <4>1. Appended(r, c).node =
                    [f EXCEPT !.log = l,
                              !.commit = Larger(f.commit, Smaller(c.commit, LastIndex(l)))]
                BY <3>4 DEF Appended, f, l
            <4> QED
                BY <4>1
        <3> QED
            BY <3>1, <3>2, <3>3, <3>4, Zenon
    <2> QED
        BY <2>1, <2>2, Zenon
<1> HIDE DEF f
<1>3. ASSUME NEW k, KeepsSnap(r.log, k)
      PROVE  KeepsApplied(r, [f EXCEPT !.log = k])
    BY <1>1, <1>3 DEF KeepsApplied, Fields
<1>4. ASSUME NEW k, NEW m, KeepsSnap(r.log, k)
      PROVE  KeepsApplied(r, [f EXCEPT !.log = k, !.commit = m])
    BY <1>1, <1>4 DEF KeepsApplied, Fields
<1>5. CASE \E k : /\ Appended(r, c).node = [f EXCEPT !.log = k]
                   /\ KeepsSnap(r.log, k)
    BY <1>3, <1>5
<1>6. CASE \E k, m : /\ Appended(r, c).node = [f EXCEPT !.log = k, !.commit = m]
                      /\ KeepsSnap(r.log, k)
    <2>1. PICK k, m : /\ Appended(r, c).node = [f EXCEPT !.log = k, !.commit = m]
                      /\ KeepsSnap(r.log, k)
        BY <1>6, Zenon
    <2>2. KeepsApplied(r, [f EXCEPT !.log = k, !.commit = m])
        BY <1>4, <2>1
    <2> QED
        BY <2>1, <2>2
<1> QED
    BY <1>1, <1>2, <1>5, <1>6, Zenon

LEMMA MergedKeepsApplied ==
    ASSUME NEW r, Solid(r), NEW c
    PROVE  KeepsApplied(r, Merged(r, c)) /\ KeepsApplied(r, SnapshotMerged(r, c))
<1>1. \A a, b : /\ KeepsApplied(r, [r EXCEPT !.match = a, !.next = b])
                /\ KeepsApplied(r, [r EXCEPT !.next = a, !.match = b])
                /\ KeepsApplied(r, [r EXCEPT !.next = a])
    BY DEF Solid, KeepsApplied, KeepsSnap, Fields
<1>2. KeepsApplied(r, r) /\ KeepsApplied(r, Follower(r, c.reply.term))
    BY RoleKeepsApplied DEF KeepsApplied, KeepsSnap
<1> DEFINE n == c.prev + Len(c.ents)
           g == [r EXCEPT !.match[c.to] = Larger(@, n), !.next[c.to] = n + 1]
           hint == c.reply.match + 1
           h == [r EXCEPT !.next[c.to] = IF hint < @ THEN hint
                                         ELSE IF @ > 1 THEN @ - 1 ELSE @]
           k == [r EXCEPT !.next[c.to] = c.idx + 1, !.match[c.to] = Larger(@, c.idx)]
<1>3. KeepsApplied(r, g) /\ KeepsApplied(r, h) /\ KeepsApplied(r, k)
    BY DEF Solid, KeepsApplied, KeepsSnap, Fields
<1> HIDE DEF g, h, k
<1>4. KeepsApplied(r, Advanced(g))
    <2>1. Solid(g)
        BY <1>3 DEF Solid, KeepsApplied, KeepsSnap
    <2> QED
        BY <1>3, <2>1, RoleKeepsApplied, SolidKeeps
<1>5. Merged(r, c) \in {Follower(r, c.reply.term), r, Advanced(g), h}
    BY DEF Merged, g, h
<1>6. SnapshotMerged(r, c) \in {Follower(r, c.reply.term), r, k}
    BY DEF SnapshotMerged, SteppedDown, k
<1> QED
    BY <1>2, <1>3, <1>4, <1>5, <1>6

LEMMA ConfiguredKeepsApplied ==
    ASSUME NEW r, Solid(r), NEW s, NEW v
    PROVE  KeepsApplied(r, Configured(r, s, v))
<1> DEFINE f == IF v.arg = s /\ r.role = "leader" THEN Passive(r) ELSE r
           a == [r EXCEPT !.config = v.arg]
           b == [r EXCEPT !.config = @ \union {v.arg}]
           c == [f EXCEPT !.config = @ \ {v.arg}, !.removed = @ \union {v.arg}]
<1>1. KeepsApplied(r, r) /\ KeepsApplied(r, f)
    BY RoleKeepsApplied DEF KeepsApplied, KeepsSnap
<1>2. KeepsApplied(r, a) /\ KeepsApplied(r, b)
    BY DEF Solid, KeepsApplied, KeepsSnap, Fields
<1>3. KeepsApplied(f, c)
    <2> HIDE DEF f
    <2> QED
        BY <1>1 DEF Solid, KeepsApplied, KeepsSnap, Fields
<1>4. KeepsApplied(r, c)
    <2> HIDE DEF f, c
    <2> QED
        BY <1>1, <1>3, SolidKeeps
<1>5. Configured(r, s, v) \in {a, b, c, r}
    BY DEF Configured
<1> QED
    BY <1>1, <1>2, <1>4, <1>5

LEMMA CoversKept ==
    ASSUME NEW r, NEW f, NEW m, NEW a, NEW c, Covers(r, m, a, c), KeepsApplied(r, f)
    PROVE  Covers(f, m, a, c)
<1>1. /\ DOMAIN f = DOMAIN r /\ DOMAIN f.log = DOMAIN r.log
      /\ f.applied = r.applied /\ f.log.snap = r.log.snap
    BY DEF KeepsApplied, KeepsSnap
<1> QED
    BY <1>1 DEF Covers, Solid

\* A step in which every node keeps both, and no state machine changes.
LEMMA KeepStep ==
    ASSUME SkipInv, DOMAIN node' = Server,
           \A x \in Server : KeepsApplied(node[x], node'[x]),
           UNCHANGED <<machine, apply, install>>,
           \A c \in calls' : CallBody(c)
    PROVE  SkipInv'
<1>1. ASSUME NEW x \in Server PROVE Covers(node[x], machine[x], apply[x], install[x])'
    BY <1>1, CoversKept DEF SkipInv
<1> QED
    BY <1>1 DEF SkipInv

LEMMA OneKeeps ==
    ASSUME SkipInv, NEW s \in Server, NEW r, node' = [node EXCEPT ![s] = r],
           KeepsApplied(node[s], r), UNCHANGED <<machine, apply, install>>,
           \A c \in calls' : CallBody(c)
    PROVE  SkipInv'
<1>1. \A x \in Server : KeepsApplied(node[x], node'[x])
    BY DEF SkipInv, KeepsApplied, KeepsSnap
<1> QED
    BY <1>1, KeepStep DEF SkipInv

LEMMA NoneMoves ==
    ASSUME SkipInv, UNCHANGED <<node, machine, apply, install>>,
           \A c \in calls' : CallBody(c)
    PROVE  SkipInv'
<1>1. \A x \in Server : KeepsApplied(node[x], node'[x])
    BY DEF KeepsApplied, KeepsSnap
<1> QED
    BY <1>1, KeepStep DEF SkipInv

LEMMA AnswerBody ==
    ASSUME SkipInv, NEW c, NEW reply
    PROVE  /\ c \in calls => \A d \in Answer(c, reply) : CallBody(d)
           /\ CallBody(c) => CallBody([c EXCEPT !.live = FALSE])
<1>1. ASSUME CallBody(c) PROVE CallBody([c EXCEPT !.reply = reply])
    BY <1>1 DEF CallBody, Body
<1>2. ASSUME CallBody(c) PROVE CallBody([c EXCEPT !.live = FALSE])
    BY <1>2 DEF CallBody, Body
<1>3. ASSUME c \in calls PROVE \A d \in Answer(c, reply) : CallBody(d)
    BY <1>1, <1>3 DEF Answer, SkipInv
<1> QED
    BY <1>2, <1>3

LEMMA ElectionSkip ==
    ASSUME SkipInv, NEW s \in Server, NEW p \in Server,
           \/ RebuildPeers(s) \/ Discover(s) \/ PreVote(s) \/ StartElection(s)
           \/ EndElection(s) \/ CheckQuorum(s)
           \/ RequestVote(s, p) \/ RequestVoteTimesOut(s, p)
    PROVE  SkipInv'
<1>0. /\ Solid(node[s]) /\ Solid(node[p]) /\ \A c \in calls : CallBody(c)
    BY DEF SkipInv, Covers, Solid
<1>1. UNCHANGED <<machine, apply, install>>
    BY DEF RebuildPeers, Discover, PreVote, StartElection, EndElection, CheckQuorum,
           RequestVote, RequestVoteTimesOut
<1>2. CASE RebuildPeers(s)
    BY <1>0, <1>1, <1>2, RoleKeepsApplied, OneKeeps DEF RebuildPeers
<1>3. CASE Discover(s) \/ StartElection(s)
    BY <1>0, <1>1, <1>3, NoneMoves DEF Discover, StartElection
<1>4. CASE PreVote(s)
    <2> DEFINE r == Rebuilt(node[s], WantedPeers(s))
               r2 == [r EXCEPT !.term = @ + 1, !.vote = s, !.role = "candidate"]
    <2>1. KeepsApplied(node[s], r)
        BY <1>0, RoleKeepsApplied
    <2>2. node' = [node EXCEPT ![s] = r2] /\ UNCHANGED calls
        BY <1>4 DEF PreVote
    <2> HIDE DEF r
    <2>3. DOMAIN r = Fields
        BY <1>0, <2>1 DEF KeepsApplied, Solid
    <2>4. KeepsApplied(r, r2)
        BY <2>3 DEF KeepsApplied, KeepsSnap, Fields
    <2> HIDE DEF r2
    <2>5. KeepsApplied(node[s], r2)
        BY <1>0, <2>1, <2>4, SolidKeeps
    <2> QED
        BY <1>0, <1>1, <2>2, <2>5, OneKeeps
<1>5. CASE EndElection(s)
    <2>1. CASE UNCHANGED node
        BY <1>0, <1>1, <1>5, <2>1, NoneMoves DEF EndElection
    <2>2. CASE node' = [node EXCEPT ![s] = Leader(node[s])]
        BY <1>0, <1>1, <1>5, <2>2, RoleKeepsApplied, OneKeeps DEF EndElection
    <2> QED
        BY <1>5, <2>1, <2>2 DEF EndElection
<1>6. CASE CheckQuorum(s)
    <2>1. node' = [node EXCEPT ![s] = Follower(node[s], node[s].term)] /\ UNCHANGED calls
        BY <1>6 DEF CheckQuorum
    <2> QED
        BY <1>0, <1>1, <2>1, RoleKeepsApplied, OneKeeps
<1>7. CASE RequestVote(s, p)
    <2>1. PICK v, t : /\ v = Voter(node[p], s, round[s]).node
                      /\ node' = [node EXCEPT ![p] = v, ![s] = SteppedDown(node[s], t)]
                      /\ UNCHANGED calls
        BY <1>7 DEF RequestVote
    <2>2. KeepsApplied(node[p], v) /\ KeepsApplied(node[s], SteppedDown(node[s], t))
        BY <1>0, <2>1, RoleKeepsApplied DEF SteppedDown, KeepsApplied, KeepsSnap
    <2>3. /\ DOMAIN node' = Server
          /\ \A x \in Server : \/ node'[x] = node[x]
                               \/ x = p /\ node'[x] = v
                               \/ x = s /\ node'[x] = SteppedDown(node[s], t)
        BY <2>1 DEF SkipInv
    <2>4. \A x \in Server : KeepsApplied(node[x], node'[x])
        BY <2>2, <2>3 DEF KeepsApplied, KeepsSnap
    <2> QED
        BY <1>0, <1>1, <2>1, <2>3, <2>4, KeepStep
<1>8. CASE RequestVoteTimesOut(s, p)
    <2>1. PICK q : calls' \subseteq calls \union
             {[kind |-> "vote", from |-> s, to |-> p, live |-> FALSE, q |-> q]}
        BY <1>8 DEF RequestVoteTimesOut
    <2>2. CallBody([kind |-> "vote", from |-> s, to |-> p, live |-> FALSE, q |-> q])
        BY DEF CallBody
    <2> QED
        BY <1>0, <1>1, <1>8, <2>1, <2>2, NoneMoves DEF RequestVoteTimesOut
<1> QED
    BY <1>2, <1>3, <1>4, <1>5, <1>6, <1>7, <1>8, Zenon

LEMMA SubmitSkip ==
    ASSUME SkipInv, NEW s \in Server, NEW th, NEW val, Submit(s, th, val)
    PROVE  SkipInv'
<1> DEFINE l == AppendTo(node[s].log, [term |-> node[s].term, val |-> val])
           r == [node[s] EXCEPT !.log = l]
<1>0. Solid(node[s]) /\ \A c \in calls : CallBody(c)
    BY DEF SkipInv, Covers, Solid
<1>1. KeepsSnap(node[s].log, l)
    BY <1>0, LogKeepsSnap DEF Solid
<1>2. node' = [node EXCEPT ![s] = Advanced(r)] /\ UNCHANGED <<machine, apply, install, calls>>
    BY DEF Submit
<1> HIDE DEF l
<1>3. KeepsApplied(node[s], r)
    BY <1>0, <1>1 DEF KeepsApplied, Solid, Fields
<1> HIDE DEF r
<1>4. Solid(r)
    BY <1>0, <1>3 DEF Solid, KeepsApplied, KeepsSnap
<1>5. KeepsApplied(node[s], Advanced(r))
    BY <1>0, <1>3, <1>4, RoleKeepsApplied, SolidKeeps
<1> QED
    BY <1>0, <1>2, <1>5, OneKeeps

LEMMA ClientSkip ==
    ASSUME SkipInv, NEW s \in Server, NEW p \in Server, NEW th \in Thread,
           \/ Propose(s) \/ ProposeNoop(s) \/ ProposeSeed(s)
           \/ ChangeConfig(s, p) \/ DriveAdd(s, p)
           \/ SweepSkips(s, th) \/ ProposeConfig(s, th)
           \/ ReturnOk(s, th) \/ ReturnNotLeader(s, th) \/ ReturnTimeout(s, th)
    PROVE  SkipInv'
<1>0. Solid(node[s]) /\ \A c \in calls : CallBody(c)
    BY DEF SkipInv, Covers, Solid
<1>1. CASE Propose(s) \/ ProposeNoop(s) \/ ProposeSeed(s)
    BY <1>1, SubmitSkip DEF Propose, ProposeNoop, ProposeSeed
<1>2. CASE ChangeConfig(s, p)
    BY <1>0, <1>2, NoneMoves DEF ChangeConfig, CheckConfig
<1>3. CASE DriveAdd(s, p)
    <2>1. /\ node' = [node EXCEPT ![s] = [node[s] EXCEPT !.mayAdd = FALSE]]
          /\ UNCHANGED <<machine, apply, install, calls>>
        BY <1>3 DEF DriveAdd, CheckConfig
    <2>2. KeepsApplied(node[s], [node[s] EXCEPT !.mayAdd = FALSE])
        BY <1>0 DEF KeepsApplied, KeepsSnap, Solid, Fields
    <2> QED
        BY <1>0, <2>1, <2>2, OneKeeps
<1>4. CASE SweepSkips(s, th)
    BY <1>0, <1>4, NoneMoves DEF SweepSkips
<1>5. CASE ProposeConfig(s, th)
    <2>1. CASE Submit(s, th, prop[s][th].val)
        BY <2>1, SubmitSkip
    <2>2. CASE UNCHANGED <<node, machine, apply, install, calls>>
        BY <1>0, <2>2, NoneMoves
    <2> QED
        BY <1>5, <2>1, <2>2 DEF ProposeConfig
<1>6. CASE ReturnOk(s, th) \/ ReturnNotLeader(s, th)
    <2> DEFINE r == Settled(node[s], th, prop[s][th].val.op)
    <2>1. node' = [node EXCEPT ![s] = r] /\ UNCHANGED <<machine, apply, install, calls>>
        BY <1>6 DEF ReturnOk, ReturnNotLeader, Done
    <2>2. KeepsApplied(node[s], r)
        BY <1>0 DEF KeepsApplied, KeepsSnap, Solid, Fields, Settled
    <2> HIDE DEF r
    <2> QED
        BY <1>0, <2>1, <2>2, OneKeeps
<1>7. CASE ReturnTimeout(s, th)
    <2>1. UNCHANGED <<machine, apply, install, calls>>
        BY <1>7 DEF ReturnTimeout, Done
    <2>2. CASE UNCHANGED node
        BY <1>0, <2>1, <2>2, NoneMoves
    <2>3. CASE node' = [node EXCEPT ![s].log = TruncateFrom(@, prop[s][th].idx)]
        <3> DEFINE l == TruncateFrom(node[s].log, prop[s][th].idx)
                   r == [node[s] EXCEPT !.log = l]
        <3>1. node' = [node EXCEPT ![s] = r]
            BY <2>3
        <3>2. KeepsSnap(node[s].log, l)
            BY <1>0, LogKeepsSnap DEF Solid
        <3> HIDE DEF l
        <3>3. KeepsApplied(node[s], r)
            BY <1>0, <3>2 DEF KeepsApplied, Solid, Fields
        <3> HIDE DEF r
        <3> QED
            BY <1>0, <2>1, <3>1, <3>3, OneKeeps
    <2> QED
        BY <1>7, <2>2, <2>3 DEF ReturnTimeout
<1> QED
    BY <1>1, <1>2, <1>3, <1>4, <1>5, <1>6, <1>7, Zenon

\* A snapshot request is written from a state machine that covers its index.
LEMMA SendSkip ==
    ASSUME SkipInv, NEW s \in Server, NEW p \in Server, NEW th \in Thread,
           SendAppend(s, th, p) \/ SendSnapshot(s, th, p)
    PROVE  SkipInv'
<1>0. \A c \in calls : CallBody(c)
    BY DEF SkipInv
<1>1. UNCHANGED <<node, machine, apply, install>>
    BY DEF SendAppend, SendSnapshot
<1>2. CASE SendAppend(s, th, p)
    <2>1. PICK term, prev, prevTerm, ents, commit :
            calls' = calls \union
              {[kind |-> "append", from |-> s, thread |-> th, to |-> p, live |-> TRUE,
                term |-> term, prev |-> prev, prevTerm |-> prevTerm,
                ents |-> ents, commit |-> commit, reply |-> None]}
        BY <1>2 DEF SendAppend
    <2>2. CallBody([kind |-> "append", from |-> s, thread |-> th, to |-> p, live |-> TRUE,
                term |-> term, prev |-> prev, prevTerm |-> prevTerm,
                ents |-> ents, commit |-> commit, reply |-> None])
        BY DEF CallBody
    <2> QED
        BY <1>0, <1>1, <2>1, <2>2, NoneMoves
<1>3. CASE SendSnapshot(s, th, p)
    <2>1. PICK term, idx, idxTerm, body :
            /\ idx = node[s].log.snap /\ body = machine[s]
            /\ calls' = calls \union
                 {[kind |-> "snap", from |-> s, thread |-> th, to |-> p, live |-> TRUE,
                   term |-> term, idx |-> idx, idxTerm |-> idxTerm,
                   body |-> body, reply |-> None]}
        BY <1>3 DEF SendSnapshot
    <2>2. idx \in Nat /\ 1..idx \subseteq DOMAIN body
        BY <2>1 DEF SkipInv, Covers
    <2>3. CallBody([kind |-> "snap", from |-> s, thread |-> th, to |-> p, live |-> TRUE,
                   term |-> term, idx |-> idx, idxTerm |-> idxTerm,
                   body |-> body, reply |-> None])
        BY <2>2 DEF CallBody, Body
    <2> QED
        BY <1>0, <1>1, <2>1, <2>3, NoneMoves
<1> QED
    BY <1>2, <1>3

LEMMA CallSkip ==
    ASSUME SkipInv, NEW c \in calls,
           LateVote(c) \/ HandleAppend(c) \/ MergeAppend(c) \/ CallTimesOut(c) \/ MergeSnapshot(c)
    PROVE  SkipInv'
<1>0. /\ CallBody(c) /\ \A d \in calls : CallBody(d)
      /\ c.from \in Server /\ c.to \in Server
      /\ Solid(node[c.from]) /\ Solid(node[c.to])
    BY DEF SkipInv, Covers, Solid, CallBody
<1>1. UNCHANGED <<machine, apply, install>>
    BY DEF LateVote, HandleAppend, MergeAppend, CallTimesOut, MergeSnapshot
<1>2. CASE LateVote(c)
    <2>1. /\ node' = [node EXCEPT ![c.to] = Voter(node[c.to], c.from, c.q).node]
          /\ calls' \subseteq calls
        BY <1>2 DEF LateVote
    <2>2. KeepsApplied(node[c.to], Voter(node[c.to], c.from, c.q).node)
        BY <1>0, RoleKeepsApplied
    <2> QED
        BY <1>0, <1>1, <2>1, <2>2, OneKeeps
<1>3. CASE HandleAppend(c)
    <2> DEFINE a == Appended(node[c.to], c)
    <2>1. node' = [node EXCEPT ![c.to] = a.node] /\ calls' = Answer(c, a.reply)
        BY <1>3 DEF HandleAppend
    <2>2. KeepsApplied(node[c.to], a.node)
        BY <1>0, AppendedKeepsApplied
    <2> HIDE DEF a
    <2>3. \A d \in calls' : CallBody(d)
        BY <2>1, AnswerBody
    <2> QED
        BY <1>0, <1>1, <2>1, <2>2, <2>3, OneKeeps
<1>4. CASE MergeAppend(c)
    <2>1. node' = [node EXCEPT ![c.from] = Merged(node[c.from], c)] /\ calls' \subseteq calls
        BY <1>4 DEF MergeAppend
    <2>2. KeepsApplied(node[c.from], Merged(node[c.from], c))
        BY <1>0, MergedKeepsApplied
    <2> QED
        BY <1>0, <1>1, <2>1, <2>2, OneKeeps
<1>5. CASE CallTimesOut(c)
    <2>1. UNCHANGED node /\ calls' \subseteq calls \union {[c EXCEPT !.live = FALSE]}
        BY <1>5 DEF CallTimesOut
    <2>2. \A d \in calls' : CallBody(d)
        BY <1>0, <2>1, AnswerBody
    <2> QED
        BY <1>1, <2>1, <2>2, NoneMoves
<1>6. CASE MergeSnapshot(c)
    <2>1. /\ node' = [node EXCEPT ![c.from] = SnapshotMerged(node[c.from], c)]
          /\ calls' \subseteq calls
        BY <1>6 DEF MergeSnapshot
    <2>2. KeepsApplied(node[c.from], SnapshotMerged(node[c.from], c))
        BY <1>0, MergedKeepsApplied
    <2> QED
        BY <1>0, <1>1, <2>1, <2>2, OneKeeps
<1> QED
    BY <1>2, <1>3, <1>4, <1>5, <1>6

-----------------------------------------------------------------------------
(***************************************************************************)
(* The steps that move last_applied, the marker or a state machine.        *)
(***************************************************************************)

\* A step of one node.
Alone(s) ==
    /\ DOMAIN node' = Server /\ DOMAIN machine' = Server
    /\ DOMAIN apply' = Server /\ DOMAIN install' = Server
    /\ \A x \in Server \ {s} :
          /\ node'[x] = node[x] /\ machine'[x] = machine[x]
          /\ apply'[x] = apply[x] /\ install'[x] = install[x]

LEMMA AloneCovers ==
    ASSUME SkipInv, NEW s \in Server, Alone(s),
           Covers(node'[s], machine'[s], apply'[s], install'[s]),
           \A d \in calls' : CallBody(d)
    PROVE  SkipInv'
<1>1. ASSUME NEW x \in Server
      PROVE  Covers(node'[x], machine'[x], apply'[x], install'[x])
    BY DEF Alone, SkipInv
<1> QED
    BY <1>1 DEF Alone, SkipInv

\* A snapshot that is taken in is ahead of the marker.
LEMMA HandleSnapshotSkip ==
    ASSUME SkipInv, NEW c \in calls, HandleSnapshot(c)
    PROVE  SkipInv'
<1> DEFINE p == c.to
           r == node[p]
           f == IF c.term < r.term THEN r ELSE HeardFrom(r, c.term)
<1>1. /\ CallBody(c) /\ p \in Server /\ c.kind = "snap" /\ \A d \in calls : CallBody(d)
      /\ Covers(r, machine[p], apply[p], install[p]) /\ install[p] = None
    BY DEF SkipInv, CallBody, HandleSnapshot
<1>2. KeepsApplied(r, f)
    BY <1>1, RoleKeepsApplied DEF Covers, KeepsApplied, KeepsSnap
<1>3. node' = [node EXCEPT ![p] = f] /\ UNCHANGED <<machine, apply>>
    BY DEF HandleSnapshot
<1>4. /\ \A d \in calls' : CallBody(d)
      /\ \/ UNCHANGED install
         \/ install' = [install EXCEPT ![p] = c] /\ ~(c.idx <= r.log.snap)
    <2>1. CASE c.term < r.term \/ c.idx <= r.log.snap
        <3>1. UNCHANGED install /\ \E reply : calls' = Answer(c, reply)
            BY <2>1 DEF HandleSnapshot
        <3> QED
            BY <3>1, AnswerBody
    <2>2. CASE ~(c.term < r.term \/ c.idx <= r.log.snap)
        BY <1>1, <2>2 DEF HandleSnapshot
    <2> QED
        BY <2>1, <2>2
<1> HIDE DEF f
<1>5. /\ Alone(p) /\ node'[p] = f /\ machine'[p] = machine[p] /\ apply'[p] = apply[p]
      /\ \/ install'[p] = None
         \/ install'[p] = c /\ ~(c.idx <= r.log.snap)
    BY <1>1, <1>3, <1>4 DEF SkipInv, Alone
<1>6. Covers(f, machine[p], apply[p], None)
    BY <1>1, <1>2, CoversKept
<1>7. f.log.snap = r.log.snap /\ r.log.snap \in Nat /\ c.idx \in Nat
    BY <1>1, <1>2 DEF KeepsApplied, KeepsSnap, Covers, CallBody, Body
<1>8. ~(c.idx <= r.log.snap) => Covers(f, machine[p], apply[p], c)
    BY <1>1, <1>6, <1>7 DEF Covers
<1>9. Covers(node'[p], machine'[p], apply'[p], install'[p])
    BY <1>5, <1>6, <1>8
<1> QED
    BY <1>1, <1>4, <1>5, <1>9, AloneCovers

\* The restored state machine covers the snapshot's index, which is the new
\* last_applied because the apply thread has not passed it.
LEMMA InstalledCovers ==
    ASSUME NEW r, NEW m, NEW a, NEW c, Covers(r, m, a, c), c # None, r.applied < c.idx
    PROVE  Covers(Installed(r, c), c.body, a, None)
<1> DEFINE g == Installed(r, c)
<1>1. /\ Solid(r) /\ c.idx \in Nat /\ 1..c.idx \subseteq DOMAIN c.body
      /\ r.applied \in Nat /\ r.log.snap \in Nat /\ r.log.snap < c.idx
    BY DEF Covers, CallBody, Body
<1>2. /\ CompactTo(r.log, c.idx, c.idxTerm).snap = c.idx
      /\ DOMAIN CompactTo(r.log, c.idx, c.idxTerm) = LogFields
    BY <1>1 DEF CompactTo, LogFields
<1>3. Larger(r.applied, c.idx) = c.idx
    BY <1>1 DEF Larger
<1>4. Solid(g) /\ g.applied = c.idx /\ g.log.snap = c.idx
    BY <1>1, <1>2, <1>3 DEF Installed, Solid, Fields
<1> HIDE DEF g
<1>5. a # None => a.idx \in 1..c.idx /\ a.idx <= c.idx + 1
    BY <1>1 DEF Covers
<1> QED
    BY <1>1, <1>4, <1>5 DEF Covers, g

LEMMA FinishSnapshotSkip ==
    ASSUME SkipInv, NotPassed, NEW p \in Server, FinishSnapshot(p)
    PROVE  SkipInv'
<1> DEFINE c == install[p]
           r == Installed(node[p], c)
<1>1. /\ Covers(node[p], machine[p], apply[p], c) /\ \A d \in calls : CallBody(d)
      /\ c # None /\ node[p].applied < c.idx
    BY DEF SkipInv, FinishSnapshot, NotPassed
<1>2. /\ machine' = [machine EXCEPT ![p] = c.body] /\ node' = [node EXCEPT ![p] = r]
      /\ install' = [install EXCEPT ![p] = None] /\ UNCHANGED apply
    BY DEF FinishSnapshot
<1>3. \A d \in calls' : CallBody(d)
    <2>1. CASE c \in calls
        <3>1. calls' = Answer(c, [term |-> r.term])
            BY <2>1 DEF FinishSnapshot
        <3> QED
            BY <2>1, <3>1, AnswerBody
    <2>2. CASE c \notin calls
        BY <1>1, <2>2 DEF FinishSnapshot
    <2> QED
        BY <2>1, <2>2
<1>4. Covers(r, c.body, apply[p], None)
    BY <1>1, InstalledCovers
<1> HIDE DEF r
<1>5. /\ Alone(p) /\ node'[p] = r /\ machine'[p] = c.body /\ apply'[p] = apply[p]
      /\ install'[p] = None
    BY <1>2 DEF SkipInv, Alone
<1> QED
    BY <1>3, <1>4, <1>5, AloneCovers

\* The position after an entry that has been applied.
LEMMA AtNext ==
    ASSUME NEW i \in Nat, NEW upto, NEW a, a = At(i + 1, upto)
    PROVE  a # None =>
              /\ DOMAIN a = {"idx", "upto", "term"} /\ a.idx = i + 1 /\ ~(a.term > 0)
BY DEF At

\* last_applied moves to an entry the state machine has the effect of, and
\* the marker with it.
LEMMA FinishedCovers ==
    ASSUME NEW r, NEW m, NEW c, Covers(r, m, None, c), NEW s, NEW a, NEW b, NEW upto,
           a.idx \in Nat \ {0}, a.idx <= r.applied + 1, a.idx \in DOMAIN m,
           c # None => a.idx < c.idx, b = At(a.idx + 1, upto)
    PROVE  Covers(Finished(r, s, a), m, b, c)
<1> DEFINE g == Finished(r, s, a)
<1>1. /\ Solid(r) /\ r.applied \in Nat /\ r.log.snap \in Nat
      /\ 1..r.applied \subseteq DOMAIN m /\ 1..r.log.snap \subseteq DOMAIN m
    BY DEF Covers
<1>2. /\ CompactTo(r.log, a.idx, a.term).snap \in {r.log.snap, a.idx}
      /\ DOMAIN CompactTo(r.log, a.idx, a.term) = LogFields
    BY <1>1 DEF CompactTo, LogFields, Solid
<1>3. \E k : /\ g = [r EXCEPT !.applied = a.idx, !.log = k]
             /\ k.snap \in {r.log.snap, a.idx} /\ DOMAIN k = LogFields
    BY <1>1, <1>2 DEF Finished, Solid
<1> HIDE DEF g
<1>4. Solid(g) /\ g.applied = a.idx /\ g.log.snap \in {r.log.snap, a.idx}
    BY <1>1, <1>3 DEF Solid, Fields
<1>5. 1..a.idx \subseteq DOMAIN m
    <2>1. \A j \in 1..a.idx : j \in 1..r.applied \/ j = a.idx
        BY <1>1
    <2> QED
        BY <1>1, <2>1
<1>6. 1..g.applied \subseteq DOMAIN m /\ 1..g.log.snap \subseteq DOMAIN m
    BY <1>1, <1>4, <1>5
<1>7. c # None => CallBody(c) /\ c.kind = "snap" /\ g.log.snap < c.idx
    BY <1>4 DEF Covers
<1>8. b # None => /\ DOMAIN b = {"idx", "upto", "term"} /\ b.idx = a.idx + 1
                  /\ ~(b.term > 0)
    BY AtNext
<1>9. g.applied \in Nat /\ g.log.snap \in Nat
    BY <1>1, <1>4
<1> QED
    BY <1>4, <1>6, <1>7, <1>8, <1>9 DEF Covers, g

\* The position of the loop, before or after commit_index was read.
LEMMA LoopShape ==
    ASSUME SkipInv, NEW s \in Server, NEW a, a = Loop(s), a # None
    PROVE  /\ DOMAIN a = {"idx", "upto", "term"}
           /\ a.idx \in Nat \ {0} /\ a.idx <= node[s].applied + 1
<1>1. Covers(node[s], machine[s], apply[s], install[s])
    BY DEF SkipInv
<1>2. CASE apply[s] = None
    BY <1>1, <1>2, AtNext DEF Loop, Covers
<1>3. CASE apply[s] # None
    BY <1>1, <1>3 DEF Loop, Covers
<1> QED
    BY <1>2, <1>3

\* An entry is added to the state machine of s.
LEMMA GrownCovers ==
    ASSUME SkipInv, NEW s \in Server, NEW r, KeepsApplied(node[s], r),
           NEW m, DOMAIN machine[s] \subseteq DOMAIN m
    PROVE  Covers(r, m, None, install[s])
<1>1. Covers(node[s], machine[s], apply[s], install[s])
    BY DEF SkipInv
<1>2. Covers(node[s], m, None, install[s])
    BY <1>1 DEF Covers
<1> QED
    BY <1>2, CoversKept

LEMMA ApplyEntrySkip ==
    ASSUME SkipInv, NotPassed', NEW s \in Server, ApplyEntry(s)
    PROVE  SkipInv'
<1>1. PICK a, e, r, b : /\ a = Loop(s) /\ a # None /\ r = Configured(node[s], s, e.val)
                        /\ b = [a EXCEPT !.term = e.term]
                        /\ machine' = Applied(s, a.idx, e)
                        /\ node' = [node EXCEPT ![s] = Finished(r, s, b)]
                        /\ apply' = [apply EXCEPT ![s] = At(a.idx + 1, a.upto)]
                        /\ UNCHANGED <<install, calls>>
    BY DEF ApplyEntry
<1>2. /\ DOMAIN a = {"idx", "upto", "term"}
      /\ a.idx \in Nat \ {0} /\ a.idx <= node[s].applied + 1
    BY <1>1, LoopShape
<1>3. b.idx = a.idx
    BY <1>1, <1>2
<1>4. /\ DOMAIN machine' = Server /\ \A x \in Server \ {s} : machine'[x] = machine[x]
      /\ a.idx \in DOMAIN machine'[s] /\ Covers(r, machine'[s], None, install[s])
    <2>1. /\ DOMAIN machine' = Server /\ \A x \in Server \ {s} : machine'[x] = machine[x]
          /\ DOMAIN machine'[s] = DOMAIN machine[s] \union {a.idx}
        BY <1>1 DEF SkipInv, Applied
    <2>2. KeepsApplied(node[s], r)
        BY <1>1, ConfiguredKeepsApplied DEF SkipInv, Covers
    <2>3. Covers(r, machine'[s], None, install[s])
        BY <2>1, <2>2, GrownCovers
    <2> QED
        BY <2>1, <2>3
<1>5. /\ Alone(s) /\ node'[s] = Finished(r, s, b) /\ install'[s] = install[s]
      /\ apply'[s] = At(a.idx + 1, a.upto)
    BY <1>1, <1>4 DEF SkipInv, Alone
<1>6. r.applied = node[s].applied /\ DOMAIN r = Fields
    BY <1>1, ConfiguredKeepsApplied DEF SkipInv, Covers, Solid, KeepsApplied
<1>7. install[s] # None => b.idx < install[s].idx
    <2>1. Finished(r, s, b).applied = b.idx
        BY <1>6 DEF Finished, Fields
    <2> QED
        BY <1>5, <2>1 DEF NotPassed
<1>8. Covers(node'[s], machine'[s], apply'[s], install'[s])
    BY <1>2, <1>3, <1>4, <1>5, <1>6, <1>7, FinishedCovers
<1> QED
    BY <1>1, <1>5, <1>8, AloneCovers DEF SkipInv

LEMMA ApplyBeginSkip ==
    ASSUME SkipInv, NEW s \in Server, ApplyBegin(s)
    PROVE  SkipInv'
<1>1. PICK a, e, r, b : /\ a = Loop(s) /\ a # None /\ r = Configured(node[s], s, e.val)
                        /\ b = [a EXCEPT !.term = e.term]
                        /\ machine' = Applied(s, a.idx, e)
                        /\ node' = [node EXCEPT ![s] = r]
                        /\ apply' = [apply EXCEPT ![s] = b]
                        /\ UNCHANGED <<install, calls>>
    BY DEF ApplyBegin
<1>2. /\ DOMAIN a = {"idx", "upto", "term"}
      /\ a.idx \in Nat \ {0} /\ a.idx <= node[s].applied + 1
    BY <1>1, LoopShape
<1>3. b.idx = a.idx /\ DOMAIN b = DOMAIN a
    BY <1>1, <1>2
<1>4. /\ DOMAIN machine' = Server /\ \A x \in Server \ {s} : machine'[x] = machine[x]
      /\ a.idx \in DOMAIN machine'[s] /\ Covers(r, machine'[s], None, install[s])
    <2>1. /\ DOMAIN machine' = Server /\ \A x \in Server \ {s} : machine'[x] = machine[x]
          /\ DOMAIN machine'[s] = DOMAIN machine[s] \union {a.idx}
        BY <1>1 DEF SkipInv, Applied
    <2>2. KeepsApplied(node[s], r)
        BY <1>1, ConfiguredKeepsApplied DEF SkipInv, Covers
    <2>3. Covers(r, machine'[s], None, install[s])
        BY <2>1, <2>2, GrownCovers
    <2> QED
        BY <2>1, <2>3
<1>5. Alone(s) /\ node'[s] = r /\ install'[s] = install[s] /\ apply'[s] = b
    BY <1>1, <1>4 DEF SkipInv, Alone
<1>6. r.applied = node[s].applied
    BY <1>1, ConfiguredKeepsApplied DEF SkipInv, Covers, KeepsApplied
<1>7. Covers(r, machine'[s], b, install[s])
    BY <1>2, <1>3, <1>4, <1>6 DEF Covers
<1> QED
    BY <1>1, <1>5, <1>7, AloneCovers DEF SkipInv

LEMMA ApplyEndSkip ==
    ASSUME SkipInv, NotPassed', NEW s \in Server, ApplyEnd(s)
    PROVE  SkipInv'
<1>1. PICK a : /\ a = apply[s] /\ a # None /\ a.term > 0
               /\ node' = [node EXCEPT ![s] = Finished(node[s], s, a)]
               /\ apply' = [apply EXCEPT ![s] = At(a.idx + 1, a.upto)]
               /\ UNCHANGED <<machine, install, calls>>
    BY DEF ApplyEnd
<1>2. Covers(node[s], machine[s], a, install[s])
    BY <1>1 DEF SkipInv
<1>3. /\ Covers(node[s], machine[s], None, install[s]) /\ DOMAIN node[s] = Fields
      /\ a.idx \in Nat \ {0} /\ a.idx <= node[s].applied + 1 /\ a.idx \in DOMAIN machine[s]
    BY <1>1, <1>2 DEF Covers, Solid
<1>4. /\ Alone(s) /\ node'[s] = Finished(node[s], s, a) /\ install'[s] = install[s]
      /\ apply'[s] = At(a.idx + 1, a.upto) /\ machine'[s] = machine[s]
    BY <1>1 DEF SkipInv, Alone
<1>5. install[s] # None => a.idx < install[s].idx
    <2>1. Finished(node[s], s, a).applied = a.idx
        BY <1>3 DEF Finished, Fields
    <2> QED
        BY <1>4, <2>1 DEF NotPassed
<1>6. Covers(node'[s], machine'[s], apply'[s], install'[s])
    BY <1>3, <1>4, <1>5, FinishedCovers
<1> QED
    BY <1>1, <1>4, <1>6, AloneCovers DEF SkipInv

\* The marker is covered, so the loop may go on after it.
LEMMA ApplySkipsSkip ==
    ASSUME SkipInv, NEW s \in Server, ApplySkips(s)
    PROVE  SkipInv'
<1>1. Covers(node[s], machine[s], apply[s], install[s])
    BY DEF SkipInv
<1>2. UNCHANGED <<machine, install, calls>>
    BY DEF ApplySkips
<1>3. CASE /\ node' = [node EXCEPT ![s].applied = Larger(@, node[s].log.snap)]
           /\ apply' = [apply EXCEPT ![s] = At(node[s].log.snap + 1, apply[s].upto)]
    <2>1. PICK n, k, r, b : /\ n = node[s].log.snap /\ k = Larger(node[s].applied, n)
                            /\ r = [node[s] EXCEPT !.applied = k]
                            /\ b = At(n + 1, apply[s].upto)
        OBVIOUS
    <2>2. /\ Alone(s) /\ node'[s] = r /\ apply'[s] = b
          /\ machine'[s] = machine[s] /\ install'[s] = install[s]
        BY <1>2, <1>3, <2>1 DEF SkipInv, Alone
    <2>3. /\ k \in Nat /\ n \in Nat /\ n <= k /\ k \in {node[s].applied, n}
        BY <1>1, <2>1 DEF Covers, Larger
    <2>4. Solid(r) /\ r.applied = k /\ r.log.snap = n
        BY <1>1, <2>1 DEF Covers, Solid, Fields
    <2>5. b # None =>
            /\ DOMAIN b = {"idx", "upto", "term"} /\ b.idx = n + 1 /\ ~(b.term > 0)
        BY <2>1, <2>3, AtNext
    <2>6. Covers(r, machine[s], b, install[s])
        BY <1>1, <2>1, <2>3, <2>4, <2>5 DEF Covers
    <2> QED
        BY <1>2, <2>2, <2>6, AloneCovers DEF SkipInv
<1>4. CASE apply' = [apply EXCEPT ![s] = None] /\ UNCHANGED node
    <2>1. /\ Alone(s) /\ node'[s] = node[s] /\ apply'[s] = None
          /\ machine'[s] = machine[s] /\ install'[s] = install[s]
        BY <1>2, <1>4 DEF SkipInv, Alone
    <2>2. Covers(node[s], machine[s], None, install[s])
        BY <1>1 DEF Covers
    <2> QED
        BY <1>2, <2>1, <2>2, AloneCovers DEF SkipInv
<1> QED
    BY <1>3, <1>4 DEF ApplySkips

\* A restart begins at the marker.
LEMMA RestartSkip ==
    ASSUME SkipInv, NEW s \in Server, Restart(s)
    PROVE  SkipInv'
<1>1. Covers(node[s], machine[s], apply[s], install[s]) /\ \A c \in calls : CallBody(c)
    BY DEF SkipInv
<1>2. PICK g : g = Passive(node[s])
    OBVIOUS
<1>3. Solid(g) /\ g.log.snap = node[s].log.snap
    BY <1>1, <1>2, RoleKeepsApplied DEF Covers, Solid, KeepsApplied, KeepsSnap
<1>4. PICK r : r = Reopened(node[s])
    OBVIOUS
<1>5. /\ Solid(r) /\ r.log.snap = node[s].log.snap /\ r.applied = node[s].log.snap
    BY <1>2, <1>3, <1>4 DEF Reopened, Solid, Fields
<1>6. Covers(r, machine[s], None, None)
    BY <1>1, <1>5 DEF Covers
<1>7. /\ Alone(s) /\ node'[s] = r /\ apply'[s] = None /\ install'[s] = None
      /\ machine'[s] = machine[s]
    BY <1>4 DEF SkipInv, Alone, Restart
<1>8. \A d \in calls' : CallBody(d)
    <2>1. calls' \subseteq calls \union {[c EXCEPT !.live = FALSE] : c \in calls}
        BY DEF Restart
    <2>2. \A c \in calls : CallBody([c EXCEPT !.live = FALSE])
        BY <1>1, AnswerBody
    <2> QED
        BY <1>1, <2>1, <2>2
<1> QED
    BY <1>6, <1>7, <1>8, AloneCovers

-----------------------------------------------------------------------------
LEMMA SkipInit ==
    Init => SkipInv
<1> SUFFICES ASSUME Init PROVE SkipInv
    OBVIOUS
<1>1. PICK sc \in Scenario :
        /\ node = [s \in Server |->
              [role |-> "follower", term |-> 0, vote |-> None, log |-> EmptyLog,
               commit |-> 0, applied |-> 0, config |-> sc.config,
               removed |-> {}, joiner |-> s \in sc.joiners,
               peers |-> {}, next |-> [p \in Server |-> 1],
               match |-> [p \in Server |-> 0], noop |-> FALSE, seed |-> FALSE,
               mayAdd |-> FALSE]]
        /\ machine = [s \in Server |-> <<>>] /\ calls = {}
        /\ apply = [s \in Server |-> None] /\ install = [s \in Server |-> None]
    BY DEF Init
<1>2. ASSUME NEW s \in Server PROVE Covers(node[s], machine[s], apply[s], install[s])
    <2>1. Solid(node[s]) /\ node[s].applied = 0 /\ node[s].log.snap = 0
        BY <1>1 DEF Solid, Fields, LogFields, EmptyLog
    <2> QED
        BY <1>1, <2>1 DEF Covers
<1> QED
    BY <1>1, <1>2 DEF SkipInv

LEMMA SkipStep ==
    SkipInv /\ NotPassed /\ NotPassed' /\ [Next]_vars => SkipInv'
<1> SUFFICES ASSUME SkipInv, NotPassed, NotPassed', [Next]_vars PROVE SkipInv'
    OBVIOUS
<1>1. CASE UNCHANGED vars
    <2>1. UNCHANGED <<node, machine, apply, install, calls>>
        BY <1>1 DEF vars
    <2> QED
        BY <2>1, NoneMoves DEF SkipInv
<1>2. ASSUME NEW s \in Server,
             \/ RebuildPeers(s) \/ Discover(s) \/ PreVote(s) \/ StartElection(s)
             \/ EndElection(s) \/ CheckQuorum(s)
      PROVE  SkipInv'
    BY <1>2, ElectionSkip
<1>3. ASSUME NEW s \in Server, Propose(s) \/ ProposeNoop(s) \/ ProposeSeed(s)
      PROVE  SkipInv'
    BY <1>3, SubmitSkip DEF Propose, ProposeNoop, ProposeSeed
<1>4. ASSUME NEW s \in Server,
             \/ ApplyEntry(s) \/ ApplyBegin(s) \/ ApplyEnd(s) \/ ApplySkips(s)
             \/ FinishSnapshot(s) \/ Restart(s)
      PROVE  SkipInv'
    BY <1>4, ApplyEntrySkip, ApplyBeginSkip, ApplyEndSkip, ApplySkipsSkip,
       FinishSnapshotSkip, RestartSkip
<1>5. ASSUME NEW s \in Server, NEW p \in Server,
             \/ RequestVote(s, p) \/ RequestVoteTimesOut(s, p)
             \/ ChangeConfig(s, p) \/ DriveAdd(s, p)
      PROVE  SkipInv'
    BY <1>5, ElectionSkip, ClientSkip DEF Thread
<1>6. ASSUME NEW s \in Server, NEW th \in Thread,
             \/ SweepSkips(s, th) \/ ProposeConfig(s, th)
             \/ ReturnOk(s, th) \/ ReturnNotLeader(s, th) \/ ReturnTimeout(s, th)
      PROVE  SkipInv'
    BY <1>6, ClientSkip
<1>7. ASSUME NEW s \in Server, NEW p \in Server, NEW th \in Thread,
             SendAppend(s, th, p) \/ SendSnapshot(s, th, p)
      PROVE  SkipInv'
    BY <1>7, SendSkip
<1>8. ASSUME NEW c \in calls,
             \/ LateVote(c) \/ HandleAppend(c) \/ MergeAppend(c) \/ CallTimesOut(c)
             \/ HandleSnapshot(c) \/ MergeSnapshot(c)
      PROVE  SkipInv'
    BY <1>8, CallSkip, HandleSnapshotSkip
<1> QED
    BY <1>1, <1>2, <1>3, <1>4, <1>5, <1>6, <1>7, <1>8, Zenon DEF Next

\* NothingSkipped for every number of servers, scenario and bound, restarts,
\* snapshots and membership changes included: a node that reports an index as
\* applied has the effect of every entry up to it, also when last_applied was
\* moved by a snapshot or begins again at the snapshot marker after a restart.
\* It is conditional on what on_install_snapshot leaves open: the apply thread
\* does not pass a snapshot while the restore hook runs without r->lock.
THEOREM NothingSkippedHolds ==
    Spec /\ []NotPassed => []NothingSkipped
<1>1. SkipInv => NothingSkipped
    BY DEF SkipInv, Covers, NothingSkipped
<1> QED
    BY <1>1, SkipInit, SkipStep, PTL DEF Spec

==============================================================================
