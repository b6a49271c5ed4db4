-------------------------- MODULE RaftElectionProofs --------------------------
(***************************************************************************)
(* Two leaders never share a term (src/raft/raft.c), for every number of   *)
(* servers and every bound, while the membership stays what it is.         *)
(*                                                                         *)
(* The state has no memory of who voted for whom: voted_for is overwritten *)
(* when the term moves on, and a candidate only counts the answers of its  *)
(* round.  The invariant therefore says that there is a poll book V, with  *)
(* V[p][t] the candidate p voted for in term t, that explains the state:   *)
(* no voter is ahead of its term, the votes a candidate counted and those  *)
(* a leader won with are in the book.  A voter that answers adds a line.   *)
(***************************************************************************)
EXTENDS Raft, TLAPS, FiniteSetTheorems

-----------------------------------------------------------------------------
(***************************************************************************)
(* The shape of the state, as far as elections look at it.                 *)
(***************************************************************************)
Fields ==
    {"role", "term", "vote", "log", "commit", "applied", "config", "removed",
     "joiner", "peers", "next", "match", "noop", "seed", "mayAdd"}

NodeShape(s, r) ==
    /\ DOMAIN r = Fields
    /\ r.role \in Roles /\ r.term \in Nat
    /\ r.vote \in Server \union {None}
    /\ r.peers \subseteq Server \ {s}

RoundShape(s, q) ==
    /\ DOMAIN q = {"kind", "term", "lastIdx", "lastTerm", "todo", "granted"}
    /\ q.term \in Nat /\ q.granted \in Nat
    /\ q.todo \subseteq Server \ {s}

CallShape(c) ==
    /\ c.from \in Server /\ c.to \in Server
    /\ c.kind \in {"vote", "append", "snap"}
    /\ {"kind", "from", "to", "live"} \subseteq DOMAIN c
    /\ c.kind = "vote" => "q" \in DOMAIN c /\ c.q.term \in Nat
    /\ c.kind # "vote" =>
          /\ {"term", "reply"} \subseteq DOMAIN c
          /\ c.term \in Nat
          /\ c.reply # None => c.reply.term \in Nat

Shape ==
    /\ DOMAIN node = Server /\ DOMAIN round = Server
    /\ \A s \in Server : NodeShape(s, node[s])
    /\ \A s \in Server : round[s] # None => RoundShape(s, round[s])
    /\ \A c \in calls : CallShape(c)

-----------------------------------------------------------------------------
(***************************************************************************)
(* The poll book.                                                          *)
(***************************************************************************)
Books == [Server -> [Nat -> Server \union {None}]]

\* What a book says of a voter: nothing about terms to come, and voted_for
\* is its line for the present term.
Voted(V, p) ==
    \A t \in Nat : V[p][t] # None =>
        /\ t <= node[p].term
        /\ t = node[p].term => node[p].vote = V[p][t]

Backers(M, V, t, s) == {p \in M : V[p][t] = s}

\* A candidate is a member that voted for itself and asks the other members.
Stands(M, V, s) ==
    node[s].role # "follower" =>
        /\ s \in M /\ node[s].peers = M \ {s}
        /\ V[s][node[s].term] = s

\* The votes counted in the round of the present term are in the book.
Counted(M, V, s) ==
    node[s].role = "candidate" /\ round[s] # None /\ round[s].kind = "vote"
        /\ round[s].term = node[s].term =>
        /\ round[s].todo \subseteq M
        /\ round[s].granted <=
              Cardinality(Backers(M, V, node[s].term, s) \ round[s].todo)

Elected(M, V, s) ==
    node[s].role = "leader" =>
        Cardinality(Backers(M, V, node[s].term, s)) >= Cardinality(M) \div 2 + 1

Explains(M, V) ==
    \A s \in Server :
        Voted(V, s) /\ Stands(M, V, s) /\ Counted(M, V, s) /\ Elected(M, V, s)

ElectInv(M) == Shape /\ \E V \in Books : Explains(M, V)

\* No node's config changes: config.bin holds M everywhere.
Members(M) == \A s \in Server : node[s].config = M

-----------------------------------------------------------------------------
(***************************************************************************)
(* What the handlers do to the role, term, vote and peers of a node.       *)
(***************************************************************************)
\* Nothing is won: a node keeps its place or becomes a follower.
Keeps(r, r2) ==
    r2.role # "follower" =>
        r2.role = r.role /\ r2.term = r.term /\ r2.peers = r.peers

\* ... and it votes for nobody.
Drift(s, r, r2) ==
    /\ NodeShape(s, r2)
    /\ Keeps(r, r2)
    /\ r2.term >= r.term
    /\ r2.term = r.term => r2.vote = r.vote

\* Fields elections do not look at.
Like(r, r2) ==
    /\ DOMAIN r2 = DOMAIN r
    /\ r2.role = r.role /\ r2.term = r.term /\ r2.vote = r.vote /\ r2.peers = r.peers

LEMMA LikeDrift ==
    ASSUME NEW s, NEW r, NEW f, NEW g, Drift(s, r, f), Like(f, g)
    PROVE  Drift(s, r, g)
BY DEF Drift, Like, NodeShape, Keeps

LEMMA SelfDrift ==
    ASSUME NEW s, NEW r, NodeShape(s, r)
    PROVE  Drift(s, r, r)
BY DEF Drift, NodeShape, Keeps

LEMMA PassiveDrift ==
    ASSUME NEW s, NEW r, NodeShape(s, r)
    PROVE  /\ Drift(s, r, Passive(r))
           /\ Passive(r).role = "follower" /\ Passive(r).term = r.term
BY DEF Drift, NodeShape, Keeps, Passive, Fields, Roles

LEMMA FollowerDrift ==
    ASSUME NEW s, NEW r, NodeShape(s, r), NEW t \in Nat
    PROVE  /\ Drift(s, r, Follower(r, t))
           /\ Follower(r, t).term = Larger(r.term, t)
           /\ Follower(r, t).role = "follower"
           /\ Follower(r, t).vote = IF t > r.term THEN None ELSE r.vote
<1> DEFINE g == Passive(r)
<1>1. /\ DOMAIN g = Fields /\ g.role = "follower" /\ g.term = r.term
      /\ g.vote = r.vote /\ g.peers = {}
    BY DEF NodeShape, Passive, Fields
<1> HIDE DEF g
<1> DEFINE f == [g EXCEPT !.seed = FALSE, !.term = Larger(@, t),
                          !.vote = IF t > r.term THEN None ELSE @]
<1>2. /\ DOMAIN f = Fields /\ f.role = "follower" /\ f.term = Larger(r.term, t)
      /\ f.vote = (IF t > r.term THEN None ELSE r.vote) /\ f.peers = {}
    BY <1>1 DEF Fields
<1>3. f = Follower(r, t)
    BY DEF Follower, g
<1> HIDE DEF f
<1>4. f.term \in Nat /\ f.term >= r.term /\ (f.term = r.term => ~(t > r.term))
    BY <1>2 DEF NodeShape, Larger
<1> QED
    BY <1>2, <1>3, <1>4 DEF Drift, NodeShape, Keeps, Roles

LEMMA HeardFromDrift ==
    ASSUME NEW s, NEW r, NodeShape(s, r), NEW t \in Nat
    PROVE  Drift(s, r, HeardFrom(r, t))
BY FollowerDrift, PassiveDrift, SelfDrift DEF HeardFrom

LEMMA AppendedDrift ==
    ASSUME NEW s, NEW r, NodeShape(s, r), NEW c, c.term \in Nat
    PROVE  Drift(s, r, Appended(r, c).node) /\ Appended(r, c).reply.term \in Nat
<1> DEFINE f == HeardFrom(r, c.term)
           l == Stored(r.log, c.ents)
           a == Appended(r, c)
<1>1. Drift(s, r, f) /\ DOMAIN f = Fields /\ f.term \in Nat /\ r.term \in Nat
    BY HeardFromDrift DEF Drift, NodeShape
<1>2. Drift(s, r, r)
    BY SelfDrift
<1>3. \/ a = [node |-> r, reply |-> [term |-> r.term, success |-> FALSE, match |-> 0]]
      \/ \E k, h : a = [node |-> [f EXCEPT !.log = k],
                        reply |-> [term |-> f.term, success |-> FALSE, match |-> h]]
      \/ \E k, h, m : a = [node |-> [f EXCEPT !.log = k, !.commit = m],
                           reply |-> [term |-> f.term, success |-> TRUE, match |-> h]]
    <2>1. CASE c.term < r.term
        <3>1. a = [node |-> r, reply |-> [term |-> r.term, success |-> FALSE, match |-> 0]]
            BY <2>1, <1>1 DEF Appended
        <3> QED
            BY <3>1
    <2>2. CASE c.term >= r.term /\ c.prev > LastIndex(r.log)
        <3>1. a = [node |-> [f EXCEPT !.log = r.log],
                   reply |-> [term |-> f.term, success |-> FALSE, match |-> LastIndex(r.log)]]
            BY <2>2, <1>1 DEF Appended
        <3> QED
            BY <3>1
    <2>3. CASE c.term >= r.term /\ ~(c.prev > LastIndex(r.log))
               /\ c.prev > 0 /\ TermAt(r.log, c.prev) # c.prevTerm
        <3>1. a = [node |-> [f EXCEPT !.log = TruncateFrom(r.log, c.prev)],
                   reply |-> [term |-> f.term, success |-> FALSE, match |-> c.prev - 1]]
            BY <2>3, <1>1 DEF Appended
        <3> QED
            BY <3>1
    <2>4. CASE c.term >= r.term /\ ~(c.prev > LastIndex(r.log))
               /\ ~(c.prev > 0 /\ TermAt(r.log, c.prev) # c.prevTerm)
        <3>1. a = [node |-> [f EXCEPT !.log = l,
                               !.commit = Larger(@, Smaller(c.commit, LastIndex(l)))],
                   reply |-> [term |-> f.term, success |-> TRUE, match |-> LastIndex(l)]]
            BY <2>4, <1>1 DEF Appended
        <3> QED
            BY <3>1
    <2>5. c.term < r.term \/ c.term >= r.term
        BY <1>1
    <2> QED
        BY <2>1, <2>2, <2>3, <2>4, <2>5, Zenon
<1> HIDE DEF f, l, a
<1>4. ASSUME NEW k PROVE Like(f, [f EXCEPT !.log = k])
    BY <1>1 DEF Like, Fields
<1>5. ASSUME NEW k, NEW m PROVE Like(f, [f EXCEPT !.log = k, !.commit = m])
    BY <1>1 DEF Like, Fields
<1>6. Drift(s, r, a.node) /\ a.reply.term \in Nat
    <2>1. CASE a = [node |-> r, reply |-> [term |-> r.term, success |-> FALSE, match |-> 0]]
        BY <2>1, <1>1, <1>2
    <2>2. CASE \E k, h : a = [node |-> [f EXCEPT !.log = k],
                        reply |-> [term |-> f.term, success |-> FALSE, match |-> h]]
        <3> PICK k, h : a = [node |-> [f EXCEPT !.log = k],
                        reply |-> [term |-> f.term, success |-> FALSE, match |-> h]]
            BY <2>2
        <3>1. Drift(s, r, [f EXCEPT !.log = k])
            BY <1>1, <1>4, LikeDrift
        <3> QED
            BY <3>1, <1>1
    <2>3. CASE \E k, h, m : a = [node |-> [f EXCEPT !.log = k, !.commit = m],
                           reply |-> [term |-> f.term, success |-> TRUE, match |-> h]]
        <3> PICK k, h, m : a = [node |-> [f EXCEPT !.log = k, !.commit = m],
                           reply |-> [term |-> f.term, success |-> TRUE, match |-> h]]
            BY <2>3
        <3>1. Drift(s, r, [f EXCEPT !.log = k, !.commit = m])
            BY <1>1, <1>5, LikeDrift
        <3> QED
            BY <3>1, <1>1
    <2> QED
        BY <1>3, <2>1, <2>2, <2>3
<1> QED
    BY <1>6 DEF a

LEMMA AdvancedLike ==
    ASSUME NEW r, DOMAIN r = Fields
    PROVE  Like(r, Advanced(r))
<1>1. ASSUME NEW i PROVE Like(r, [r EXCEPT !.commit = i])
    BY DEF Like, Fields
<1>2. Like(r, r)
    BY DEF Like
<1>3. Advanced(r) = r \/ \E i : Advanced(r) = [r EXCEPT !.commit = i]
    BY DEF Advanced
<1> QED
    BY <1>1, <1>2, <1>3

LEMMA MergedDrift ==
    ASSUME NEW s, NEW r, NodeShape(s, r), NEW c, c.reply.term \in Nat
    PROVE  Drift(s, r, Merged(r, c))
<1> DEFINE n == c.prev + Len(c.ents)
           g == [r EXCEPT !.match[c.to] = Larger(@, n), !.next[c.to] = n + 1]
           hint == c.reply.match + 1
           h == [r EXCEPT !.next[c.to] = IF hint < @ THEN hint
                                         ELSE IF @ > 1 THEN @ - 1 ELSE @]
<1>1. Like(r, g) /\ Like(r, h) /\ DOMAIN g = Fields
    BY DEF Like, Fields, NodeShape
<1>2. Drift(s, r, r) /\ r.term \in Nat
    BY SelfDrift DEF NodeShape
<1>3. Drift(s, r, g) /\ Drift(s, r, h)
    BY <1>1, <1>2, LikeDrift
<1>4. Drift(s, r, Advanced(g))
    BY <1>1, <1>3, AdvancedLike, LikeDrift
<1>5. Drift(s, r, Follower(r, c.reply.term))
    BY FollowerDrift
<1>6. Merged(r, c) \in {Follower(r, c.reply.term), r, Advanced(g), h}
    <2> HIDE DEF g, h
    <2>1. CASE c.reply.term > r.term
        BY <2>1, <1>2 DEF Merged
    <2>2. CASE c.reply.term <= r.term /\ (c.to \notin r.peers \/ r.role # "leader")
        BY <2>2, <1>2 DEF Merged
    <2>3. CASE c.reply.term <= r.term /\ c.to \in r.peers /\ r.role = "leader"
               /\ c.reply.success
        BY <2>3, <1>2 DEF Merged, g
    <2>4. CASE c.reply.term <= r.term /\ c.to \in r.peers /\ r.role = "leader"
               /\ ~c.reply.success
        BY <2>4, <1>2 DEF Merged, h
    <2>5. c.reply.term > r.term \/ c.reply.term <= r.term
        BY <1>2
    <2> QED
        BY <2>1, <2>2, <2>3, <2>4, <2>5, Zenon
<1> QED
    BY <1>2, <1>3, <1>4, <1>5, <1>6

LEMMA SnapshotMergedDrift ==
    ASSUME NEW s, NEW r, NodeShape(s, r), NEW c, c.reply.term \in Nat
    PROVE  Drift(s, r, SnapshotMerged(r, c))
<1> DEFINE g == [r EXCEPT !.next[c.to] = c.idx + 1, !.match[c.to] = Larger(@, c.idx)]
<1>1. Like(r, g)
    BY DEF Like, NodeShape, Fields
<1>2. SnapshotMerged(r, c) \in {Follower(r, c.reply.term), r, g}
    BY DEF SnapshotMerged, SteppedDown
<1> HIDE DEF g
<1>3. Drift(s, r, r) /\ Drift(s, r, g) /\ Drift(s, r, Follower(r, c.reply.term))
    BY <1>1, SelfDrift, LikeDrift, FollowerDrift
<1> QED
    BY <1>2, <1>3

LEMMA ConfiguredDrift ==
    ASSUME NEW s, NEW r, NodeShape(s, r), NEW v
    PROVE  Drift(s, r, Configured(r, s, v))
<1> DEFINE f == IF v.arg = s /\ r.role = "leader" THEN Passive(r) ELSE r
           a == [r EXCEPT !.config = v.arg]
           b == [r EXCEPT !.config = @ \union {v.arg}]
           c == [f EXCEPT !.config = @ \ {v.arg}, !.removed = @ \union {v.arg}]
<1>1. Drift(s, r, r) /\ Drift(s, r, f)
    BY SelfDrift, PassiveDrift
<1>2. Like(r, a) /\ Like(r, b)
    BY DEF Like, NodeShape, Fields
<1>3. Like(f, c)
    <2> HIDE DEF f
    <2> QED
        BY <1>1 DEF Like, Drift, NodeShape, Fields
<1>4. Drift(s, r, a) /\ Drift(s, r, b) /\ Drift(s, r, c)
    <2> HIDE DEF f, a, b, c
    <2> QED
        BY <1>1, <1>2, <1>3, LikeDrift
<1>5. Configured(r, s, v) \in {a, b, c, r}
    BY DEF Configured
<1> QED
    BY <1>1, <1>4, <1>5

LEMMA FinishedDrift ==
    ASSUME NEW s, NEW r, NEW f, Drift(s, r, f), NEW a
    PROVE  Drift(s, r, Finished(f, s, a))
<1>1. Like(f, Finished(f, s, a))
    BY DEF Finished, Like, Drift, NodeShape, Fields
<1> QED
    BY <1>1, LikeDrift

\* on_request_vote: a vote that is given is given in the term asked for, to
\* a voter's only candidate of that term; a vote that is refused is no vote.
Answered(p, r, s, t, v) ==
    /\ NodeShape(p, v.node) /\ Keeps(r, v.node) /\ v.node.term >= r.term
    /\ v.granted => /\ v.node.term = t /\ v.node.vote = s
                    /\ r.term = t => r.vote \in {None, s}
    /\ ~v.granted => Drift(p, r, v.node)

LEMMA VoterVotes ==
    ASSUME NEW p, NEW r, NodeShape(p, r), NEW s \in Server, NEW q, NEW t \in Nat,
           q.term = t, NEW v, v = Voter(r, s, q)
    PROVE  Answered(p, r, s, t, v)
<1> USE DEF Answered
<1> DEFINE up == IF t > r.term THEN Follower(r, t) ELSE r
           grant == /\ t >= r.term
                    /\ UpToDate(q.lastTerm, q.lastIdx, r.log)
                    /\ IsMember(r, s)
                    /\ up.vote \in {None, s}
           g == [up EXCEPT !.vote = s]
<1>1. v.granted = grant /\ v.node = IF grant THEN g ELSE up
    BY DEF Voter
<1>2. Drift(p, r, up) /\ (t >= r.term => up.term = t)
    BY FollowerDrift, SelfDrift DEF NodeShape, Larger
<1>3. r.term = t => up = r
    BY DEF NodeShape
<1> HIDE DEF up
<1>4. /\ NodeShape(p, g) /\ g.vote = s /\ g.term = up.term
      /\ g.role = up.role /\ g.peers = up.peers
    BY <1>2 DEF Drift, NodeShape, Fields
<1> HIDE DEF g, grant
<1>5. CASE grant
    <2>1. v.granted /\ v.node = g
        BY <1>1, <1>5
    <2>2. up.term = t /\ up.vote \in {None, s}
        BY <1>2, <1>5 DEF grant
    <2> QED
        BY <2>1, <2>2, <1>2, <1>3, <1>4 DEF Drift, Keeps
<1>6. CASE ~grant
    BY <1>1, <1>2, <1>6 DEF Drift
<1> QED
    BY <1>5, <1>6

-----------------------------------------------------------------------------
(***************************************************************************)
(* Steps and the poll book.                                                *)
(***************************************************************************)
Extends(V, W) == \A p \in Server : \A t \in Nat : V[p][t] # None => W[p][t] = V[p][t]

\* The book with the vote of p for s in term t.
Enter(V, p, t, s) ==
    [x \in Server |-> [u \in Nat |-> IF x = p /\ u = t THEN s ELSE V[x][u]]]

LEMMA BackersGrow ==
    ASSUME NEW M \in SUBSET Server, NEW V \in Books, NEW W \in Books, Extends(V, W),
           NEW s \in Server, NEW t \in Nat, NEW D
    PROVE  /\ Backers(M, V, t, s) \subseteq Backers(M, W, t, s)
           /\ Cardinality(Backers(M, V, t, s)) \in Nat
           /\ Cardinality(Backers(M, W, t, s)) \in Nat
           /\ Cardinality(Backers(M, V, t, s)) <= Cardinality(Backers(M, W, t, s))
           /\ Cardinality(Backers(M, V, t, s) \ D) \in Nat
           /\ Cardinality(Backers(M, W, t, s) \ D) \in Nat
           /\ Cardinality(Backers(M, V, t, s) \ D) <= Cardinality(Backers(M, W, t, s) \ D)
<1> DEFINE B == Backers(M, V, t, s)
           C == Backers(M, W, t, s)
<1>1. B \subseteq C /\ C \subseteq Server
    BY RaftAssumption DEF Backers, Extends
<1> HIDE DEF B, C
<1>2. IsFiniteSet(C) /\ IsFiniteSet(C \ D)
    BY <1>1, RaftAssumption, FS_Subset
<1>3. /\ IsFiniteSet(B) /\ Cardinality(B) <= Cardinality(C)
      /\ IsFiniteSet(B \ D) /\ Cardinality(B \ D) <= Cardinality(C \ D)
    <2>1. B \ D \subseteq C \ D
        BY <1>1
    <2> QED
        BY <1>1, <1>2, <2>1, FS_Subset
<1>4. /\ Cardinality(B) \in Nat /\ Cardinality(C) \in Nat
      /\ Cardinality(B \ D) \in Nat /\ Cardinality(C \ D) \in Nat
    BY <1>2, <1>3, FS_CardinalityType
<1> QED
    BY <1>1, <1>3, <1>4 DEF B, C

\* A node that wins nothing stays explained by a longer book.
LEMMA Carried ==
    ASSUME NEW M \in SUBSET Server, NEW V \in Books, NEW W \in Books, Extends(V, W),
           Shape, NEW s \in Server, Keeps(node[s], node'[s]),
           Stands(M, V, s), Counted(M, V, s), Elected(M, V, s)
    PROVE  /\ Stands(M, W, s)' /\ Elected(M, W, s)'
           /\ round'[s] \in {round[s], None} => Counted(M, W, s)'
<1> DEFINE t == node[s].term
<1>1. t \in Nat
    BY DEF Shape, NodeShape
<1>2. CASE node'[s].role = "follower"
    BY <1>2 DEF Stands, Elected, Counted
<1>3. CASE node'[s].role # "follower"
    <2>1. node'[s].role = node[s].role /\ node'[s].term = t /\ node'[s].peers = node[s].peers
        BY <1>3 DEF Keeps
    <2>2. Stands(M, W, s)'
        BY <2>1, <1>1, <1>3, RaftAssumption DEF Stands, Extends
    <2>3. Elected(M, W, s)'
        <3>1. Elected(M, W, s)' = (node'[s].role = "leader" =>
                  Cardinality(Backers(M, W, node'[s].term, s)) >= Cardinality(M) \div 2 + 1)
            BY DEF Elected, Backers
        <3> SUFFICES ASSUME node[s].role = "leader"
                     PROVE  Cardinality(Backers(M, W, t, s)) >= Cardinality(M) \div 2 + 1
            BY <2>1, <3>1
        <3>2. Cardinality(Backers(M, V, t, s)) >= Cardinality(M) \div 2 + 1
            BY DEF Elected
        <3>3. Cardinality(M) \in Nat
            BY RaftAssumption, FS_Subset, FS_CardinalityType
        <3>4. /\ Cardinality(Backers(M, V, t, s)) \in Nat
              /\ Cardinality(Backers(M, W, t, s)) \in Nat
              /\ Cardinality(Backers(M, V, t, s)) <= Cardinality(Backers(M, W, t, s))
            BY <1>1, BackersGrow
        <3> QED
            BY <3>2, <3>3, <3>4
    <2>4. ASSUME round'[s] \in {round[s], None} PROVE Counted(M, W, s)'
        <3>1. Counted(M, W, s)' =
                (node'[s].role = "candidate" /\ round'[s] # None /\ round'[s].kind = "vote"
                    /\ round'[s].term = node'[s].term =>
                    /\ round'[s].todo \subseteq M
                    /\ round'[s].granted <=
                          Cardinality(Backers(M, W, node'[s].term, s) \ round'[s].todo))
            BY DEF Counted, Backers
        <3> SUFFICES ASSUME round'[s] = round[s], node[s].role = "candidate",
                            round[s] # None, round[s].kind = "vote", round[s].term = t
                     PROVE  /\ round[s].todo \subseteq M
                            /\ round[s].granted <=
                                  Cardinality(Backers(M, W, t, s) \ round[s].todo)
            BY <2>1, <2>4, <3>1
        <3>2. /\ round[s].todo \subseteq M
              /\ round[s].granted <= Cardinality(Backers(M, V, t, s) \ round[s].todo)
            BY DEF Counted
        <3>3. round[s].granted \in Nat
            BY DEF Shape, RoundShape
        <3>4. /\ Cardinality(Backers(M, V, t, s) \ round[s].todo) \in Nat
              /\ Cardinality(Backers(M, W, t, s) \ round[s].todo) \in Nat
              /\ Cardinality(Backers(M, V, t, s) \ round[s].todo)
                    <= Cardinality(Backers(M, W, t, s) \ round[s].todo)
            BY <1>1, BackersGrow
        <3> QED
            BY <3>2, <3>3, <3>4
    <2> QED
        BY <2>2, <2>3, <2>4
<1> QED
    BY <1>2, <1>3

LEMMA DriftVoted ==
    ASSUME NEW V \in Books, Shape, NEW x \in Server, Voted(V, x),
           Drift(x, node[x], node'[x])
    PROVE  Voted(V, x)'
<1> SUFFICES ASSUME NEW t \in Nat, V[x][t] # None
             PROVE  t <= node'[x].term /\ (t = node'[x].term => node'[x].vote = V[x][t])
    BY DEF Voted
<1>1. t <= node[x].term /\ (t = node[x].term => node[x].vote = V[x][t])
    BY DEF Voted
<1>2. node[x].term \in Nat /\ node'[x].term \in Nat
    BY DEF Shape, NodeShape, Drift
<1> QED
    BY <1>1, <1>2 DEF Drift

\* A step in which nobody votes, stands or wins.
LEMMA DriftStep ==
    ASSUME NEW M \in SUBSET Server, ElectInv(M),
           DOMAIN node' = Server, DOMAIN round' = Server,
           \A x \in Server : Drift(x, node[x], node'[x]),
           \A x \in Server : round'[x] \in {round[x], None},
           \A c \in calls' : CallShape(c)
    PROVE  ElectInv(M)'
<1> PICK V \in Books : Explains(M, V)
    BY DEF ElectInv
<1>1. Shape
    BY DEF ElectInv
<1>2. Shape'
    BY <1>1 DEF Shape, Drift
<1>3. Extends(V, V)
    BY DEF Extends
<1>4. ASSUME NEW x \in Server
      PROVE  Voted(V, x)' /\ Stands(M, V, x)' /\ Counted(M, V, x)' /\ Elected(M, V, x)'
    <2>1. Voted(V, x) /\ Stands(M, V, x) /\ Counted(M, V, x) /\ Elected(M, V, x)
        BY DEF Explains
    <2>2. Drift(x, node[x], node'[x]) /\ Keeps(node[x], node'[x])
        BY DEF Drift
    <2>3. Voted(V, x)'
        BY <1>1, <2>1, <2>2, DriftVoted
    <2>4. Stands(M, V, x)' /\ Elected(M, V, x)' /\ Counted(M, V, x)'
        BY <1>1, <1>3, <2>1, <2>2, Carried
    <2> QED
        BY <2>3, <2>4
<1>5. Explains(M, V)'
    BY <1>4 DEF Explains
<1> QED
    BY <1>2, <1>5 DEF ElectInv

LEMMA Entered ==
    ASSUME NEW V \in Books, NEW p \in Server, NEW s \in Server, NEW t \in Nat, Shape,
           \A x \in Server : Voted(V, x),
           node[p].term <= t, node[p].term = t => node[p].vote \in {None, s},
           node'[p].term = t, node'[p].vote = s,
           \A x \in Server \ {p} : Drift(x, node[x], node'[x])
    PROVE  /\ Enter(V, p, t, s) \in Books /\ Extends(V, Enter(V, p, t, s))
           /\ \A x \in Server : Voted(Enter(V, p, t, s), x)'
           /\ Enter(V, p, t, s)[p][t] = s
<1> DEFINE W == Enter(V, p, t, s)
<1>1. /\ W \in Books /\ W[p][t] = s
      /\ \A x \in Server : \A u \in Nat : ~(x = p /\ u = t) => W[x][u] = V[x][u]
    BY DEF Books, Enter
<1>2. node[p].term \in Nat
    BY DEF Shape, NodeShape
<1>3. V[p][t] # None => V[p][t] = s
    BY <1>2 DEF Voted
<1> HIDE DEF W
<1>4. Extends(V, W)
    BY <1>1, <1>3 DEF Extends
<1>5. ASSUME NEW x \in Server PROVE Voted(W, x)'
    <2>1. CASE x = p
        <3> SUFFICES ASSUME NEW u \in Nat, W[p][u] # None
                     PROVE  u <= t /\ (u = t => s = W[p][u])
            BY <2>1 DEF Voted
        <3>1. CASE u = t
            BY <3>1, <1>1
        <3>2. CASE u # t
            <4>1. V[p][u] # None
                BY <3>2, <1>1
            <4>2. u <= node[p].term
                BY <4>1 DEF Voted
            <4> QED
                BY <4>2, <1>2, <3>2
        <3> QED
            BY <3>1, <3>2
    <2>2. CASE x # p
        <3>1. Voted(V, x)'
            BY <2>2, DriftVoted
        <3>2. \A u \in Nat : W[x][u] = V[x][u]
            BY <2>2, <1>1
        <3> QED
            BY <3>1, <3>2 DEF Voted
    <2> QED
        BY <2>1, <2>2
<1> QED
    BY <1>1, <1>4, <1>5 DEF W

-----------------------------------------------------------------------------
(***************************************************************************)
(* The steps that are no part of an election.                              *)
(***************************************************************************)
LEMMA SilentShape ==
    ASSUME NEW c, CallShape(c)
    PROVE  CallShape([c EXCEPT !.live = FALSE])
BY DEF CallShape

LEMMA AnswerShape ==
    ASSUME Shape, NEW c \in calls, NEW reply, reply.term \in Nat
    PROVE  \A d \in Answer(c, reply) : CallShape(d)
<1>1. CallShape(c) /\ \A d \in calls : CallShape(d)
    BY DEF Shape
<1>2. CallShape([c EXCEPT !.reply = reply])
    <2> DEFINE d == [c EXCEPT !.reply = reply]
    <2>1. /\ DOMAIN d = DOMAIN c
          /\ d.kind = c.kind /\ d.from = c.from /\ d.to = c.to
          /\ c.kind = "vote" => d.q = c.q
          /\ c.kind # "vote" => d.term = c.term /\ d.reply = reply
        BY <1>1 DEF CallShape
    <2> HIDE DEF d
    <2>2. CallShape(d)
        BY <1>1, <2>1 DEF CallShape
    <2> QED
        BY <2>2 DEF d
<1> QED
    BY <1>1, <1>2 DEF Answer

LEMMA NobodyMoves ==
    ASSUME NEW M \in SUBSET Server, ElectInv(M), UNCHANGED <<node, round>>,
           \A c \in calls' : CallShape(c)
    PROVE  ElectInv(M)'
<1>1. \A x \in Server : Drift(x, node[x], node'[x])
    BY SelfDrift DEF ElectInv, Shape
<1> QED
    BY <1>1, DriftStep DEF ElectInv, Shape

LEMMA OneMoves ==
    ASSUME NEW M \in SUBSET Server, ElectInv(M), NEW s \in Server, NEW r,
           node' = [node EXCEPT ![s] = r], Drift(s, node[s], r),
           round' = round \/ round' = [round EXCEPT ![s] = None],
           \A c \in calls' : CallShape(c)
    PROVE  ElectInv(M)'
<1>1. DOMAIN node' = Server /\ DOMAIN round' = Server
    BY DEF ElectInv, Shape
<1>2. \A x \in Server : Drift(x, node[x], node'[x])
    BY SelfDrift DEF ElectInv, Shape
<1>3. \A x \in Server : round'[x] \in {round[x], None}
    BY DEF ElectInv, Shape
<1> QED
    BY <1>1, <1>2, <1>3, DriftStep

LEMMA SubmitElect ==
    ASSUME NEW M \in SUBSET Server, ElectInv(M), NEW s \in Server, NEW th, NEW val,
           Submit(s, th, val)
    PROVE  ElectInv(M)'
<1> DEFINE r == [node[s] EXCEPT !.log = AppendTo(@, [term |-> node[s].term, val |-> val])]
<1>1. NodeShape(s, node[s])
    BY DEF ElectInv, Shape
<1>2. Like(node[s], r) /\ DOMAIN r = Fields
    BY <1>1 DEF Like, NodeShape, Fields
<1>3. node' = [node EXCEPT ![s] = Advanced(r)] /\ UNCHANGED <<round, calls>>
    BY DEF Submit
<1> HIDE DEF r
<1>4. Drift(s, node[s], Advanced(r))
    BY <1>1, <1>2, SelfDrift, LikeDrift, AdvancedLike
<1> QED
    BY <1>3, <1>4, OneMoves DEF ElectInv, Shape

LEMMA ClientElect ==
    ASSUME NEW M \in SUBSET Server, ElectInv(M), NEW s \in Server, NEW p \in Server,
           NEW th \in Thread,
           \/ Propose(s) \/ ProposeNoop(s) \/ ProposeSeed(s)
           \/ ChangeConfig(s, p) \/ DriveAdd(s, p)
           \/ SweepSkips(s, th) \/ ProposeConfig(s, th)
           \/ ReturnOk(s, th) \/ ReturnNotLeader(s, th) \/ ReturnTimeout(s, th)
    PROVE  ElectInv(M)'
<1>0. /\ NodeShape(s, node[s]) /\ \A c \in calls : CallShape(c)
      /\ Drift(s, node[s], node[s])
    BY SelfDrift DEF ElectInv, Shape
<1>1. CASE Propose(s) \/ ProposeNoop(s) \/ ProposeSeed(s)
    BY <1>1, SubmitElect DEF Propose, ProposeNoop, ProposeSeed
<1>2. CASE ChangeConfig(s, p)
    BY <1>0, <1>2, NobodyMoves DEF ChangeConfig, CheckConfig
<1>3. CASE DriveAdd(s, p)
    <2>1. /\ node' = [node EXCEPT ![s] = [node[s] EXCEPT !.mayAdd = FALSE]]
          /\ UNCHANGED <<round, calls>>
        BY <1>3 DEF DriveAdd, CheckConfig
    <2>2. Like(node[s], [node[s] EXCEPT !.mayAdd = FALSE])
        BY <1>0 DEF Like, NodeShape, Fields
    <2>3. Drift(s, node[s], [node[s] EXCEPT !.mayAdd = FALSE])
        BY <1>0, <2>2, LikeDrift
    <2> QED
        BY <1>0, <2>1, <2>3, OneMoves
<1>4. CASE SweepSkips(s, th)
    BY <1>0, <1>4, NobodyMoves DEF SweepSkips
<1>5. CASE ProposeConfig(s, th)
    <2>1. CASE Submit(s, th, prop[s][th].val)
        BY <2>1, SubmitElect
    <2>2. CASE UNCHANGED <<node, round, calls>>
        BY <1>0, <2>2, NobodyMoves
    <2> QED
        BY <1>5, <2>1, <2>2 DEF ProposeConfig
<1>6. CASE ReturnOk(s, th) \/ ReturnNotLeader(s, th)
    <2> DEFINE r == Settled(node[s], th, prop[s][th].val.op)
    <2>1. node' = [node EXCEPT ![s] = r] /\ UNCHANGED <<round, calls>>
        BY <1>6 DEF ReturnOk, ReturnNotLeader, Done
    <2>2. Like(node[s], r)
        BY <1>0 DEF Like, NodeShape, Fields, Settled
    <2> HIDE DEF r
    <2>3. Drift(s, node[s], r)
        BY <1>0, <2>2, LikeDrift
    <2> QED
        BY <1>0, <2>1, <2>3, OneMoves
<1>7. CASE ReturnTimeout(s, th)
    <2>1. UNCHANGED <<round, calls>>
        BY <1>7 DEF ReturnTimeout, Done
    <2>2. CASE UNCHANGED node
        BY <1>0, <2>1, <2>2, NobodyMoves
    <2>3. CASE node' = [node EXCEPT ![s].log = TruncateFrom(@, prop[s][th].idx)]
        <3> DEFINE r == [node[s] EXCEPT !.log = TruncateFrom(@, prop[s][th].idx)]
        <3>1. node' = [node EXCEPT ![s] = r]
            BY <2>3
        <3>2. Like(node[s], r)
            BY <1>0 DEF Like, NodeShape, Fields
        <3> HIDE DEF r
        <3>3. Drift(s, node[s], r)
            BY <1>0, <3>2, LikeDrift
        <3> QED
            BY <1>0, <2>1, <3>1, <3>3, OneMoves
    <2> QED
        BY <1>7, <2>2, <2>3 DEF ReturnTimeout
<1> QED
    BY <1>1, <1>2, <1>3, <1>4, <1>5, <1>6, <1>7, Zenon

LEMMA ApplyElect ==
    ASSUME NEW M \in SUBSET Server, ElectInv(M), NEW s \in Server,
           ApplyEntry(s) \/ ApplyBegin(s) \/ ApplyEnd(s) \/ ApplySkips(s)
    PROVE  ElectInv(M)'
<1>0. /\ NodeShape(s, node[s]) /\ \A c \in calls : CallShape(c)
      /\ Drift(s, node[s], node[s])
    BY SelfDrift DEF ElectInv, Shape
<1>1. UNCHANGED <<round, calls>>
    BY DEF ApplyEntry, ApplyBegin, ApplyEnd, ApplySkips
<1>2. CASE ApplyEntry(s)
    <2>1. PICK v, a : node' = [node EXCEPT ![s] = Finished(Configured(node[s], s, v), s, a)]
        BY <1>2 DEF ApplyEntry
    <2>2. Drift(s, node[s], Finished(Configured(node[s], s, v), s, a))
        BY <1>0, ConfiguredDrift, FinishedDrift
    <2> QED
        BY <1>0, <1>1, <2>1, <2>2, OneMoves
<1>3. CASE ApplyBegin(s)
    <2>1. PICK v : node' = [node EXCEPT ![s] = Configured(node[s], s, v)]
        BY <1>3 DEF ApplyBegin
    <2>2. Drift(s, node[s], Configured(node[s], s, v))
        BY <1>0, ConfiguredDrift
    <2> QED
        BY <1>0, <1>1, <2>1, <2>2, OneMoves
<1>4. CASE ApplyEnd(s)
    <2>1. PICK a : node' = [node EXCEPT ![s] = Finished(node[s], s, a)]
        BY <1>4 DEF ApplyEnd
    <2>2. Drift(s, node[s], Finished(node[s], s, a))
        BY <1>0, FinishedDrift
    <2> QED
        BY <1>0, <1>1, <2>1, <2>2, OneMoves
<1>5. CASE ApplySkips(s)
    <2>1. CASE UNCHANGED node
        BY <1>0, <1>1, <2>1, NobodyMoves
    <2>2. CASE node' = [node EXCEPT ![s].applied = Larger(@, node[s].log.snap)]
        <3> DEFINE r == [node[s] EXCEPT !.applied = Larger(@, node[s].log.snap)]
        <3>1. node' = [node EXCEPT ![s] = r]
            BY <2>2
        <3>2. Like(node[s], r)
            BY <1>0 DEF Like, NodeShape, Fields
        <3> HIDE DEF r
        <3>3. Drift(s, node[s], r)
            BY <1>0, <3>2, LikeDrift
        <3> QED
            BY <1>0, <1>1, <3>1, <3>3, OneMoves
    <2> QED
        BY <1>5, <2>1, <2>2 DEF ApplySkips
<1> QED
    BY <1>2, <1>3, <1>4, <1>5

LEMMA NodeElect ==
    ASSUME NEW M \in SUBSET Server, M # {}, Members(M), ElectInv(M), NEW s \in Server,
           \/ RebuildPeers(s) \/ Discover(s) \/ CheckQuorum(s)
           \/ FinishSnapshot(s) \/ Restart(s)
    PROVE  ElectInv(M)'
<1>0. /\ NodeShape(s, node[s]) /\ \A c \in calls : CallShape(c)
      /\ Drift(s, node[s], node[s])
    BY SelfDrift DEF ElectInv, Shape
<1>1. CASE RebuildPeers(s)
    <2> DEFINE r == Rebuilt(node[s], M \ {s})
    <2>1. WantedPeers(s) = M \ {s}
        BY DEF WantedPeers, Members
    <2>2. node' = [node EXCEPT ![s] = r] /\ node[s].role = "leader" /\ UNCHANGED <<round, calls>>
        BY <1>1, <2>1 DEF RebuildPeers
    <2>3. node[s].peers = M \ {s}
        BY <2>2 DEF ElectInv, Explains, Stands
    <2>4. Like(node[s], r)
        BY <1>0, <2>3 DEF Like, NodeShape, Fields, Rebuilt
    <2> HIDE DEF r
    <2>5. Drift(s, node[s], r)
        BY <1>0, <2>4, LikeDrift
    <2> QED
        BY <1>0, <2>2, <2>5, OneMoves
<1>2. CASE Discover(s)
    BY <1>0, <1>2, NobodyMoves DEF Discover
<1>3. CASE CheckQuorum(s)
    <2>1. /\ node' = [node EXCEPT ![s] = Follower(node[s], node[s].term)]
          /\ UNCHANGED <<round, calls>>
        BY <1>3 DEF CheckQuorum
    <2>2. Drift(s, node[s], Follower(node[s], node[s].term))
        BY <1>0, FollowerDrift DEF NodeShape
    <2> QED
        BY <1>0, <2>1, <2>2, OneMoves
<1>4. CASE FinishSnapshot(s)
    <2> DEFINE c == install[s]
               r == Installed(node[s], c)
    <2>1. /\ node' = [node EXCEPT ![s] = r] /\ UNCHANGED round
          /\ calls' = IF c \in calls THEN Answer(c, [term |-> r.term])
                      ELSE calls \ {[c EXCEPT !.live = FALSE]}
        BY <1>4 DEF FinishSnapshot
    <2>2. Like(node[s], r)
        BY <1>0 DEF Like, NodeShape, Fields, Installed
    <2> HIDE DEF r, c
    <2>3. Drift(s, node[s], r)
        BY <1>0, <2>2, LikeDrift
    <2>4. r.term \in Nat
        BY <2>3 DEF Drift, NodeShape
    <2>5. \A d \in calls' : CallShape(d)
        <3>1. CASE c \in calls
            <4>1. [term |-> r.term].term \in Nat
                BY <2>4
            <4>2. Shape
                BY DEF ElectInv
            <4>3. \A d \in Answer(c, [term |-> r.term]) : CallShape(d)
                BY <3>1, <4>1, <4>2, AnswerShape
            <4> QED
                BY <2>1, <3>1, <4>3
        <3>2. CASE c \notin calls
            BY <1>0, <2>1, <3>2
        <3> QED
            BY <3>1, <3>2
    <2> QED
        BY <2>1, <2>3, <2>5, OneMoves
<1>5. CASE Restart(s)
    <2> DEFINE r == Reopened(node[s])
    <2>1. /\ node' = [node EXCEPT ![s] = r] /\ round' = [round EXCEPT ![s] = None]
        BY <1>5 DEF Restart
    <2>2. Like(Passive(node[s]), r)
        <3> DEFINE g == Passive(node[s])
        <3>1. DOMAIN g = Fields
            BY <1>0, PassiveDrift DEF Drift, NodeShape
        <3>2. r = [g EXCEPT !.commit = node[s].log.snap, !.applied = node[s].log.snap,
                       !.noop = FALSE, !.seed = FALSE, !.removed = {}]
            BY DEF Reopened
        <3> HIDE DEF g, r
        <3>3. Like(g, r)
            BY <3>1, <3>2 DEF Like, Fields
        <3> QED
            BY <3>3 DEF g
    <2> HIDE DEF r
    <2>3. Drift(s, node[s], r)
        BY <1>0, <2>2, PassiveDrift, LikeDrift
    <2>4. \A c \in calls' : c \in calls \/ \E d \in calls : c = [d EXCEPT !.live = FALSE]
        BY <1>5 DEF Restart
    <2>5. \A c \in calls' : CallShape(c)
        BY <1>0, <2>4, SilentShape
    <2> QED
        BY <2>1, <2>3, <2>5, OneMoves
<1> QED
    BY <1>1, <1>2, <1>3, <1>4, <1>5

LEMMA SendElect ==
    ASSUME NEW M \in SUBSET Server, ElectInv(M), NEW s \in Server, NEW p \in Server,
           NEW th \in Thread, SendAppend(s, th, p) \/ SendSnapshot(s, th, p)
    PROVE  ElectInv(M)'
<1>0. node[s].term \in Nat /\ \A c \in calls : CallShape(c)
    BY DEF ElectInv, Shape, NodeShape
<1>1. UNCHANGED <<node, round>>
    BY DEF SendAppend, SendSnapshot
<1>2. \A c \in calls' : CallShape(c)
    <2>1. CASE SendAppend(s, th, p)
        <3>1. PICK prev, prevTerm, ents, commit :
                calls' = calls \union
                  {[kind |-> "append", from |-> s, thread |-> th, to |-> p, live |-> TRUE,
                    term |-> node[s].term, prev |-> prev, prevTerm |-> prevTerm,
                    ents |-> ents, commit |-> commit, reply |-> None]}
            BY <2>1 DEF SendAppend
        <3>2. CallShape([kind |-> "append", from |-> s, thread |-> th, to |-> p, live |-> TRUE,
                    term |-> node[s].term, prev |-> prev, prevTerm |-> prevTerm,
                    ents |-> ents, commit |-> commit, reply |-> None])
            BY <1>0 DEF CallShape
        <3> QED
            BY <1>0, <3>1, <3>2
    <2>2. CASE SendSnapshot(s, th, p)
        <3>1. PICK idx, idxTerm, body :
                calls' = calls \union
                  {[kind |-> "snap", from |-> s, thread |-> th, to |-> p, live |-> TRUE,
                    term |-> node[s].term, idx |-> idx, idxTerm |-> idxTerm,
                    body |-> body, reply |-> None]}
            BY <2>2 DEF SendSnapshot
        <3>2. CallShape([kind |-> "snap", from |-> s, thread |-> th, to |-> p, live |-> TRUE,
                    term |-> node[s].term, idx |-> idx, idxTerm |-> idxTerm,
                    body |-> body, reply |-> None])
            BY <1>0 DEF CallShape
        <3> QED
            BY <1>0, <3>1, <3>2
    <2> QED
        BY <2>1, <2>2
<1> QED
    BY <1>1, <1>2, NobodyMoves

LEMMA CallElect ==
    ASSUME NEW M \in SUBSET Server, ElectInv(M), NEW c \in calls,
           \/ HandleAppend(c) \/ MergeAppend(c) \/ CallTimesOut(c)
           \/ HandleSnapshot(c) \/ MergeSnapshot(c)
    PROVE  ElectInv(M)'
<1>0. /\ Shape /\ CallShape(c) /\ c.from \in Server /\ c.to \in Server
      /\ \A d \in calls : CallShape(d)
      /\ NodeShape(c.from, node[c.from]) /\ NodeShape(c.to, node[c.to])
    BY DEF ElectInv, Shape, CallShape
<1>1. CASE HandleAppend(c)
    <2> DEFINE a == Appended(node[c.to], c)
    <2>1. /\ node' = [node EXCEPT ![c.to] = a.node] /\ UNCHANGED round
          /\ calls' = Answer(c, a.reply) /\ c.kind = "append"
        BY <1>1 DEF HandleAppend
    <2>2. Drift(c.to, node[c.to], a.node) /\ a.reply.term \in Nat
        BY <1>0, <2>1, AppendedDrift DEF CallShape
    <2> HIDE DEF a
    <2>3. \A d \in calls' : CallShape(d)
        BY <1>0, <2>1, <2>2, AnswerShape
    <2> QED
        BY <1>0, <2>1, <2>2, <2>3, OneMoves
<1>2. CASE MergeAppend(c)
    <2>1. /\ node' = [node EXCEPT ![c.from] = Merged(node[c.from], c)] /\ UNCHANGED round
          /\ calls' = calls \ {c} /\ c.kind = "append" /\ c.reply # None
        BY <1>2 DEF MergeAppend
    <2>2. Drift(c.from, node[c.from], Merged(node[c.from], c))
        BY <1>0, <2>1, MergedDrift DEF CallShape
    <2> QED
        BY <1>0, <2>1, <2>2, OneMoves
<1>3. CASE CallTimesOut(c)
    <2>1. /\ UNCHANGED <<node, round>>
          /\ calls' \subseteq calls \union {[c EXCEPT !.live = FALSE]}
        BY <1>3 DEF CallTimesOut
    <2>2. \A d \in calls' : CallShape(d)
        BY <1>0, <2>1, SilentShape
    <2> QED
        BY <2>1, <2>2, NobodyMoves
<1>4. CASE HandleSnapshot(c)
    <2> DEFINE f == IF c.term < node[c.to].term THEN node[c.to]
                    ELSE HeardFrom(node[c.to], c.term)
    <2>1. /\ node' = [node EXCEPT ![c.to] = f] /\ UNCHANGED round
          /\ calls' = Answer(c, [term |-> f.term]) \/ calls' = calls
          /\ c.kind = "snap"
        BY <1>4 DEF HandleSnapshot
    <2>2. Drift(c.to, node[c.to], f)
        BY <1>0, <2>1, SelfDrift, HeardFromDrift DEF CallShape
    <2> HIDE DEF f
    <2>3. [term |-> f.term].term \in Nat
        BY <2>2 DEF Drift, NodeShape
    <2>4. \A d \in Answer(c, [term |-> f.term]) : CallShape(d)
        BY <1>0, <2>3, AnswerShape
    <2>5. \A d \in calls' : CallShape(d)
        BY <1>0, <2>1, <2>4
    <2> QED
        BY <1>0, <2>1, <2>2, <2>5, OneMoves
<1>5. CASE MergeSnapshot(c)
    <2>1. /\ node' = [node EXCEPT ![c.from] = SnapshotMerged(node[c.from], c)]
          /\ UNCHANGED round /\ calls' = calls \ {c} /\ c.kind = "snap" /\ c.reply # None
        BY <1>5 DEF MergeSnapshot
    <2>2. Drift(c.from, node[c.from], SnapshotMerged(node[c.from], c))
        BY <1>0, <2>1, SnapshotMergedDrift DEF CallShape
    <2> QED
        BY <1>0, <2>1, <2>2, OneMoves
<1> QED
    BY <1>1, <1>2, <1>3, <1>4, <1>5

-----------------------------------------------------------------------------
(***************************************************************************)
(* Elections.                                                              *)
(***************************************************************************)
LEMMA SomeMember ==
    ASSUME NEW S \in SUBSET Server, S # {}
    PROVE  IsFiniteSet(S) /\ Cardinality(S) \in Nat /\ Cardinality(S) >= 1
<1>1. IsFiniteSet(S)
    BY RaftAssumption, FS_Subset
<1>2. Cardinality(S) \in Nat /\ Cardinality(S) # 0
    BY <1>1, FS_CardinalityType, FS_EmptySet
<1> QED
    BY <1>1, <1>2

\* The quorum of a member that asks all the others is a majority of M.
LEMMA QuorumOfMembers ==
    ASSUME NEW M \in SUBSET Server, NEW s \in M, NEW r, r.peers = M \ {s}
    PROVE  Cardinality(M) \in Nat /\ Quorum(r) = Cardinality(M) \div 2 + 1
<1>1. IsFiniteSet(M) /\ Cardinality(M) \in Nat
    BY SomeMember
<1>2. Cardinality(M \ {s}) = Cardinality(M) - 1
    BY <1>1, FS_RemoveElement
<1>3. Cardinality(M \ {s}) + 1 = Cardinality(M)
    BY <1>1, <1>2
<1> QED
    BY <1>1, <1>3 DEF Quorum

\* A step of the round of s, with a book that explains it.
LEMMA RoundStep ==
    ASSUME NEW M \in SUBSET Server, Shape, Shape', NEW V \in Books, Explains(M, V),
           NEW W \in Books, Extends(V, W), \A x \in Server : Voted(W, x)',
           NEW s \in Server,
           \A x \in Server \ {s} : Keeps(node[x], node'[x]) /\ round'[x] = round[x],
           Stands(M, W, s)', Counted(M, W, s)', Elected(M, W, s)'
    PROVE  ElectInv(M)'
<1>1. ASSUME NEW x \in Server, x # s
      PROVE  Stands(M, W, x)' /\ Counted(M, W, x)' /\ Elected(M, W, x)'
    <2>1. /\ Keeps(node[x], node'[x]) /\ round'[x] \in {round[x], None}
          /\ Stands(M, V, x) /\ Counted(M, V, x) /\ Elected(M, V, x)
        BY <1>1 DEF Explains
    <2> QED
        BY <2>1, Carried
<1>2. \A x \in Server : Stands(M, W, x)' /\ Counted(M, W, x)' /\ Elected(M, W, x)'
    BY <1>1
<1>3. Explains(M, W)'
    BY <1>2 DEF Explains
<1> QED
    BY <1>3 DEF ElectInv

LEMMA RebuiltNode ==
    ASSUME NEW s, NEW r, NodeShape(s, r), NEW wanted \in SUBSET Server, s \notin wanted
    PROVE  /\ NodeShape(s, Rebuilt(r, wanted)) /\ Rebuilt(r, wanted).peers = wanted
           /\ Rebuilt(r, wanted).term = r.term
<1> DEFINE g == Rebuilt(r, wanted)
<1>1. /\ DOMAIN g = Fields /\ g.role = r.role /\ g.term = r.term /\ g.vote = r.vote
      /\ g.peers = wanted
    BY DEF NodeShape, Fields, Rebuilt
<1> HIDE DEF g
<1>2. NodeShape(s, g)
    BY <1>1 DEF NodeShape
<1> QED
    BY <1>1, <1>2 DEF g

\* A pre-vote round makes candidates of members only: no member grants one to
\* anybody else.
LEMMA PreVoteMember ==
    ASSUME NEW M \in SUBSET Server, M # {}, Members(M), Shape, NEW s \in Server,
           PreVote(s)
    PROVE  s \in M
<1> SUFFICES ASSUME s \notin M PROVE FALSE
    OBVIOUS
<1> DEFINE r == Rebuilt(node[s], WantedPeers(s))
           q == Round("pre", r, r.term + 1)
           G == {p \in r.peers : MayGrantPreVote(node[p], s, q)}
<1>1. Cardinality(G) + 1 >= Quorum(r)
    BY DEF PreVote
<1>2. WantedPeers(s) = M
    BY DEF WantedPeers, Members
<1>3. r.peers = M
    BY <1>2, RebuiltNode DEF Shape
<1> HIDE DEF r, q
<1>4. G = {}
    BY <1>3 DEF MayGrantPreVote, IsMember, Members
<1>5. Cardinality(G) = 0
    BY <1>4, FS_EmptySet
<1>6. Cardinality(M) \in Nat /\ Cardinality(M) >= 1
    BY SomeMember
<1> DEFINE n == Cardinality(M)
<1>7. Quorum(r) = (n + 1) \div 2 + 1
    BY <1>3 DEF Quorum
<1> HIDE DEF n
<1>8. n \in Nat /\ n >= 1
    BY <1>6 DEF n
<1>9. (n + 1) \div 2 + 1 >= 2
    BY <1>8
<1> QED
    BY <1>1, <1>5, <1>7, <1>8, <1>9

LEMMA PreVoteElect ==
    ASSUME NEW M \in SUBSET Server, M # {}, Members(M), ElectInv(M), NEW s \in Server,
           PreVote(s)
    PROVE  ElectInv(M)'
<1> DEFINE r == Rebuilt(node[s], WantedPeers(s))
           q == Round("pre", r, r.term + 1)
           r2 == [r EXCEPT !.term = @ + 1, !.vote = s, !.role = "candidate"]
<1>1. Shape
    BY DEF ElectInv
<1>2. PICK t \in Nat : t = node[s].term + 1 /\ node[s].term \in Nat
    BY <1>1 DEF Shape, NodeShape
<1>3. PICK V \in Books : Explains(M, V)
    BY DEF ElectInv
<1>4. s \in M
    BY <1>1, PreVoteMember
<1>5. WantedPeers(s) = M \ {s}
    BY DEF WantedPeers, Members
<1>6. NodeShape(s, r) /\ r.peers = M \ {s} /\ r.term = node[s].term
    BY <1>1, <1>5, RebuiltNode DEF Shape
<1>7. /\ node' = [node EXCEPT ![s] = r2] /\ round' = [round EXCEPT ![s] = q]
      /\ UNCHANGED calls
    BY DEF PreVote
<1> HIDE DEF r
<1>8. /\ DOMAIN r2 = Fields /\ r2.role = "candidate" /\ r2.term = t
      /\ r2.vote = s /\ r2.peers = M \ {s}
    BY <1>6, <1>2 DEF NodeShape, Fields
<1>9. NodeShape(s, r2)
    BY <1>8, <1>2 DEF NodeShape, Roles
<1>10. RoundShape(s, q) /\ q.kind = "pre"
    BY <1>6, <1>2 DEF Round, RoundShape
<1> HIDE DEF r2, q
<1>11. /\ node'[s] = r2 /\ round'[s] = q
       /\ \A x \in Server \ {s} : node'[x] = node[x] /\ round'[x] = round[x]
       /\ DOMAIN node' = Server /\ DOMAIN round' = Server
    BY <1>1, <1>7 DEF Shape
<1>12. Shape'
    BY <1>1, <1>7, <1>9, <1>10, <1>11 DEF Shape
<1>13. \A x \in Server \ {s} : Drift(x, node[x], node'[x])
    BY <1>1, <1>11, SelfDrift DEF Shape
<1>14. /\ node[s].term <= t /\ (node[s].term = t => node[s].vote \in {None, s})
       /\ node'[s].term = t /\ node'[s].vote = s
    BY <1>8, <1>2, <1>11
<1>15. \A x \in Server : Voted(V, x)
    BY <1>3 DEF Explains
<1>16. PICK W \in Books : /\ Extends(V, W) /\ W[s][t] = s
                          /\ \A x \in Server : Voted(W, x)'
    BY <1>1, <1>2, <1>13, <1>14, <1>15, Entered
<1>17. Stands(M, W, s)' /\ Counted(M, W, s)' /\ Elected(M, W, s)'
    BY <1>4, <1>8, <1>10, <1>11, <1>16 DEF Stands, Counted, Elected
<1>18. \A x \in Server \ {s} : Keeps(node[x], node'[x]) /\ round'[x] = round[x]
    BY <1>11, <1>13 DEF Drift
<1> QED
    BY <1>1, <1>3, <1>12, <1>16, <1>17, <1>18, RoundStep

LEMMA StartElectionElect ==
    ASSUME NEW M \in SUBSET Server, ElectInv(M), NEW s \in Server, StartElection(s)
    PROVE  ElectInv(M)'
<1> DEFINE q == Round("vote", node[s], node[s].term)
           t == node[s].term
<1>1. Shape /\ NodeShape(s, node[s])
    BY DEF ElectInv, Shape
<1>2. PICK V \in Books : Explains(M, V)
    BY DEF ElectInv
<1>3. UNCHANGED <<node, calls>> /\ round' = [round EXCEPT ![s] = q]
    BY DEF StartElection
<1>4. /\ RoundShape(s, q) /\ q.todo = node[s].peers /\ q.granted = 1 /\ q.kind = "vote"
    BY <1>1 DEF Round, RoundShape, NodeShape
<1> HIDE DEF q
<1>5. /\ round'[s] = q /\ DOMAIN round' = Server
      /\ \A x \in Server \ {s} : round'[x] = round[x]
    BY <1>1, <1>3 DEF Shape
<1>6. Shape'
    BY <1>1, <1>3, <1>4, <1>5 DEF Shape
<1>7. Voted(V, s) /\ Stands(M, V, s) /\ Counted(M, V, s) /\ Elected(M, V, s)
    BY <1>2 DEF Explains
<1>8. Extends(V, V) /\ \A x \in Server : Keeps(node[x], node'[x])
    BY <1>3 DEF Extends, Keeps
<1>9. \A x \in Server : Voted(V, x)'
    BY <1>2, <1>3 DEF Explains, Voted
<1>10. Stands(M, V, s)' /\ Elected(M, V, s)'
    BY <1>1, <1>7, <1>8, Carried
<1>11. Counted(M, V, s)'
    <2>1. Counted(M, V, s)' =
            (node[s].role = "candidate" /\ q # None /\ q.kind = "vote" /\ q.term = t =>
                q.todo \subseteq M /\ q.granted <= Cardinality(Backers(M, V, t, s) \ q.todo))
        BY <1>3, <1>5 DEF Counted, Backers
    <2> SUFFICES ASSUME node[s].role = "candidate"
                 PROVE  /\ q.todo \subseteq M
                        /\ q.granted <= Cardinality(Backers(M, V, t, s) \ q.todo)
        BY <2>1
    <2>2. s \in M /\ node[s].peers = M \ {s} /\ V[s][t] = s
        BY <1>7 DEF Stands
    <2> DEFINE B == Backers(M, V, t, s) \ (M \ {s})
    <2>3. B \in SUBSET Server /\ s \in B
        BY <2>2 DEF Backers
    <2> HIDE DEF B
    <2>4. Cardinality(B) >= 1
        BY <2>3, SomeMember
    <2> QED
        BY <1>4, <2>2, <2>4 DEF B
<1> QED
    BY <1>1, <1>2, <1>5, <1>6, <1>8, <1>9, <1>10, <1>11, RoundStep

\* send_request_vote adds the peer to those counted only with its vote.
LEMMA OneMoreBacker ==
    ASSUME NEW M \in SUBSET Server, NEW V \in Books, NEW W \in Books, Extends(V, W),
           NEW s \in Server, NEW t \in Nat, NEW D \in SUBSET M, NEW p \in D
    PROVE  /\ Cardinality(Backers(M, V, t, s) \ D) \in Nat
           /\ Cardinality(Backers(M, W, t, s) \ (D \ {p})) \in Nat
           /\ Cardinality(Backers(M, V, t, s) \ D)
                 <= Cardinality(Backers(M, W, t, s) \ (D \ {p}))
           /\ W[p][t] = s => Cardinality(Backers(M, V, t, s) \ D) + 1
                                <= Cardinality(Backers(M, W, t, s) \ (D \ {p}))
<1> DEFINE B == Backers(M, V, t, s) \ D
           C == Backers(M, W, t, s) \ (D \ {p})
<1>1. B \subseteq C /\ C \subseteq Server /\ p \notin B
    BY RaftAssumption DEF Backers, Extends
<1>2. W[p][t] = s => B \union {p} \subseteq C
    BY <1>1 DEF Backers
<1> HIDE DEF B, C
<1>3. IsFiniteSet(C) /\ IsFiniteSet(B) /\ Cardinality(B) <= Cardinality(C)
    BY <1>1, RaftAssumption, FS_Subset
<1>4. Cardinality(B) \in Nat /\ Cardinality(C) \in Nat
    BY <1>3, FS_CardinalityType
<1>5. Cardinality(B \union {p}) = Cardinality(B) + 1
    BY <1>1, <1>3, FS_AddElement
<1>6. W[p][t] = s => Cardinality(B) + 1 <= Cardinality(C)
    BY <1>2, <1>3, <1>5, FS_Subset
<1> QED
    BY <1>3, <1>4, <1>6 DEF B, C

\* The count of a round after one peer is done with.
LEMMA CountedAfter ==
    ASSUME NEW M \in SUBSET Server, Shape, NEW s \in Server, NEW p,
           NEW V \in Books, NEW W \in Books, Extends(V, W), Counted(M, V, s),
           round[s] # None, p \in round[s].todo,
           Keeps(node[s], node'[s]),
           round'[s].kind = round[s].kind, round'[s].term = round[s].term,
           round'[s].todo = round[s].todo \ {p},
           \/ round'[s].granted = round[s].granted
           \/ round'[s].granted = round[s].granted + 1 /\ W[p][round[s].term] = s
    PROVE  Counted(M, W, s)'
<1> DEFINE q == round[s]
           t == node[s].term
<1>1. Counted(M, W, s)' =
            (node'[s].role = "candidate" /\ round'[s] # None /\ round'[s].kind = "vote"
                /\ round'[s].term = node'[s].term =>
                /\ round'[s].todo \subseteq M
                /\ round'[s].granted <=
                      Cardinality(Backers(M, W, node'[s].term, s) \ round'[s].todo))
    BY DEF Counted, Backers
<1>2. node'[s].role = "candidate" => node[s].role = "candidate" /\ node'[s].term = t
    BY DEF Keeps
<1> SUFFICES ASSUME node[s].role = "candidate", q.kind = "vote", q.term = t
             PROVE  /\ q.todo \ {p} \subseteq M
                    /\ round'[s].granted <= Cardinality(Backers(M, W, t, s) \ (q.todo \ {p}))
    BY <1>1, <1>2
<1>3. q.todo \subseteq M /\ q.granted <= Cardinality(Backers(M, V, t, s) \ q.todo)
    BY DEF Counted
<1>4. t \in Nat /\ q.granted \in Nat
    BY DEF Shape, NodeShape, RoundShape
<1> DEFINE a == Cardinality(Backers(M, V, t, s) \ q.todo)
           b == Cardinality(Backers(M, W, t, s) \ (q.todo \ {p}))
<1>5. a \in Nat /\ b \in Nat /\ a <= b /\ (W[p][t] = s => a + 1 <= b)
    BY <1>3, <1>4, OneMoreBacker
<1> HIDE DEF a, b
<1>6. q.granted <= a
    BY <1>3 DEF a
<1>7. round'[s].granted <= b
    BY <1>4, <1>5, <1>6
<1> QED
    BY <1>3, <1>7 DEF b

LEMMA RequestVoteElect ==
    ASSUME NEW M \in SUBSET Server, ElectInv(M), NEW s \in Server, NEW p \in Server,
           RequestVote(s, p)
    PROVE  ElectInv(M)'
<1> DEFINE q == round[s]
           v == Voter(node[p], s, q)
           f == SteppedDown(node[s], v.node.term)
           q2 == [q EXCEPT !.todo = @ \ {p},
                           !.granted = IF v.granted /\ v.node.term <= node[s].term
                                       THEN @ + 1 ELSE @]
<1>1. Shape /\ NodeShape(s, node[s]) /\ NodeShape(p, node[p])
    BY DEF ElectInv, Shape
<1>2. PICK V \in Books : Explains(M, V)
    BY DEF ElectInv
<1>3. /\ q # None /\ q.kind = "vote" /\ p \in q.todo
      /\ node' = [node EXCEPT ![p] = v.node, ![s] = f]
      /\ round' = [round EXCEPT ![s] = q2] /\ UNCHANGED calls
    BY DEF RequestVote
<1>4. RoundShape(s, q) /\ p # s
    BY <1>1, <1>3 DEF Shape, RoundShape
<1>5. PICK t \in Nat : q.term = t
    BY <1>4 DEF RoundShape
<1> HIDE DEF v
<1>0. Answered(p, node[p], s, t, v)
    <2>1. PICK r, w, z : r = node[p] /\ w = v /\ z = q
        OBVIOUS
    <2>2. NodeShape(p, r) /\ z.term = t
        BY <1>1, <1>5, <2>1
    <2>3. w = Voter(r, s, z)
        BY <2>1 DEF v
    <2>4. Answered(p, r, s, t, w)
        BY <2>2, <2>3, VoterVotes
    <2> QED
        BY <2>1, <2>4
<1>6. /\ NodeShape(p, v.node) /\ Keeps(node[p], v.node) /\ v.node.term >= node[p].term
      /\ v.granted => /\ v.node.term = t /\ v.node.vote = s
                      /\ node[p].term = t => node[p].vote \in {None, s}
      /\ ~v.granted => Drift(p, node[p], v.node)
    BY <1>0 DEF Answered
<1>7. /\ DOMAIN node' = Server /\ node'[p] = v.node /\ node'[s] = f
      /\ \A x \in Server \ {s, p} : node'[x] = node[x]
    BY <1>1, <1>3, <1>4 DEF Shape
<1>8. Drift(s, node[s], f)
    BY <1>1, <1>6, FollowerDrift, SelfDrift DEF NodeShape, SteppedDown
<1>9. /\ RoundShape(s, q2) /\ q2.kind = q.kind /\ q2.term = q.term
      /\ q2.todo = q.todo \ {p}
      /\ q2.granted = IF v.granted /\ v.node.term <= node[s].term
                      THEN q.granted + 1 ELSE q.granted
    BY <1>4 DEF RoundShape
<1> HIDE DEF f, q2
<1>10. /\ DOMAIN round' = Server /\ round'[s] = q2
       /\ \A x \in Server \ {s} : round'[x] = round[x]
    BY <1>1, <1>3 DEF Shape
<1>11. \A x \in Server \ {p} : Drift(x, node[x], node'[x])
    BY <1>1, <1>7, <1>8, SelfDrift DEF Shape
<1>12. Shape'
    <2>1. \A x \in Server : NodeShape(x, node'[x])
        BY <1>6, <1>7, <1>11 DEF Drift
    <2> QED
        BY <1>1, <1>3, <1>7, <1>9, <1>10, <2>1 DEF Shape
<1>13. \A x \in Server : Voted(V, x)
    BY <1>2 DEF Explains
<1>14. PICK W \in Books : /\ Extends(V, W) /\ \A x \in Server : Voted(W, x)'
                          /\ v.granted => W[p][t] = s
    <2>1. CASE v.granted
        <3>1. /\ node[p].term <= t /\ (node[p].term = t => node[p].vote \in {None, s})
              /\ node'[p].term = t /\ node'[p].vote = s
            BY <1>1, <1>6, <1>7, <2>1 DEF NodeShape
        <3> QED
            BY <1>1, <1>11, <1>13, <3>1, Entered
    <2>2. CASE ~v.granted
        <3>1. \A x \in Server : Voted(V, x)'
            BY <1>1, <1>6, <1>7, <1>11, <1>13, <2>2, DriftVoted
        <3> QED
            BY <2>2, <3>1 DEF Extends
    <2> QED
        BY <2>1, <2>2
<1>15. \A x \in Server : Keeps(node[x], node'[x])
    BY <1>6, <1>7, <1>11 DEF Drift
<1>16. Stands(M, V, s) /\ Counted(M, V, s) /\ Elected(M, V, s)
    BY <1>2 DEF Explains
<1>17. Stands(M, W, s)' /\ Elected(M, W, s)'
    BY <1>1, <1>14, <1>15, <1>16, Carried
<1>18. Counted(M, W, s)'
    <2>1. \/ round'[s].granted = round[s].granted
          \/ round'[s].granted = round[s].granted + 1 /\ W[p][round[s].term] = s
        BY <1>5, <1>9, <1>10, <1>14
    <2> QED
        BY <1>1, <1>3, <1>9, <1>10, <1>14, <1>15, <1>16, <2>1, CountedAfter
<1> QED
    BY <1>1, <1>2, <1>10, <1>12, <1>14, <1>15, <1>17, <1>18, RoundStep

LEMMA VoteTimeoutElect ==
    ASSUME NEW M \in SUBSET Server, ElectInv(M), NEW s \in Server, NEW p \in Server,
           RequestVoteTimesOut(s, p)
    PROVE  ElectInv(M)'
<1> DEFINE q == round[s]
           q2 == [q EXCEPT !.todo = @ \ {p}]
           q0 == [q EXCEPT !.todo = {}, !.granted = 0]
           c == [kind |-> "vote", from |-> s, to |-> p, live |-> FALSE, q |-> q0]
<1>1. Shape
    BY DEF ElectInv
<1>2. PICK V \in Books : Explains(M, V)
    BY DEF ElectInv
<1>3. /\ q # None /\ p \in q.todo /\ UNCHANGED node
      /\ round' = [round EXCEPT ![s] = q2] /\ calls' \subseteq calls \union {c}
    BY DEF RequestVoteTimesOut
<1>4. RoundShape(s, q)
    BY <1>1, <1>3 DEF Shape
<1>5. /\ RoundShape(s, q2) /\ q2.kind = q.kind /\ q2.term = q.term
      /\ q2.todo = q.todo \ {p} /\ q2.granted = q.granted
    BY <1>4 DEF RoundShape
<1>6. q0.term \in Nat
    BY <1>4 DEF RoundShape
<1> HIDE DEF q2, q0
<1>7. CallShape(c)
    BY <1>6 DEF CallShape
<1> HIDE DEF c
<1>8. /\ DOMAIN round' = Server /\ round'[s] = q2
      /\ \A x \in Server \ {s} : round'[x] = round[x]
    BY <1>1, <1>3 DEF Shape
<1>9. Shape'
    BY <1>1, <1>3, <1>5, <1>7, <1>8 DEF Shape
<1>10. Extends(V, V) /\ \A x \in Server : Keeps(node[x], node'[x])
    BY <1>3 DEF Extends, Keeps
<1>11. \A x \in Server : Voted(V, x)'
    BY <1>2, <1>3 DEF Explains, Voted
<1>12. Stands(M, V, s) /\ Counted(M, V, s) /\ Elected(M, V, s)
    BY <1>2 DEF Explains
<1>13. Stands(M, V, s)' /\ Elected(M, V, s)'
    BY <1>1, <1>10, <1>12, Carried
<1>14. Counted(M, V, s)'
    BY <1>1, <1>3, <1>5, <1>8, <1>10, <1>12, CountedAfter
<1> QED
    BY <1>1, <1>2, <1>8, <1>9, <1>10, <1>11, <1>13, <1>14, RoundStep

\* A vote asked for in a round that is over is still a vote.
LEMMA LateVoteElect ==
    ASSUME NEW M \in SUBSET Server, ElectInv(M), NEW c \in calls, LateVote(c)
    PROVE  ElectInv(M)'
<1> DEFINE v == Voter(node[c.to], c.from, c.q)
<1>1. /\ Shape /\ CallShape(c) /\ c.kind = "vote"
      /\ node' = [node EXCEPT ![c.to] = v.node] /\ UNCHANGED round
      /\ calls' \subseteq calls
    BY DEF ElectInv, Shape, LateVote
<1>2. PICK p \in Server, s \in Server, t \in Nat : c.to = p /\ c.from = s /\ c.q.term = t
    BY <1>1 DEF CallShape
<1>3. PICK V \in Books : Explains(M, V)
    BY DEF ElectInv
<1>4. NodeShape(p, node[p])
    BY <1>1 DEF Shape
<1> HIDE DEF v
<1>0. Answered(p, node[p], s, t, v)
    <2>1. PICK r, w, z : r = node[p] /\ w = v /\ z = c.q
        OBVIOUS
    <2>2. NodeShape(p, r) /\ z.term = t
        BY <1>2, <1>4, <2>1
    <2>3. w = Voter(r, s, z)
        BY <1>2, <2>1 DEF v
    <2>4. Answered(p, r, s, t, w)
        BY <2>2, <2>3, VoterVotes
    <2> QED
        BY <2>1, <2>4
<1>5. /\ NodeShape(p, v.node) /\ Keeps(node[p], v.node) /\ v.node.term >= node[p].term
      /\ v.granted => /\ v.node.term = t /\ v.node.vote = s
                      /\ node[p].term = t => node[p].vote \in {None, s}
      /\ ~v.granted => Drift(p, node[p], v.node)
    BY <1>0 DEF Answered
<1>6. /\ DOMAIN node' = Server /\ node'[p] = v.node
      /\ \A x \in Server \ {p} : node'[x] = node[x]
    BY <1>1, <1>2 DEF Shape
<1>7. \A x \in Server \ {p} : Drift(x, node[x], node'[x])
    BY <1>1, <1>6, SelfDrift DEF Shape
<1>8. Shape'
    <2>1. \A x \in Server : NodeShape(x, node'[x])
        BY <1>5, <1>6, <1>7 DEF Drift
    <2> QED
        BY <1>1, <1>6, <2>1 DEF Shape
<1>9. \A x \in Server : Voted(V, x)
    BY <1>3 DEF Explains
<1>10. PICK W \in Books : Extends(V, W) /\ \A x \in Server : Voted(W, x)'
    <2>1. CASE v.granted
        <3>1. /\ node[p].term <= t /\ (node[p].term = t => node[p].vote \in {None, s})
              /\ node'[p].term = t /\ node'[p].vote = s
            BY <1>4, <1>5, <1>6, <2>1 DEF NodeShape
        <3> QED
            BY <1>1, <1>7, <1>9, <3>1, Entered
    <2>2. CASE ~v.granted
        <3>1. \A x \in Server : Voted(V, x)'
            BY <1>1, <1>5, <1>6, <1>7, <1>9, <2>2, DriftVoted
        <3> QED
            BY <3>1 DEF Extends
    <2> QED
        BY <2>1, <2>2
<1>11. \A x \in Server : Keeps(node[x], node'[x])
    BY <1>5, <1>6, <1>7 DEF Drift
<1>12. Stands(M, V, p) /\ Counted(M, V, p) /\ Elected(M, V, p)
    BY <1>3 DEF Explains
<1>13. Stands(M, W, p)' /\ Elected(M, W, p)' /\ Counted(M, W, p)'
    BY <1>1, <1>10, <1>11, <1>12, Carried
<1> QED
    BY <1>1, <1>3, <1>8, <1>10, <1>11, <1>13, RoundStep

\* become_leader_locked: a candidate with a quorum has a majority of the book.
LEMMA EndElectionElect ==
    ASSUME NEW M \in SUBSET Server, ElectInv(M), NEW s \in Server, EndElection(s)
    PROVE  ElectInv(M)'
<1> DEFINE q == round[s]
           r == node[s]
<1>1. Shape /\ NodeShape(s, node[s])
    BY DEF ElectInv, Shape
<1>2. /\ q # None /\ q.kind = "vote" /\ q.todo = {}
      /\ node' = IF r.role = "candidate" /\ r.term = q.term /\ q.granted >= Quorum(r)
                 THEN [node EXCEPT ![s] = Leader(r)] ELSE node
      /\ round' = [round EXCEPT ![s] = None] /\ UNCHANGED calls
    BY DEF EndElection
<1>3. CASE node' = node
    <2>1. \A x \in Server : Drift(x, node[x], node'[x])
        BY <1>1, <1>3, SelfDrift DEF Shape
    <2>2. DOMAIN round' = Server /\ \A x \in Server : round'[x] \in {round[x], None}
        BY <1>1, <1>2 DEF Shape
    <2> QED
        BY <1>1, <1>2, <1>3, <2>1, <2>2, DriftStep DEF Shape
<1>4. CASE /\ r.role = "candidate" /\ r.term = q.term /\ q.granted >= Quorum(r)
           /\ node' = [node EXCEPT ![s] = Leader(r)]
    <2>1. PICK V \in Books : Explains(M, V)
        BY DEF ElectInv
    <2> DEFINE r2 == Leader(r)
               t == r.term
    <2>2. /\ DOMAIN r2 = Fields /\ r2.role = "leader" /\ r2.term = t /\ r2.vote = r.vote
          /\ r2.peers = r.peers
        BY <1>1 DEF NodeShape, Fields, Leader
    <2> HIDE DEF r2
    <2>3. NodeShape(s, r2)
        BY <1>1, <2>2 DEF NodeShape, Roles
    <2>4. /\ DOMAIN node' = Server /\ node'[s] = r2
          /\ DOMAIN round' = Server /\ round'[s] = None
          /\ \A x \in Server \ {s} : node'[x] = node[x] /\ round'[x] = round[x]
        BY <1>1, <1>2, <1>4 DEF Shape, r2
    <2>5. Shape'
        BY <1>1, <1>2, <2>3, <2>4 DEF Shape
    <2>6. Extends(V, V) /\ \A x \in Server \ {s} : Keeps(node[x], node'[x])
        BY <2>4 DEF Extends, Keeps
    <2>7. \A x \in Server : node'[x].term = node[x].term /\ node'[x].vote = node[x].vote
        BY <2>2, <2>4
    <2>8. \A x \in Server : Voted(V, x)'
        BY <2>1, <2>7 DEF Explains, Voted
    <2>9. Stands(M, V, s) /\ Counted(M, V, s)
        BY <2>1 DEF Explains
    <2>10. s \in M /\ r.peers = M \ {s} /\ V[s][t] = s
        BY <1>4, <2>9 DEF Stands
    <2>11. Stands(M, V, s)' /\ Counted(M, V, s)'
        BY <2>2, <2>4, <2>10 DEF Stands, Counted
    <2>12. Elected(M, V, s)'
        <3>1. q.granted <= Cardinality(Backers(M, V, t, s) \ {})
            BY <1>2, <1>4, <2>9 DEF Counted
        <3>2. Backers(M, V, t, s) \ {} = Backers(M, V, t, s)
            OBVIOUS
        <3>3. Cardinality(M) \in Nat /\ Quorum(r) = Cardinality(M) \div 2 + 1
            BY <2>10, QuorumOfMembers
        <3>4. q.granted \in Nat /\ t \in Nat
            BY <1>1, <1>2 DEF Shape, RoundShape, NodeShape
        <3>5. Cardinality(Backers(M, V, t, s)) \in Nat
            BY <2>6, <3>4, BackersGrow
        <3> DEFINE a == Cardinality(Backers(M, V, t, s))
                   m == Cardinality(M) \div 2 + 1
        <3>6. m \in Nat /\ q.granted >= m
            BY <1>4, <3>3
        <3>7. q.granted <= a
            BY <3>1, <3>2
        <3>8. a >= m
            <4> HIDE DEF a, m
            <4>1. a \in Nat
                BY <3>5 DEF a
            <4> QED
                BY <3>4, <3>6, <3>7, <4>1
        <3>9. Backers(M, V, node[s].term, s)' = Backers(M, V, t, s)
            BY <2>2, <2>4 DEF Backers
        <3> QED
            BY <3>8, <3>9 DEF Elected
    <2> QED
        BY <1>1, <2>1, <2>4, <2>5, <2>6, <2>8, <2>11, <2>12, RoundStep
<1> QED
    BY <1>2, <1>3, <1>4

-----------------------------------------------------------------------------
LEMMA ElectInit ==
    ASSUME NEW M \in SUBSET Server, Init
    PROVE  ElectInv(M)
<1>1. PICK sc \in Scenario :
        /\ node = [s \in Server |->
              [role |-> "follower", term |-> 0, vote |-> None, log |-> EmptyLog,
               commit |-> 0, applied |-> 0, config |-> sc.config,
               removed |-> {}, joiner |-> s \in sc.joiners,
               peers |-> {}, next |-> [p \in Server |-> 1],
               match |-> [p \in Server |-> 0], noop |-> FALSE, seed |-> FALSE,
               mayAdd |-> FALSE]]
        /\ round = [s \in Server |-> None] /\ calls = {}
    BY DEF Init
<1>2. \A s \in Server : NodeShape(s, node[s]) /\ node[s].role = "follower"
    BY <1>1 DEF NodeShape, Fields, Roles
<1>3. Shape
    BY <1>1, <1>2 DEF Shape
<1> DEFINE V == [p \in Server |-> [t \in Nat |-> None]]
<1>4. V \in Books /\ \A p \in Server : \A t \in Nat : V[p][t] = None
    BY DEF Books
<1> HIDE DEF V
<1>5. Explains(M, V)
    BY <1>2, <1>4 DEF Explains, Voted, Stands, Counted, Elected
<1> QED
    BY <1>3, <1>4, <1>5 DEF ElectInv

LEMMA ElectStep ==
    ASSUME NEW M \in SUBSET Server, M # {}, Members(M), ElectInv(M), [Next]_vars
    PROVE  ElectInv(M)'
<1>1. CASE UNCHANGED vars
    <2>1. UNCHANGED <<node, round, calls>>
        BY <1>1 DEF vars
    <2> QED
        BY <2>1, NobodyMoves DEF ElectInv, Shape
<1>2. ASSUME NEW s \in Server,
             \/ RebuildPeers(s) \/ Discover(s) \/ CheckQuorum(s)
             \/ FinishSnapshot(s) \/ Restart(s)
      PROVE  ElectInv(M)'
    BY <1>2, NodeElect
<1>3. ASSUME NEW s \in Server, PreVote(s) \/ StartElection(s) \/ EndElection(s)
      PROVE  ElectInv(M)'
    BY <1>3, PreVoteElect, StartElectionElect, EndElectionElect
<1>4. ASSUME NEW s \in Server, NEW p \in Server,
             RequestVote(s, p) \/ RequestVoteTimesOut(s, p)
      PROVE  ElectInv(M)'
    BY <1>4, RequestVoteElect, VoteTimeoutElect
<1>5. ASSUME NEW s \in Server, NEW p \in Server, NEW th \in Thread,
             \/ Propose(s) \/ ProposeNoop(s) \/ ProposeSeed(s)
             \/ ChangeConfig(s, p) \/ DriveAdd(s, p)
             \/ SweepSkips(s, th) \/ ProposeConfig(s, th)
             \/ ReturnOk(s, th) \/ ReturnNotLeader(s, th) \/ ReturnTimeout(s, th)
      PROVE  ElectInv(M)'
    BY <1>5, ClientElect, Zenon
<1>6. ASSUME NEW s \in Server,
             ApplyEntry(s) \/ ApplyBegin(s) \/ ApplyEnd(s) \/ ApplySkips(s)
      PROVE  ElectInv(M)'
    BY <1>6, ApplyElect
<1>7. ASSUME NEW s \in Server, NEW p \in Server, NEW th \in Thread,
             SendAppend(s, th, p) \/ SendSnapshot(s, th, p)
      PROVE  ElectInv(M)'
    BY <1>7, SendElect
<1>8. ASSUME NEW c \in calls,
             \/ HandleAppend(c) \/ MergeAppend(c) \/ CallTimesOut(c)
             \/ HandleSnapshot(c) \/ MergeSnapshot(c)
      PROVE  ElectInv(M)'
    BY <1>8, CallElect
<1>9. ASSUME NEW c \in calls, LateVote(c) PROVE ElectInv(M)'
    BY <1>9, LateVoteElect
<1>10. "tick" \in Thread
    BY DEF Thread
<1>11. CASE Next
    BY <1>2, <1>3, <1>4, <1>5, <1>6, <1>7, <1>8, <1>9, <1>10, <1>11, Zenon DEF Next
<1> QED
    BY <1>1, <1>11

\* Two majorities of M share a voter, and a voter has one line per term.
LEMMA ElectImplies ==
    ASSUME NEW M \in SUBSET Server, ElectInv(M)
    PROVE  ElectionSafety
<1> SUFFICES ASSUME NEW s \in Server, NEW u \in Server, node[s].role = "leader",
                    node[u].role = "leader", node[s].term = node[u].term
             PROVE  s = u
    BY DEF ElectionSafety
<1> DEFINE t == node[s].term
<1>1. PICK V \in Books : Explains(M, V)
    BY DEF ElectInv
<1>2. t \in Nat
    BY DEF ElectInv, Shape, NodeShape
<1> DEFINE A == Backers(M, V, t, s)
           B == Backers(M, V, t, u)
           m == Cardinality(M)
<1>3. Cardinality(A) >= m \div 2 + 1 /\ Cardinality(B) >= m \div 2 + 1
    BY <1>1 DEF Explains, Elected
<1>4. IsFiniteSet(M) /\ m \in Nat /\ A \subseteq M /\ B \subseteq M
    BY RaftAssumption, FS_Subset, FS_CardinalityType DEF Backers
<1>5. Cardinality(A) \in Nat /\ Cardinality(B) \in Nat
    BY <1>4, FS_Subset, FS_CardinalityType
<1>6. Cardinality(A) + Cardinality(B) > m
    <2> HIDE DEF A, B, m
    <2> QED
        BY <1>3, <1>4, <1>5
<1>7. A \intersect B # {}
    <2> HIDE DEF A, B
    <2> QED
        BY <1>4, <1>6, FS_MajoritiesIntersect
<1> QED
    BY <1>7 DEF Backers

\* Two leaders never share a term, for any number of servers, any bound and
\* any scenario, as long as every node's config stays M: elections, votes
\* that arrive late, restarts and step-downs in the middle of a round.
THEOREM ElectionSafetyHolds ==
    ASSUME NEW M \in SUBSET Server, M # {}
    PROVE  Spec /\ []Members(M) => []ElectionSafety
<1>1. Init => ElectInv(M)
    BY ElectInit
<1>2. Members(M) /\ ElectInv(M) /\ [Next]_vars => ElectInv(M)'
    BY ElectStep
<1>3. ElectInv(M) => ElectionSafety
    BY ElectImplies
<1> QED
    BY <1>1, <1>2, <1>3, PTL DEF Spec
=============================================================================
