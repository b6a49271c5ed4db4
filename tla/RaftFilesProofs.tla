--------------------------- MODULE RaftFilesProofs ---------------------------
(***************************************************************************)
(* What the files of one Raft node say, for any set of nodes and any       *)
(* number of entries, terms, crashes and failed writes.                    *)
(*                                                                         *)
(*   1. One vote per term.  Term and vote are two files; the argument is   *)
(*      that meta.bin, written first, bounds every vote cast, so that the  *)
(*      vote.bin of an older term, which a crash between the two writes    *)
(*      leaves in place, can only keep the node from voting for somebody   *)
(*      else.                                                              *)
(*   2. Types, and with them that an index the snapshot covers is not      *)
(*      given out again.                                                   *)
(*   3. A reopen builds the struct the running node has.                   *)
(***************************************************************************)
EXTENDS RaftLog, TLAPS, SequenceTheorems, WellFoundedInduction

\* No write of meta.bin or vote.bin has failed.
WritesSeen == mishaps \intersect {"vote_write", "meta_write"} = {}

\* The fields of the files and of the struct that the argument is about.
VoteShape ==
    /\ {"meta", "vote", "snap", "seg"} \subseteq DOMAIN file
    /\ {"term", "vote"} \subseteq DOMAIN rl
    /\ file.meta \in Nat /\ file.vote \in Node \union {0}
    /\ rl.term \in Nat /\ rl.vote \in Node \union {0}
    /\ votes \subseteq Nat \X Node
    /\ pc \in {"idle", "set_term", "append", "compact", "down"}

\* A running node's term is that of meta.bin, and its vote that of vote.bin
\* but for the moment between the two writes of set_term.
StructIsFiles ==
    /\ pc # "down" => rl.term = file.meta
    /\ pc \notin {"down", "set_term"} => rl.vote = file.vote
    /\ pc = "set_term" => rl.vote = 0

\* meta.bin bounds the votes cast; a vote of its term is in vote.bin; while
\* vote.bin is to be cleared no vote of the new term has been cast.
VotesBounded ==
    /\ \A v \in votes : v[1] <= file.meta
    /\ \A v \in votes : v[1] = file.meta => v[2] = file.vote
    /\ pc = "set_term" => \A v \in votes : v[1] < file.meta

OneVote == \A v, w \in votes : v[1] = w[1] => v[2] = w[2]

VoteIInv ==
    /\ VoteShape
    /\ WritesSeen => StructIsFiles /\ VotesBounded /\ OneVote

-----------------------------------------------------------------------------
\* A step that leaves term, vote and both files alone.
LEMMA VoteFrame ==
    ASSUME VoteIInv,
           {"meta", "vote", "snap", "seg"} \subseteq DOMAIN file',
           {"term", "vote"} \subseteq DOMAIN rl',
           file'.meta = file.meta, file'.vote = file.vote,
           rl'.term = rl.term, rl'.vote = rl.vote,
           votes' = votes, mishaps \subseteq mishaps',
           pc \in {"idle", "append", "compact"},
           pc' \in {"idle", "append", "compact", "down"}
    PROVE  VoteIInv'
<1>1. VoteShape'
    BY DEF VoteIInv, VoteShape
<1>2. WritesSeen' => WritesSeen
    BY DEF WritesSeen
<1>3. WritesSeen => StructIsFiles' /\ VotesBounded' /\ OneVote'
    BY DEF VoteIInv, StructIsFiles, VotesBounded, OneVote
<1> QED
    BY <1>1, <1>2, <1>3 DEF VoteIInv

\* An empty directory.
LEMMA VoteInit == Init => VoteIInv
<1> SUFFICES ASSUME Init PROVE VoteIInv
    OBVIOUS
<1>1. /\ file = [meta |-> 0, vote |-> 0, snap |-> Torn, seg |-> <<>>]
      /\ pc = "idle" /\ votes = {} /\ rl = Opened(file, 1)
    BY DEF Init
<1>2. /\ {"term", "vote"} \subseteq DOMAIN rl
      /\ rl.term = 0 /\ rl.vote = 0
    BY <1>1 DEF Opened
<1> QED
    BY <1>1, <1>2 DEF VoteIInv, VoteShape, StructIsFiles, VotesBounded, OneVote

\* tsdb_raft_log_set_term: meta.bin passes every vote cast.
LEMMA SetTermVotes ==
    ASSUME VoteIInv, NEW t \in 1..MaxTerm, SetTerm(t)
    PROVE  VoteIInv'
<1>0. t \in Nat /\ votes' = votes /\ pc = "idle" /\ pc' = "set_term" /\ t > rl.term
    BY LogBoundAssumption DEF SetTerm
<1>1. /\ {"term", "vote"} \subseteq DOMAIN rl' /\ rl'.term = t /\ rl'.vote = 0
      /\ {"meta", "vote", "snap", "seg"} \subseteq DOMAIN file'
      /\ file'.vote = file.vote
      /\ file'.meta \in Nat
    BY <1>0 DEF SetTerm, VoteIInv, VoteShape
<1>2. WritesSeen' => WritesSeen /\ file'.meta = t
    BY DEF SetTerm, WritesSeen, Fault, NoFault, VoteIInv, VoteShape
<1>3. VoteShape'
    BY <1>0, <1>1 DEF VoteIInv, VoteShape
<1>4. ASSUME WritesSeen' PROVE StructIsFiles' /\ VotesBounded' /\ OneVote'
    <2>1. WritesSeen /\ file'.meta = t /\ rl.term = file.meta /\ file.meta < t
        BY <1>0, <1>2, <1>4 DEF VoteIInv, StructIsFiles, VoteShape
    <2>2. \A v \in votes : v[1] \in Nat /\ v[1] < t
        BY <1>0, <2>1 DEF VoteIInv, VoteShape, VotesBounded
    <2> QED
        BY <1>0, <1>1, <2>1, <2>2 DEF VoteIInv, StructIsFiles, VotesBounded, OneVote
<1> QED
    BY <1>3, <1>4 DEF VoteIInv

\* ... and vote.bin is cleared while no vote of the new term exists.
LEMMA SetTermVoteVotes ==
    ASSUME VoteIInv, SetTermVote
    PROVE  VoteIInv'
<1>0. votes' = votes /\ pc = "set_term" /\ pc' = "idle" /\ rl' = rl
    BY DEF SetTermVote
<1>1. /\ {"meta", "vote", "snap", "seg"} \subseteq DOMAIN file'
      /\ file'.meta = file.meta /\ file'.vote \in Node \union {0}
    BY DEF SetTermVote, VoteIInv, VoteShape
<1>2. WritesSeen' => WritesSeen /\ file'.vote = rl.vote
    BY DEF SetTermVote, WritesSeen, Fault, NoFault, VoteIInv, VoteShape
<1>3. VoteShape'
    BY <1>0, <1>1 DEF VoteIInv, VoteShape
<1>4. ASSUME WritesSeen' PROVE StructIsFiles' /\ VotesBounded' /\ OneVote'
    <2>1. \A v \in votes : v[1] \in Nat /\ v[1] < file.meta
        BY <1>0, <1>2, <1>4 DEF VoteIInv, VotesBounded, VoteShape
    <2>2. file.meta \in Nat
        BY DEF VoteIInv, VoteShape
    <2> QED
        BY <1>0, <1>1, <1>2, <1>4, <2>1, <2>2
        DEF VoteIInv, StructIsFiles, VotesBounded, OneVote
<1> QED
    BY <1>3, <1>4 DEF VoteIInv

\* tsdb_raft_log_set_voted_for: a vote of this term would be in vote.bin.
LEMMA SetVotedForVotes ==
    ASSUME VoteIInv, NEW n \in Node, SetVotedFor(n)
    PROVE  VoteIInv'
<1>0. /\ pc = "idle" /\ pc' = "idle" /\ rl.vote \in {0, n}
      /\ votes' = votes \union {<<rl.term, n>>}
    BY DEF SetVotedFor, MayVote
<1>1. /\ {"meta", "vote", "snap", "seg"} \subseteq DOMAIN file'
      /\ file'.meta = file.meta /\ file'.vote \in Node \union {0}
      /\ {"term", "vote"} \subseteq DOMAIN rl' /\ rl'.term = rl.term /\ rl'.vote = n
    BY DEF SetVotedFor, VoteIInv, VoteShape
<1>2. WritesSeen' => WritesSeen /\ file'.vote = n
    BY DEF SetVotedFor, WritesSeen, Fault, NoFault, VoteIInv, VoteShape
<1>3. VoteShape'
    BY <1>0, <1>1 DEF VoteIInv, VoteShape
<1>4. ASSUME WritesSeen' PROVE StructIsFiles' /\ VotesBounded' /\ OneVote'
    <2>1. rl.term = file.meta /\ file.vote \in {0, n} /\ file'.vote = n
        BY <1>0, <1>2, <1>4 DEF VoteIInv, StructIsFiles
    <2>2. \A v \in votes : v[1] = rl.term => v[2] = n
        BY <1>2, <1>4, <2>1, NodeAssumption DEF VoteIInv, VoteShape, VotesBounded
    <2>3. VotesBounded'
        BY <1>0, <1>1, <1>2, <1>4, <2>1, <2>2 DEF VoteIInv, VoteShape, VotesBounded
    <2>4. OneVote'
        BY <1>0, <1>2, <1>4, <2>2 DEF VoteIInv, OneVote
    <2> QED
        BY <1>0, <1>1, <2>1, <2>3, <2>4 DEF StructIsFiles
<1> QED
    BY <1>3, <1>4 DEF VoteIInv

-----------------------------------------------------------------------------
\* The operations on the segment touch neither term nor vote.
LEMMA SegmentVotes ==
    ASSUME VoteIInv,
           \/ \E t \in 1..MaxTerm : AppendWrite(t)
           \/ AppendSync \/ AppendFails
           \/ \E i \in 1..MaxIndex : Truncate(i)
           \/ \E tip \in Entry : CompactRename(tip)
           \/ CompactInstall \/ CompactReopenFails
    PROVE  VoteIInv'
<1> USE DEF VoteIInv, VoteShape
<1>1. CASE \E t \in 1..MaxTerm : AppendWrite(t)
    BY <1>1, VoteFrame DEF AppendWrite
<1>2. CASE AppendSync
    BY <1>2, VoteFrame DEF AppendSync
<1>3. CASE AppendFails
    BY <1>3, VoteFrame DEF AppendFails, Fault
<1>4. CASE \E i \in 1..MaxIndex : Truncate(i)
    BY <1>4, VoteFrame DEF Truncate, Truncated, Fault
<1>5. CASE \E tip \in Entry : CompactRename(tip)
    BY <1>5, VoteFrame DEF CompactRename
<1>6. CASE CompactInstall
    BY <1>6, VoteFrame DEF CompactInstall, Compacted, Fault, NoFault
<1>7. CASE CompactReopenFails
    BY <1>7, VoteFrame DEF CompactReopenFails, Fault
<1> QED
    BY <1>1, <1>2, <1>3, <1>4, <1>5, <1>6, <1>7

\* A crash keeps both files as they are, at any point.
LEMMA CrashVotes ==
    ASSUME VoteIInv, Crash
    PROVE  VoteIInv'
<1>1. /\ votes' = votes /\ rl' = rl /\ pc' = "down" /\ mishaps \subseteq mishaps'
      /\ {"meta", "vote", "snap", "seg"} \subseteq DOMAIN file'
      /\ file'.meta = file.meta /\ file'.vote = file.vote
    BY DEF Crash, VoteIInv, VoteShape
<1>2. VoteShape'
    BY <1>1 DEF VoteIInv, VoteShape
<1>3. WritesSeen' => WritesSeen
    BY <1>1 DEF WritesSeen
<1> QED
    BY <1>1, <1>2, <1>3 DEF VoteIInv, StructIsFiles, VotesBounded, OneVote

\* tsdb_raft_log_open loads both.
LEMMA OpenVotes ==
    ASSUME VoteIInv, Open
    PROVE  VoteIInv'
<1>1. /\ votes' = votes /\ pc' = "idle" /\ mishaps \subseteq mishaps'
      /\ {"meta", "vote", "snap", "seg"} \subseteq DOMAIN file'
      /\ file'.meta = file.meta /\ file'.vote = file.vote
    BY DEF Open, VoteIInv, VoteShape
<1>2. /\ {"term", "vote"} \subseteq DOMAIN rl'
      /\ rl'.term = file.meta /\ rl'.vote = file.vote
    BY DEF Open, Opened
<1>3. VoteShape'
    BY <1>1, <1>2 DEF VoteIInv, VoteShape
<1> QED
    BY <1>1, <1>2, <1>3 DEF VoteIInv, WritesSeen, StructIsFiles, VotesBounded, OneVote

\* The invariant is inductive.
LEMMA VoteStep == VoteIInv /\ [Next]_vars => VoteIInv'
<1> SUFFICES ASSUME VoteIInv, [Next]_vars PROVE VoteIInv'
    OBVIOUS
<1>1. ASSUME NEW t \in 1..MaxTerm, SetTerm(t) PROVE VoteIInv'
    BY <1>1, SetTermVotes
<1>2. ASSUME NEW n \in Node, SetVotedFor(n) PROVE VoteIInv'
    BY <1>2, SetVotedForVotes
<1>3. CASE UNCHANGED vars
    BY <1>3 DEF vars, VoteIInv, VoteShape, WritesSeen, StructIsFiles, VotesBounded, OneVote
<1> QED
    BY <1>1, <1>2, <1>3, SetTermVoteVotes, SegmentVotes, CrashVotes, OpenVotes DEF Next

\* For any set of nodes and any number of crashes, the node gives its vote in
\* a term to one node only while no write of meta.bin or vote.bin has failed
\* unnoticed (tsdb_raft_log_set_term, set_voted_for, open).
THEOREM OneVotePerTermHolds == Spec => []OneVotePerTerm
<1>1. VoteIInv => OneVotePerTerm
    BY DEF VoteIInv, WritesSeen, OneVote, OneVotePerTerm
<1> QED
    BY <1>1, VoteInit, VoteStep, PTL DEF Spec

-----------------------------------------------------------------------------
(***************************************************************************)
(* Least and greatest elements, which the scan of an open is made of.      *)
(***************************************************************************)
Below == {ss \in Nat \X Nat : ss[1] < ss[2]}

LEMMA BelowWF == IsWellFoundedOn(Below, Nat)
BY NatLessThanWellFounded, Zenon DEF OpToRel, Below

LEMMA LeastNat ==
    ASSUME NEW T \in SUBSET Nat, T # {}
    PROVE  \E x \in T : \A y \in T : x <= y
<1>2. PICK x \in T : \A y \in T : ~(<<y, x>> \in Below)
    BY BelowWF, WFMin
<1>3. ASSUME NEW y \in T PROVE x <= y
    <2>1. <<y, x>> \notin Below
        BY <1>2
    <2>2. x \in Nat /\ y \in Nat
        OBVIOUS
    <2>3. ~(y < x)
        BY <2>1, <2>2 DEF Below
    <2> QED
        BY <2>2, <2>3
<1> QED
    BY <1>3

LEMMA GreatestUpTo ==
    ASSUME NEW n \in Nat, NEW T \in SUBSET (1..n), T # {}
    PROVE  \E x \in T : \A y \in T : y <= x
<1> DEFINE U == {n - y : y \in T}
<1>1. U \in SUBSET Nat /\ U # {}
    <2>1. ASSUME NEW y \in T PROVE n - y \in Nat
        OBVIOUS
    <2> QED
        BY <2>1
<1>2. PICK u \in U : \A v \in U : u <= v
    BY <1>1, LeastNat
<1>3. PICK x \in T : u = n - x
    OBVIOUS
<1>4. ASSUME NEW y \in T PROVE y <= x
    <2>1. n - x <= n - y
        BY <1>2, <1>3
    <2> QED
        BY <2>1
<1> QED
    BY <1>4

-----------------------------------------------------------------------------
(***************************************************************************)
(* What an open makes of the files.                                        *)
(***************************************************************************)

\* A record of the segment: an entry or one cut short, which only a log that
\* has entries can have.
Rec == Entry \union {r \in {Torn, Stub} : MaxTerm > 0}
Snap == Entry \union {Torn}

\* The scan stops at the first record that is not complete.
LEMMA ScanStops ==
    ASSUME NEW seg \in Seq(Rec)
    PROVE  \E n \in 0..Len(seg) :
              /\ Scanned(seg) = SubSeq(seg, 1, n)
              /\ \A k \in 1..n : seg[k].idx # 0
              /\ n < Len(seg) => seg[n + 1].idx = 0
<1> DEFINE P(n) == /\ \A k \in 1..n : seg[k].idx # 0
                   /\ n < Len(seg) => seg[n + 1].idx = 0
           T == {n \in 0..Len(seg) : n < Len(seg) => seg[n + 1].idx = 0}
<1>1. Len(seg) \in Nat
    OBVIOUS
<1>2. T \in SUBSET Nat /\ Len(seg) \in T
    BY <1>1
<1>3. PICK x \in T : \A y \in T : x <= y
    BY <1>2, LeastNat, Zenon
<1>4. ASSUME NEW k \in 1..x PROVE seg[k].idx # 0
    <2>1. /\ k - 1 \in 0..Len(seg) /\ ~(x <= k - 1) /\ k - 1 < Len(seg)
          /\ (k - 1) + 1 = k
        BY <1>1
    <2>2. k - 1 \notin T
        BY <1>3, <2>1
    <2> QED
        BY <2>1, <2>2
<1>5. x \in 0..Len(seg) /\ P(x)
    BY <1>4
<1> HIDE DEF P
<1>6. \E n \in 0..Len(seg) : P(n)
    BY <1>5
<1>7. Scanned(seg) = SubSeq(seg, 1, CHOOSE n \in 0..Len(seg) : P(n))
    BY DEF Scanned, P
<1> DEFINE c == CHOOSE n \in 0..Len(seg) : P(n)
<1>8. c \in 0..Len(seg) /\ P(c)
    BY <1>6, Zenon
<1> QED
    BY <1>7, <1>8 DEF P

\* It yields entries.
LEMMA ScanEntries ==
    ASSUME NEW seg \in Seq(Rec)
    PROVE  Scanned(seg) \in Seq(Entry) /\ Len(Scanned(seg)) <= Len(seg)
<1>1. PICK n \in 0..Len(seg) : /\ Scanned(seg) = SubSeq(seg, 1, n)
                               /\ \A k \in 1..n : seg[k].idx # 0
    BY ScanStops
<1> DEFINE g == Scanned(seg)
<1>2. g \in Seq(Rec) /\ Len(g) = n /\ \A k \in 1..n : g[k] = seg[k]
    BY <1>1, SubSeqProperties
<1>3. ASSUME NEW k \in 1..n PROVE g[k] \in Entry
    <2>1. seg[k] \in Rec /\ seg[k].idx # 0 /\ g[k] = seg[k]
        BY <1>1, <1>2
    <2> QED
        BY <2>1 DEF Rec, Torn, Stub
<1> QED
    BY <1>2, <1>3

LEMMA SegAfterOpenType ==
    ASSUME NEW seg \in Seq(Rec)
    PROVE  SegAfterOpen(seg) \in Seq(Rec)
<1>1. Scanned(seg) \in Seq(Rec)
    BY ScanEntries DEF Rec
<1> QED
    BY <1>1 DEF SegAfterOpen

\* The slot of an index the segment holds leads to its last record.
LEMMA OffsetLeads ==
    ASSUME NEW g \in Seq(Entry), NEW first \in Nat, NEW last \in Nat,
           NEW junk \in Nat \ {0}, NEW i \in first..last,
           NEW o, o = OffsetsOf(g, first, last, junk)
    PROVE  /\ o[i] \in Nat \ {0}
           /\ (\A k \in 1..Len(g) : g[k].idx # i) => o[i] = junk
           /\ (\E k \in 1..Len(g) : g[k].idx = i) =>
                 /\ o[i] \in 1..Len(g) /\ g[o[i]].idx = i
                 /\ \A k \in 1..Len(g) : g[k].idx = i => k <= o[i]
<1> DEFINE at == {k \in 1..Len(g) : g[k].idx = i}
           top == CHOOSE k \in at : \A j \in at : j <= k
<1>1. o[i] = IF at = {} THEN junk ELSE top
    BY DEF OffsetsOf
<1>2. ASSUME at # {} PROVE top \in at /\ \A j \in at : j <= top
    <2>1. Len(g) \in Nat /\ at \in SUBSET (1..Len(g))
        OBVIOUS
    <2>2. \E k \in at : \A j \in at : j <= k
        BY <1>2, <2>1, GreatestUpTo, Zenon
    <2> QED
        BY <2>2, Zenon
<1> HIDE DEF top
<1> QED
    BY <1>1, <1>2

LEMMA OffsetHeld ==
    ASSUME NEW g \in Seq(Entry), NEW first \in Nat, NEW last \in Nat,
           NEW junk \in Nat \ {0}, NEW k \in 1..Len(g), g[k].idx \in first..last
    PROVE  \E p \in 1..Len(g) : /\ OffsetsOf(g, first, last, junk)[g[k].idx] = p
                               /\ g[p].idx = g[k].idx /\ k <= p
<1> DEFINE o == OffsetsOf(g, first, last, junk)
<1>1. PICK i \in first..last : i = g[k].idx
    OBVIOUS
<1>2. \E m \in 1..Len(g) : g[m].idx = i
    BY <1>1
<1>3. o[i] \in 1..Len(g) /\ g[o[i]].idx = i /\ \A m \in 1..Len(g) : g[m].idx = i => m <= o[i]
    BY <1>2, OffsetLeads
<1> HIDE DEF o
<1>4. \E p \in 1..Len(g) : o[g[k].idx] = p /\ g[p].idx = g[k].idx /\ k <= p
    BY <1>1, <1>3
<1> QED
    BY <1>4 DEF o

LEMMA RebuiltType ==
    ASSUME NEW seg \in Seq(Rec), NEW snap \in Snap, NEW junk \in Nat \ {0},
           NEW r, r = Rebuilt(seg, snap, junk)
    PROVE  /\ r.first_index \in 1..(MaxIndex + 1)
           /\ r.last_index \in 0..MaxIndex
           /\ r.last_term \in 0..MaxTerm
           /\ r.offsets \in [r.first_index..r.last_index -> Nat \ {0}]
           /\ r.last_index >= snap.idx
           /\ r.last_index > 0 => MaxTerm > 0
<1> DEFINE g == Scanned(seg)
           n == Len(g)
<1>1. g \in Seq(Entry) /\ n \in Nat
    BY ScanEntries
<1>2. /\ snap.idx \in 0..MaxIndex /\ snap.term \in 0..MaxTerm
      /\ snap.idx > 0 => MaxTerm > 0
    BY LogBoundAssumption DEF Snap, Entry, Torn
<1> HIDE DEF g
<1>3. CASE n = 0 \/ g[n].idx < snap.idx
    <2>1. r = [first_index |-> snap.idx + 1, last_index |-> snap.idx,
               last_term |-> snap.term, offsets |-> <<>>]
        BY <1>3 DEF Rebuilt, g
    <2>2. <<>> \in [(snap.idx + 1)..snap.idx -> Nat \ {0}]
        BY <1>2
    <2>3. /\ r.first_index = snap.idx + 1 /\ r.last_index = snap.idx
          /\ r.last_term = snap.term /\ r.offsets = <<>>
        BY <2>1
    <2> QED
        BY <1>2, <2>2, <2>3, LogBoundAssumption
<1>4. CASE ~(n = 0 \/ g[n].idx < snap.idx)
    <2>1. r = [first_index |-> g[1].idx, last_index |-> g[n].idx,
               last_term |-> g[n].term,
               offsets |-> OffsetsOf(g, g[1].idx, g[n].idx, junk)]
        BY <1>4 DEF Rebuilt, g
    <2>2. g[1] \in Entry /\ g[n] \in Entry
        BY <1>1, <1>4, ElementOfSeq
    <2>3. /\ g[1].idx \in 1..MaxIndex /\ g[n].idx \in 1..MaxIndex
          /\ g[n].term \in 1..MaxTerm
        BY <2>2 DEF Entry
    <2> DEFINE o == OffsetsOf(g, g[1].idx, g[n].idx, junk)
    <2>a. g[1].idx \in Nat /\ g[n].idx \in Nat
        BY <2>3
    <2>4. ASSUME NEW i \in g[1].idx..g[n].idx PROVE o[i] \in Nat \ {0}
        BY <1>1, <2>a, OffsetLeads, Zenon
    <2>5. o \in [g[1].idx..g[n].idx -> Nat \ {0}]
        BY <2>4 DEF OffsetsOf
    <2>6. /\ r.first_index = g[1].idx /\ r.last_index = g[n].idx
          /\ r.last_term = g[n].term
          /\ r.offsets = o
        BY <2>1
    <2> HIDE DEF o
    <2> QED
        <3>1. MaxTerm > 0 /\ g[n].term \in 0..MaxTerm
            BY <2>3, LogBoundAssumption
        <3>2. /\ g[1].idx \in 1..(MaxIndex + 1) /\ g[n].idx \in 0..MaxIndex
            BY <2>3, LogBoundAssumption
        <3>3. g[n].idx >= snap.idx
            BY <1>2, <1>4, <2>3
        <3>4. r.offsets \in [r.first_index..r.last_index -> Nat \ {0}]
            BY <2>5, <2>6, Zenon
        <3> HIDE DEF n
        <3> QED
            BY <2>6, <3>1, <3>2, <3>3, <3>4
<1> QED
    BY <1>3, <1>4

-----------------------------------------------------------------------------
(***************************************************************************)
(* Types.  A slot of the offset table is always read within first_index ..  *)
(* last_index, and a compaction under way leaves room for the entries it   *)
(* keeps.  last_index reaches the snapshot unless a truncate emptied the   *)
(* log.                                                                    *)
(***************************************************************************)
FileType ==
    /\ file \in [meta : 0..MaxTerm, vote : Node \union {0}, snap : Snap,
                 seg : Seq(Rec)]
    /\ undo \in Seq(Seq(Rec))

StructType(r) ==
    /\ DOMAIN r = {"term", "vote", "snap", "first_index", "last_index",
                   "last_term", "offsets"}
    /\ r.term \in 0..MaxTerm /\ r.vote \in Node \union {0} /\ r.snap \in Snap
    /\ r.first_index \in 1..(MaxIndex + 1) /\ r.last_index \in 0..MaxIndex
    /\ r.last_term \in 0..MaxTerm
    /\ r.offsets \in [r.first_index..r.last_index -> Nat \ {0}]
    /\ r.last_index > 0 => MaxTerm > 0

OpType ==
    /\ pc \in {"idle", "set_term", "append", "compact", "down"}
    /\ pc = "append" => arg \in Entry /\ arg.idx = rl.last_index + 1
    /\ pc = "compact" =>
          /\ arg \in Entry /\ arg.term <= rl.term
          /\ arg.idx + Len(file.seg) <= MaxIndex

HistoryType ==
    /\ votes \subseteq (1..MaxTerm) \X Node
    /\ mishaps \subseteq Mishap
    /\ "emptied" \notin mishaps => rl.last_index >= rl.snap.idx

LogTypeInv == FileType /\ StructType(rl) /\ OpType /\ HistoryType

\* An open yields a well-formed struct whose log reaches the snapshot.
LEMMA OpenedType ==
    ASSUME FileType, NEW junk \in Nat \ {0}, NEW o, o = Opened(file, junk)
    PROVE  StructType(o) /\ o.last_index >= o.snap.idx
<1> DEFINE r == Rebuilt(file.seg, file.snap, junk)
<1>1. /\ file.seg \in Seq(Rec) /\ file.snap \in Snap
      /\ file.meta \in 0..MaxTerm /\ file.vote \in Node \union {0}
    BY DEF FileType
<1>2. /\ r.first_index \in 1..(MaxIndex + 1)
      /\ r.last_index \in 0..MaxIndex
      /\ r.last_term \in 0..MaxTerm
      /\ r.offsets \in [r.first_index..r.last_index -> Nat \ {0}]
      /\ r.last_index >= file.snap.idx
      /\ r.last_index > 0 => MaxTerm > 0
    BY <1>1, RebuiltType
<1>3. o = [term |-> file.meta, vote |-> file.vote, snap |-> file.snap,
           first_index |-> r.first_index, last_index |-> r.last_index,
           last_term |-> r.last_term, offsets |-> r.offsets]
    BY DEF Opened
<1> HIDE DEF r
<1>4. /\ DOMAIN o = {"term", "vote", "snap", "first_index", "last_index",
                     "last_term", "offsets"}
      /\ o.term = file.meta /\ o.vote = file.vote /\ o.snap = file.snap
      /\ o.first_index = r.first_index /\ o.last_index = r.last_index
      /\ o.last_term = r.last_term /\ o.offsets = r.offsets
    BY <1>3
<1> QED
    BY <1>1, <1>2, <1>4 DEF StructType

LEMMA LogTypeInit == Init => LogTypeInv
<1> SUFFICES ASSUME Init PROVE LogTypeInv
    OBVIOUS
<1>1. FileType
    BY LogBoundAssumption DEF Init, FileType, Snap
<1>2. StructType(rl) /\ rl.last_index >= rl.snap.idx
    <2>1. 1 \in Nat \ {0} /\ rl = Opened(file, 1)
        BY DEF Init
    <2> QED
        BY <1>1, <2>1, OpenedType
<1> QED
    BY <1>1, <1>2 DEF Init, LogTypeInv, OpType, HistoryType

\* Term and vote.
LEMMA VoteTypes ==
    ASSUME LogTypeInv,
           \/ \E t \in 1..MaxTerm : SetTerm(t)
           \/ SetTermVote
           \/ \E n \in Node : SetVotedFor(n)
    PROVE  LogTypeInv'
<1>1. /\ FileType' /\ undo' = undo /\ file'.seg = file.seg
    <2>1. CASE \E t \in 1..MaxTerm : SetTerm(t)
        <3>1. PICK t \in 0..MaxTerm : SetTerm(t)
            BY <2>1, LogBoundAssumption
        <3> QED
            BY <3>1 DEF SetTerm, LogTypeInv, FileType
    <2>2. CASE SetTermVote
        BY <2>2 DEF SetTermVote, LogTypeInv, FileType, StructType
    <2>3. CASE \E n \in Node : SetVotedFor(n)
        BY <2>3 DEF SetVotedFor, LogTypeInv, FileType
    <2> QED
        BY <2>1, <2>2, <2>3
<1>2. /\ StructType(rl)' /\ rl'.last_index = rl.last_index /\ rl'.snap = rl.snap
    <2>1. CASE \E t \in 1..MaxTerm : SetTerm(t)
        <3>1. PICK t \in 0..MaxTerm : SetTerm(t)
            BY <2>1, LogBoundAssumption
        <3>2. rl' = [rl EXCEPT !.term = t, !.vote = 0]
            BY <3>1 DEF SetTerm
        <3> QED
            BY <3>2 DEF LogTypeInv, StructType
    <2>2. CASE SetTermVote
        BY <2>2 DEF SetTermVote, LogTypeInv, StructType
    <2>3. CASE \E n \in Node : SetVotedFor(n)
        BY <2>3 DEF SetVotedFor, LogTypeInv, StructType
    <2> QED
        BY <2>1, <2>2, <2>3
<1>3. OpType'
    BY DEF SetTerm, SetTermVote, SetVotedFor, OpType
<1>4. mishaps \subseteq mishaps' /\ mishaps' \subseteq Mishap
    BY DEF SetTerm, SetTermVote, SetVotedFor, Fault, NoFault, Mishap, LogTypeInv,
           HistoryType
<1>5. votes' \subseteq (1..MaxTerm) \X Node
    <2>1. CASE \E n \in Node : SetVotedFor(n)
        <3>1. rl.term \in 1..MaxTerm
            BY <2>1, LogBoundAssumption DEF SetVotedFor, MayVote, LogTypeInv, StructType
        <3> QED
            BY <2>1, <3>1 DEF SetVotedFor, LogTypeInv, HistoryType
    <2> QED
        BY <2>1 DEF SetTerm, SetTermVote, LogTypeInv, HistoryType
<1> QED
    BY <1>1, <1>2, <1>3, <1>4, <1>5 DEF LogTypeInv, HistoryType

\* tsdb_raft_log_append.
LEMMA AppendTypes ==
    ASSUME LogTypeInv,
           (\E t \in 1..MaxTerm : AppendWrite(t)) \/ AppendSync \/ AppendFails
    PROVE  LogTypeInv'
<1>0. /\ rl.last_index \in 0..MaxIndex /\ rl.first_index \in 1..(MaxIndex + 1)
      /\ MaxIndex \in Nat /\ MaxTerm \in Nat
      /\ rl.offsets \in [rl.first_index..rl.last_index -> Nat \ {0}]
      /\ file.seg \in Seq(Rec) /\ Len(file.seg) \in Nat
    BY LogBoundAssumption DEF LogTypeInv, StructType, FileType
<1>1. CASE \E t \in 1..MaxTerm : AppendWrite(t)
    <2>0. PICK t \in 1..MaxTerm : AppendWrite(t)
        BY <1>1
    <2>1. FileType' /\ HistoryType'
        BY <2>0 DEF AppendWrite, LogTypeInv, FileType, HistoryType, StructType
    <2>2. OpType'
        BY <1>0, <2>0 DEF AppendWrite, OpType, Entry, LogTypeInv, StructType
    <2>3. StructType(rl)'
        <3>1. CASE rl.last_index = 0
            <4>1. rl' = [rl EXCEPT !.first_index = 1]
                BY <2>0, <3>1 DEF AppendWrite
            <4>2. rl.first_index..rl.last_index = {} /\ 1..rl.last_index = {}
                BY <1>0, <3>1
            <4>3. rl.offsets \in [1..rl.last_index -> Nat \ {0}]
                BY <1>0, <4>2
            <4> QED
                BY <1>0, <4>1, <4>3 DEF LogTypeInv, StructType
        <3>2. CASE rl.last_index # 0
            BY <2>0, <3>2 DEF AppendWrite, LogTypeInv, StructType
        <3> QED
            BY <3>1, <3>2
    <2> QED
        BY <2>1, <2>2, <2>3 DEF LogTypeInv
<1>2. CASE AppendSync
    <2>0. arg \in Entry /\ arg.idx = rl.last_index + 1 /\ arg.idx \in 1..MaxIndex
          /\ arg.term \in 1..MaxTerm /\ arg \in Rec
        BY <1>2 DEF AppendSync, LogTypeInv, OpType, Entry, Rec
    <2>1. FileType'
        <3>1. Append(file.seg, arg) \in Seq(Rec)
            BY <1>0, <2>0
        <3> QED
            BY <1>2, <3>1 DEF AppendSync, LogTypeInv, FileType
    <2>2. StructType(rl)' /\ rl'.last_index = arg.idx /\ rl'.snap = rl.snap
        <3> DEFINE o == [i \in rl.first_index..arg.idx |->
                            IF i = arg.idx THEN Len(file.seg) + 1 ELSE rl.offsets[i]]
        <3>1. o \in [rl.first_index..arg.idx -> Nat \ {0}]
            BY <1>0, <2>0
        <3>2. rl' = [rl EXCEPT !.last_index = arg.idx, !.last_term = arg.term,
                               !.offsets = o]
            BY <1>2 DEF AppendSync
        <3> HIDE DEF o
        <3> QED
            BY <1>0, <2>0, <3>1, <3>2 DEF LogTypeInv, StructType
    <2>3. OpType'
        BY <1>2 DEF AppendSync, OpType
    <2>4. HistoryType'
        <3>1. rl.snap.idx \in Nat
            BY <1>0 DEF LogTypeInv, StructType, Snap, Entry, Torn
        <3> QED
            BY <1>0, <1>2, <2>0, <2>2, <3>1 DEF AppendSync, LogTypeInv, HistoryType
    <2> QED
        BY <2>1, <2>2, <2>3, <2>4 DEF LogTypeInv
<1>3. CASE AppendFails
    <2>0. arg \in Entry /\ {Torn, Stub, arg} \subseteq Rec
        BY <1>0, <1>3 DEF AppendFails, LogTypeInv, OpType, Entry, Rec
    <2>1. FileType'
        <3>1. \A rec \in {Torn, Stub, arg} : Append(file.seg, rec) \in Seq(Rec)
            BY <1>0, <2>0
        <3> QED
            BY <1>3, <3>1 DEF AppendFails, LogTypeInv, FileType
    <2> QED
        BY <1>3, <2>1
        DEF AppendFails, Fault, LogTypeInv, OpType, StructType, HistoryType, Mishap
<1> QED
    BY <1>1, <1>2, <1>3

\* A cut of the segment.
LEMMA CutType ==
    ASSUME NEW seg \in Seq(Rec), NEW off \in Nat \ {0}, Torn \in Rec
    PROVE  CutAt(seg, off) \in Seq(Rec)
<1>1. CASE off > Len(seg) + 1
    BY <1>1 DEF CutAt
<1>2. CASE ~(off > Len(seg) + 1)
    <2>1. off - 1 \in 0..Len(seg)
        BY <1>2
    <2> QED
        BY <1>2, <2>1, SubSeqProperties DEF CutAt
<1> QED
    BY <1>1, <1>2

\* A log with an entry has seen a term.
LEMMA RecTerms ==
    ASSUME NEW r \in Rec
    PROVE  r.term \in 0..MaxTerm /\ r.idx \in 0..MaxIndex
BY LogBoundAssumption DEF Rec, Entry, Torn, Stub

\* tsdb_raft_log_truncate.
LEMMA TruncateTypes ==
    ASSUME LogTypeInv, NEW index \in 1..MaxIndex, Truncate(index)
    PROVE  LogTypeInv'
<1>0. /\ rl.last_index \in 0..MaxIndex /\ rl.first_index \in 1..(MaxIndex + 1)
      /\ MaxIndex \in Nat /\ MaxTerm \in Nat
      /\ rl.offsets \in [rl.first_index..rl.last_index -> Nat \ {0}]
      /\ rl.last_term \in 0..MaxTerm /\ StructType(rl)
      /\ file.seg \in Seq(Rec) /\ Len(file.seg) \in Nat
      /\ index \in rl.first_index..rl.last_index
      /\ rl.offsets[index] \in Nat \ {0}
      /\ MaxTerm > 0 /\ Torn \in Rec
    BY LogBoundAssumption DEF LogTypeInv, StructType, FileType, Truncate, Rec
<1>1. FileType' /\ file'.seg \in Seq(Rec)
    <2>1. CutAt(file.seg, rl.offsets[index]) \in Seq(Rec)
        BY <1>0, CutType
    <2> QED
        BY <2>1 DEF Truncate, LogTypeInv, FileType
<1>2. StructType(Truncated(rl, file'.seg, index))
    <2>1. CASE index - 1 < rl.first_index
        <3>1. <<>> \in [1..0 -> Nat \ {0}]
            OBVIOUS
        <3>2. Truncated(rl, file'.seg, index)
                = [rl EXCEPT !.first_index = 1, !.last_index = 0, !.last_term = 0,
                             !.offsets = <<>>]
            BY <2>1 DEF Truncated
        <3> QED
            BY <1>0, <3>1, <3>2 DEF StructType
    <2>2. CASE ~(index - 1 < rl.first_index)
        <3> DEFINE t == IF rl.offsets[index - 1] \in 1..Len(file'.seg)
                        THEN file'.seg[rl.offsets[index - 1]].term ELSE rl.last_term
        <3>1. t \in 0..MaxTerm
            BY <1>0, <1>1, RecTerms
        <3>2. Drop(rl.offsets, index) \in [rl.first_index..(index - 1) -> Nat \ {0}]
            BY <1>0 DEF Drop
        <3>3. Truncated(rl, file'.seg, index)
                = [rl EXCEPT !.last_index = index - 1, !.last_term = t,
                             !.offsets = Drop(rl.offsets, index)]
            BY <1>0, <2>2 DEF Truncated, StructType
        <3> HIDE DEF t
        <3>4. index - 1 \in 0..MaxIndex
            BY <1>0
        <3> QED
            BY <1>0, <3>1, <3>2, <3>3, <3>4 DEF StructType
    <2> QED
        BY <2>1, <2>2
<1>3. StructType(rl)' /\ rl'.snap = rl.snap
    <2>1. Truncated(rl, file'.seg, index).snap = rl.snap
        BY <1>0 DEF Truncated, StructType
    <2> QED
        BY <1>0, <1>2, <2>1 DEF Truncate
<1>4. OpType'
    BY DEF Truncate, OpType
<1>5. HistoryType'
    <2>1. /\ mishaps \subseteq mishaps' /\ mishaps' \subseteq Mishap /\ votes' = votes
          /\ "emptied" \notin mishaps' => rl' = rl \/ ~(rl'.last_index < rl.snap.idx)
        BY DEF Truncate, Fault, BlindCut, LogTypeInv, HistoryType, Mishap
    <2>2. rl.snap.idx \in Nat /\ rl'.last_index \in Nat
        BY <1>0, <1>3 DEF StructType, Snap, Entry, Torn
    <2> QED
        BY <1>3, <2>1, <2>2 DEF LogTypeInv, HistoryType
<1> QED
    BY <1>1, <1>3, <1>4, <1>5 DEF LogTypeInv

\* tsdb_raft_log_compact.
LEMMA CompactTypes ==
    ASSUME LogTypeInv,
           \/ \E tip \in Entry : CompactRename(tip)
           \/ CompactInstall \/ CompactReopenFails
    PROVE  LogTypeInv'
<1>0. /\ rl.last_index \in 0..MaxIndex /\ rl.first_index \in 1..(MaxIndex + 1)
      /\ MaxIndex \in Nat /\ MaxTerm \in Nat
      /\ rl.offsets \in [rl.first_index..rl.last_index -> Nat \ {0}]
      /\ StructType(rl)
      /\ file.seg \in Seq(Rec) /\ Len(file.seg) \in Nat
    BY LogBoundAssumption DEF LogTypeInv, StructType, FileType
<1>1. CASE \E tip \in Entry : CompactRename(tip)
    <2>0. PICK tip \in Entry : CompactRename(tip)
        BY <1>1
    <2> DEFINE gone == IF tip.idx < rl.first_index THEN rl.first_index - 1 ELSE tip.idx
               need == IF rl.last_index > gone THEN rl.last_index - gone ELSE 0
    <2>1. /\ tip.idx \in 1..MaxIndex /\ gone \in Nat /\ need \in Nat
          /\ tip.idx + need <= MaxIndex /\ Torn \in Rec
        BY <1>0 DEF Entry, Rec
    <2>2. Kept(tip) = [k \in 1..need |-> RecAt(rl, file.seg, gone + k)]
        BY DEF Kept
    <2> HIDE DEF gone, need
    <2>3. \A i : RecAt(rl, file.seg, i) \in Rec
        BY <1>0, <2>1 DEF RecAt
    <2>4. Kept(tip) \in Seq(Rec) /\ Len(Kept(tip)) = need
        BY <2>1, <2>2, <2>3
    <2>5. FileType'
        <3>1. undo' \in Seq(Seq(Rec))
            BY <1>0, <2>0 DEF CompactRename
        <3>2. file' = [file EXCEPT !.seg = Kept(tip)]
            BY <2>0 DEF CompactRename
        <3> QED
            BY <2>4, <3>1, <3>2 DEF LogTypeInv, FileType
    <2>6. OpType'
        BY <2>0, <2>1, <2>4, <1>0 DEF CompactRename, OpType, LogTypeInv, FileType
    <2> QED
        BY <2>0, <2>5, <2>6 DEF CompactRename, LogTypeInv, StructType, HistoryType
<1>2. CASE CompactInstall
    <2> DEFINE n == Len(file.seg)
    <2>1. /\ arg \in Entry /\ arg.idx + n <= MaxIndex /\ n \in Nat /\ arg \in Snap
          /\ arg.idx \in 1..MaxIndex /\ arg.term \in 1..MaxTerm
        BY <1>0, <1>2 DEF CompactInstall, LogTypeInv, OpType, Entry, Snap
    <2>2. StructType(rl)' /\ rl'.snap = arg /\ rl'.last_index = arg.idx + n
        <3> DEFINE o == [i \in (arg.idx + 1)..(arg.idx + n) |-> i - arg.idx]
                   t == IF n = 0 THEN arg.term ELSE file.seg[n].term
        <3>1. o \in [(arg.idx + 1)..(arg.idx + n) -> Nat \ {0}]
            BY <2>1
        <3>2. t \in 0..MaxTerm
            BY <1>0, <2>1, RecTerms
        <3>3. rl' = [rl EXCEPT !.first_index = arg.idx + 1,
                               !.last_index = arg.idx + n, !.last_term = t,
                               !.offsets = o, !.snap = arg]
            BY <1>2 DEF CompactInstall, Compacted
        <3> HIDE DEF o, t, n
        <3>4. /\ arg.idx + 1 \in 1..(MaxIndex + 1) /\ arg.idx + n \in 0..MaxIndex
              /\ MaxTerm > 0
            BY <1>0, <2>1
        <3>5. /\ rl'.first_index = arg.idx + 1 /\ rl'.last_index = arg.idx + n
              /\ rl'.last_term = t /\ rl'.offsets = o /\ rl'.snap = arg
              /\ rl'.term = rl.term /\ rl'.vote = rl.vote /\ DOMAIN rl' = DOMAIN rl
            BY <1>0, <3>3 DEF StructType
        <3> QED
            BY <1>0, <2>1, <3>1, <3>2, <3>4, <3>5 DEF StructType
    <2>3. FileType'
        BY <1>2, <2>1 DEF CompactInstall, LogTypeInv, FileType
    <2>4. HistoryType'
        <3>1. mishaps \subseteq mishaps' /\ mishaps' \subseteq Mishap /\ votes' = votes
            BY <1>2 DEF CompactInstall, Fault, NoFault, LogTypeInv, HistoryType, Mishap
        <3> QED
            BY <2>1, <2>2, <3>1 DEF LogTypeInv, HistoryType
    <2>5. OpType'
        BY <1>2 DEF CompactInstall, OpType
    <2> QED
        BY <2>2, <2>3, <2>4, <2>5 DEF LogTypeInv
<1>3. CASE CompactReopenFails
    BY <1>3 DEF CompactReopenFails, Fault, LogTypeInv, FileType, OpType, StructType,
                HistoryType, Mishap
<1> QED
    BY <1>1, <1>2, <1>3

\* A crash, and tsdb_raft_log_open after it.
LEMMA CrashTypes ==
    ASSUME LogTypeInv, Crash
    PROVE  LogTypeInv'
<1>0. file.seg \in Seq(Rec) /\ undo \in Seq(Seq(Rec)) /\ MaxTerm \in Nat
    BY LogBoundAssumption DEF LogTypeInv, FileType
<1>1. ASSUME NEW s \in SegAfterCrash PROVE s[1] \in Seq(Rec) /\ s[2] \subseteq Mishap
    <2>1. CASE s = <<file.seg, {}>>
        BY <1>0, <2>1
    <2>2. CASE pc = "append" /\ s \in {<<Append(file.seg, arg), {}>>,
                   <<Append(file.seg, Torn), {}>>, <<Append(file.seg, Stub), {"stub"}>>}
        <3>1. {arg, Torn, Stub} \subseteq Rec
            BY <1>0, <2>2 DEF LogTypeInv, OpType, Entry, Rec
        <3> QED
            <4>1. /\ Append(file.seg, arg) \in Seq(Rec)
                  /\ Append(file.seg, Torn) \in Seq(Rec)
                  /\ Append(file.seg, Stub) \in Seq(Rec)
                BY <1>0, <3>1
            <4>2. CASE s = <<Append(file.seg, arg), {}>>
                BY <4>1, <4>2
            <4>3. CASE s = <<Append(file.seg, Torn), {}>>
                BY <4>1, <4>3
            <4>4. CASE s = <<Append(file.seg, Stub), {"stub"}>>
                BY <4>1, <4>4 DEF Mishap
            <4> QED
                BY <2>2, <4>2, <4>3, <4>4
    <2>3. CASE undo # <<>> /\ s = <<undo[1], LostRename(undo[1])>>
        <3>1. undo[1] \in Seq(Rec)
            BY <1>0, <2>3
        <3> QED
            BY <2>3, <3>1 DEF LostRename, Mishap
    <2> QED
        BY <1>1, <2>1, <2>2, <2>3, Zenon DEF SegAfterCrash
<1>2. PICK s \in SegAfterCrash :
          /\ file' = [file EXCEPT !.seg = s[1]]
          /\ mishaps' = mishaps \union s[2]
                        \union (IF pc = "compact" /\ s[2] = {} THEN {"marker"} ELSE {})
    BY DEF Crash
<1>3. FileType'
    <2>1. s[1] \in Seq(Rec) /\ undo' = <<>>
        BY <1>1, <1>2 DEF Crash
    <2>2. undo' \in Seq(Seq(Rec))
        BY <2>1
    <2>3. file' \in [meta : 0..MaxTerm, vote : Node \union {0}, snap : Snap,
                     seg : Seq(Rec)]
        BY <1>2, <2>1 DEF LogTypeInv, FileType
    <2> QED
        BY <2>2, <2>3 DEF FileType
<1>4. HistoryType'
    <2>1. mishaps \subseteq mishaps' /\ mishaps' \subseteq Mishap
        BY <1>1, <1>2 DEF LogTypeInv, HistoryType, Mishap
    <2> QED
        BY <2>1 DEF Crash, LogTypeInv, HistoryType
<1> QED
    BY <1>3, <1>4 DEF Crash, LogTypeInv, OpType, StructType

LEMMA OpenTypes ==
    ASSUME LogTypeInv, Open
    PROVE  LogTypeInv'
<1>1. FileType'
    <2>1. SegAfterOpen(file.seg) \in Seq(Rec)
        BY SegAfterOpenType DEF LogTypeInv, FileType
    <2> QED
        BY <2>1 DEF Open, LogTypeInv, FileType
<1>2. StructType(rl)' /\ rl'.last_index >= rl'.snap.idx
    <2>1. PICK junk \in Junk(file.seg) : rl' = Opened(file, junk)
        BY DEF Open
    <2>2. junk \in Nat \ {0}
        BY DEF Junk, LogTypeInv, FileType
    <2> QED
        BY <2>1, <2>2, OpenedType DEF LogTypeInv
<1>3. HistoryType'
    BY <1>2 DEF Open, Underflow, LogTypeInv, HistoryType, Mishap
<1>4. OpType'
    BY DEF Open, OpType
<1> QED
    BY <1>1, <1>2, <1>3, <1>4 DEF LogTypeInv

LEMMA LogTypeStep == LogTypeInv /\ [Next]_vars => LogTypeInv'
<1> SUFFICES ASSUME LogTypeInv, [Next]_vars PROVE LogTypeInv'
    OBVIOUS
<1>1. CASE UNCHANGED vars
    BY <1>1 DEF vars, LogTypeInv, FileType, StructType, OpType, HistoryType
<1>2. CASE Next
    BY <1>2, VoteTypes, AppendTypes, TruncateTypes, CompactTypes, CrashTypes,
       OpenTypes, Zenon DEF Next
<1> QED
    BY <1>1, <1>2

LEMMA LogTypeHolds == Spec => []LogTypeInv
BY LogTypeInit, LogTypeStep, PTL DEF Spec

\* For any number of entries, terms, crashes and failed writes the four files
\* and the struct keep their types: among them first_index and last_index,
\* which a compaction computes from what it kept (tsdb_raft_log_compact), and
\* last_term, which a truncate reads back from the file.
THEOREM LogTypeOKHolds == Spec => []TypeOK
<1>1. LogTypeInv => TypeOK
    <2>1. ASSUME NEW s \in Seq(Rec) PROVE s \in Seq(Entry \union {Torn, Stub})
        BY DEF Rec
    <2> QED
        BY <2>1 DEF LogTypeInv, FileType, StructType, OpType, HistoryType, TypeOK, Snap
<1> QED
    BY <1>1, LogTypeHolds, PTL

\* No entry is given an index the snapshot covers unless a truncate emptied
\* the log (tsdb_raft_log_append after compact, truncate and open).
THEOREM SubsumedIndexNotReusedHolds == Spec => []SubsumedIndexNotReused
<1>1. LogTypeInv => SubsumedIndexNotReused
    <2> SUFFICES ASSUME LogTypeInv, pc = "append", "emptied" \notin mishaps
                 PROVE  arg.idx > rl.snap.idx
        BY DEF SubsumedIndexNotReused
    <2>1. arg.idx = rl.last_index + 1 /\ rl.last_index >= rl.snap.idx
        BY DEF LogTypeInv, OpType, HistoryType
    <2>2. rl.last_index \in Int /\ rl.snap.idx \in Int
        BY DEF LogTypeInv, StructType, Snap, Entry, Torn
    <2> QED
        BY <2>1, <2>2
<1> QED
    BY <1>1, LogTypeHolds, PTL

\* What the lemmas below need of a record and of the struct.
LEMMA EntryIdx ==
    ASSUME NEW seg \in Seq(Entry), NEW k \in 1..Len(seg)
    PROVE  seg[k] \in Entry /\ seg[k].idx \in 1..MaxIndex /\ seg[k].idx \in Nat
<1>1. seg[k] \in Entry
    OBVIOUS
<1> QED
    BY <1>1, LogBoundAssumption DEF Entry

LEMMA StructNats ==
    ASSUME NEW r, StructType(r)
    PROVE  /\ r.snap.idx \in Nat /\ r.first_index \in Nat \ {0}
           /\ r.last_index \in Nat
<1>1. r.snap \in Snap /\ r.first_index \in 1..(MaxIndex + 1)
      /\ r.last_index \in 0..MaxIndex
    BY DEF StructType
<1> QED
    BY <1>1, LogBoundAssumption DEF Snap, Entry, Torn

\* A complete segment is scanned to its end, and a torn record ends the scan.
LEMMA ScanWhole ==
    ASSUME NEW seg \in Seq(Entry)
    PROVE  /\ Scanned(seg) = seg
           /\ MaxTerm > 0 => Scanned(Append(seg, Torn)) = seg
<1>0. Len(seg) \in Nat /\ \A k \in 1..Len(seg) : seg[k].idx # 0
    BY EntryIdx
<1>1. Scanned(seg) = seg
    <2>1. seg \in Seq(Rec)
        BY DEF Rec
    <2>2. PICK n \in 0..Len(seg) : /\ Scanned(seg) = SubSeq(seg, 1, n)
                                   /\ n < Len(seg) => seg[n + 1].idx = 0
        BY <2>1, ScanStops
    <2>3. n = Len(seg)
        BY <1>0, <2>2
    <2> QED
        BY <2>2, <2>3, SubSeqFull
<1>2. ASSUME MaxTerm > 0 PROVE Scanned(Append(seg, Torn)) = seg
    <2> DEFINE t == Append(seg, Torn)
    <2>1. t \in Seq(Rec) /\ Len(t) = Len(seg) + 1
        BY <1>2 DEF Rec
    <2>2. (\A k \in 1..Len(seg) : t[k] = seg[k]) /\ t[Len(seg) + 1] = Torn
        OBVIOUS
    <2> HIDE DEF t
    <2>3. PICK n \in 0..Len(t) : /\ Scanned(t) = SubSeq(t, 1, n)
                                 /\ \A k \in 1..n : t[k].idx # 0
                                 /\ n < Len(t) => t[n + 1].idx = 0
        BY <2>1, ScanStops
    <2>4. n = Len(seg)
        <3>1. ~(n < Len(seg))
            BY <1>0, <2>1, <2>2, <2>3
        <3>2. n # Len(seg) + 1
            BY <1>0, <2>2, <2>3 DEF Torn
        <3> QED
            BY <1>0, <2>1, <3>1, <3>2
    <2>5. SubSeq(t, 1, Len(seg)) = seg
        <3>1. SubSeq(t, 1, Len(seg)) \in Seq(Rec) /\ Len(SubSeq(t, 1, Len(seg))) = Len(seg)
            BY <1>0, <2>1, SubSeqProperties
        <3>2. \A k \in 1..Len(seg) : SubSeq(t, 1, Len(seg))[k] = seg[k]
            BY <1>0, <2>1, <2>2, SubSeqProperties
        <3> QED
            BY <3>1, <3>2, SeqEqual
    <2> QED
        BY <2>3, <2>4, <2>5 DEF t
<1> QED
    BY <1>1, <1>2

-----------------------------------------------------------------------------
(***************************************************************************)
(* What a reopen would see.  As long as nothing but a lost rename happened *)
(* the segment is one run of consecutive indexes that starts at or before  *)
(* the one after the snapshot, and the struct says the same.  A segment    *)
(* that is empty or reaches the snapshot is all an open needs to build     *)
(* that struct, with no slot of the offset table left unwritten.           *)
(***************************************************************************)
Running == pc \in {"idle", "set_term", "append"}

Run(seg, first) ==
    seg \in Seq(Entry) /\ \A k \in 1..Len(seg) : seg[k].idx = first + k - 1

Starts(seg, snap) == seg = <<>> \/ (Run(seg, seg[1].idx) /\ seg[1].idx <= snap + 1)

Reaches(seg, snap) ==
    Starts(seg, snap) /\ (seg = <<>> \/ seg[Len(seg)].idx >= snap)

Tidy(r, seg) ==
    /\ r.first_index \in 1..(r.snap.idx + 1)
    /\ Run(seg, r.first_index)
    /\ r.last_index = r.first_index + Len(seg) - 1
    /\ r.last_index >= r.snap.idx
    /\ r.last_term = IF seg = <<>> THEN r.snap.term ELSE seg[Len(seg)].term
    /\ r.offsets = [i \in r.first_index..r.last_index |-> i - r.first_index + 1]

Clean == mishaps \subseteq {"rename_lost"}

SameInv ==
    Clean =>
    /\ undo # <<>> => Starts(undo[1], file.snap.idx)
    /\ Running => rl.snap = file.snap /\ Tidy(rl, file.seg)
    /\ pc = "compact" => arg.idx > file.snap.idx /\ Run(file.seg, arg.idx + 1)
    /\ pc = "down" =>
          /\ Reaches(Scanned(file.seg), file.snap.idx)
          /\ file.seg \in {Scanned(file.seg), Append(Scanned(file.seg), Torn)}

FilesInv == LogTypeInv /\ SameInv

LEMMA RunFacts ==
    ASSUME NEW seg, NEW first \in Nat, Run(seg, first)
    PROVE  /\ seg \in Seq(Entry) /\ Len(seg) \in Nat
           /\ seg # <<>> => Len(seg) > 0 /\ seg[1].idx = first
                            /\ seg[Len(seg)].idx = first + Len(seg) - 1
           /\ seg = <<>> => Len(seg) = 0
<1>1. seg \in Seq(Entry) /\ Len(seg) \in Nat
    BY DEF Run
<1>2. seg # <<>> => Len(seg) > 0
    BY <1>1
<1>3. ASSUME Len(seg) > 0
      PROVE  seg[1].idx = first /\ seg[Len(seg)].idx = first + Len(seg) - 1
    BY <1>1, <1>3 DEF Run
<1> QED
    BY <1>1, <1>2, <1>3

\* Where in a run an index stands.
LEMMA RunPosition ==
    ASSUME NEW first \in Nat, NEW n \in Nat, NEW i \in Nat, i >= first,
           NEW last, last = first + n - 1, i <= last
    PROVE  i - first + 1 \in 1..n /\ first + (i - first + 1) - 1 = i
OBVIOUS

\* The segment of a running node is empty or reaches the snapshot.
LEMMA TidyReaches ==
    ASSUME NEW r, NEW seg, r.snap.idx \in Nat, Tidy(r, seg)
    PROVE  Reaches(seg, r.snap.idx)
<1>1. r.first_index \in Nat /\ Run(seg, r.first_index)
    BY DEF Tidy
<1>2. CASE seg = <<>>
    BY <1>2 DEF Reaches, Starts
<1>3. CASE seg # <<>>
    <2>1. /\ seg[1].idx = r.first_index
          /\ seg[Len(seg)].idx = r.last_index
        BY <1>1, <1>3, RunFacts DEF Tidy
    <2> QED
        BY <1>1, <2>1 DEF Reaches, Starts, Tidy
<1> QED
    BY <1>2, <1>3

\* A run from one index to another.
Spans(g, first, last) == Run(g, first) /\ last = first + Len(g) - 1

\* The slot of an index of a run leads to its only record.
LEMMA RunSlot ==
    ASSUME NEW g, NEW first \in Nat, NEW last \in Nat, Run(g, first),
           NEW junk \in Nat \ {0}, NEW k \in 1..Len(g), g[k].idx \in first..last
    PROVE  OffsetsOf(g, first, last, junk)[g[k].idx] = k
<1>1. g \in Seq(Entry) /\ Len(g) \in Nat
    BY DEF Run
<1>2. PICK p \in 1..Len(g) : /\ OffsetsOf(g, first, last, junk)[g[k].idx] = p
                             /\ g[p].idx = g[k].idx /\ k <= p
    BY <1>1, OffsetHeld
<1>3. p = k
    <2>1. first + p - 1 = first + k - 1
        BY <1>2 DEF Run
    <2> QED
        BY <1>1, <2>1
<1> QED
    BY <1>2, <1>3

\* The offset table of a run, which has no slot that is not written.
LEMMA RunOffsets ==
    ASSUME NEW g, NEW first \in Nat, NEW last \in Nat, NEW junk \in Nat \ {0},
           Spans(g, first, last), NEW o, o = OffsetsOf(g, first, last, junk)
    PROVE  o = [i \in first..last |-> i - first + 1]
<1>1. g \in Seq(Entry) /\ Len(g) \in Nat
    BY DEF Spans, Run
<1>2. ASSUME NEW i \in first..last PROVE o[i] = i - first + 1
    <2>1. i - first + 1 \in 1..Len(g) /\ first + (i - first + 1) - 1 = i
        BY <1>1 DEF Spans
    <2>2. g[i - first + 1].idx = i
        BY <2>1 DEF Spans, Run
    <2>3. PICK k \in 1..Len(g) : k = i - first + 1 /\ g[k].idx = i
        BY <2>1, <2>2
    <2>4. g[k].idx \in first..last /\ Run(g, first)
        BY <2>3 DEF Spans
    <2>5. OffsetsOf(g, first, last, junk)[g[k].idx] = k
        BY <2>4, RunSlot
    <2> QED
        BY <2>3, <2>5
<1>3. o = [i \in first..last |-> o[i]]
    BY DEF OffsetsOf
<1> QED
    BY <1>2, <1>3

\* What a reopen builds from a segment that reaches the snapshot.
LEMMA OpenedTidy ==
    ASSUME FileType, NEW g, g = Scanned(file.seg), Reaches(g, file.snap.idx),
           NEW junk \in Nat \ {0}, NEW o, o = Opened(file, junk)
    PROVE  o.snap = file.snap /\ Tidy(o, g) /\ o.term = file.meta /\ o.vote = file.vote
<1> DEFINE n == Len(g)
           snap == file.snap.idx
<1>1. snap \in Nat /\ file.seg \in Seq(Rec)
    BY LogBoundAssumption DEF FileType, Snap, Entry, Torn
<1>2. g \in Seq(Entry) /\ n \in Nat
    BY <1>1, ScanEntries
<1>3. o.snap = file.snap /\ o.term = file.meta /\ o.vote = file.vote
    BY DEF Opened
<1>4. CASE n = 0
    <2>1. /\ o.first_index = snap + 1 /\ o.last_index = snap
          /\ o.last_term = file.snap.term /\ o.offsets = <<>>
        BY <1>4 DEF Opened, Rebuilt
    <2>2. g = <<>>
        BY <1>2, <1>4
    <2>3. <<>> = [i \in (snap + 1)..snap |-> i - (snap + 1) + 1]
        <3>1. (snap + 1)..snap = {}
            BY <1>1
        <3> QED
            BY <3>1
    <2>4. Run(g, snap + 1)
        BY <2>2 DEF Run
    <2>5. Tidy(o, g)
        BY <1>1, <1>3, <1>4, <2>1, <2>2, <2>3, <2>4 DEF Tidy
    <2> QED
        BY <1>3, <2>5
<1>5. CASE n # 0
    <2>1. g # <<>> /\ n \in Nat \ {0} /\ 1 \in 1..n /\ n \in 1..n
        BY <1>2, <1>5
    <2> DEFINE first == g[1].idx
               last == g[n].idx
    <2>2. first \in Nat \ {0} /\ last \in Nat
        BY <1>2, <2>1, EntryIdx
    <2>3. Run(g, first) /\ first <= snap + 1 /\ last >= snap
        BY <2>1 DEF Reaches, Starts
    <2>4. last = first + n - 1
        BY <2>1, <2>2, <2>3, RunFacts
    <2>5. /\ o.first_index = first /\ o.last_index = last
          /\ o.last_term = g[n].term /\ o.offsets = OffsetsOf(g, first, last, junk)
        <3>1. ~(n = 0 \/ g[n].idx < snap)
            BY <1>1, <1>5, <2>2, <2>3
        <3> QED
            BY <3>1 DEF Opened, Rebuilt
    <2> HIDE DEF first, last
    <2>7. OffsetsOf(g, first, last, junk) = [i \in first..last |-> i - first + 1]
        BY <2>2, <2>3, <2>4, RunOffsets DEF Spans
    <2>8. Tidy(o, g)
        BY <1>1, <1>3, <2>1, <2>2, <2>3, <2>4, <2>5, <2>7 DEF Tidy
    <2> QED
        BY <1>3, <2>8
<1> QED
    BY <1>4, <1>5

\* An open leaves the records it scanned in the segment.
LEMMA OpenCuts ==
    ASSUME NEW seg, NEW g \in Seq(Entry), g = Scanned(seg),
           seg \in {g, Append(g, Torn)}
    PROVE  SegAfterOpen(seg) = g
<1>1. CASE seg = g
    <2>1. Len(g) + 1 # Len(seg)
        BY <1>1
    <2> QED
        BY <2>1 DEF SegAfterOpen
<1>2. CASE seg = Append(g, Torn)
    <2>1. seg[Len(g) + 1] = Torn
        BY <1>2
    <2>2. Torn # Stub
        BY DEF Torn, Stub
    <2> QED
        BY <2>1, <2>2 DEF SegAfterOpen
<1> QED
    BY <1>1, <1>2

LEMMA SameInit == Init => FilesInv
<1> SUFFICES ASSUME Init PROVE FilesInv
    OBVIOUS
<1>1. LogTypeInv /\ FileType
    BY LogTypeInit DEF LogTypeInv
<1>2. file.seg = <<>> /\ rl = Opened(file, 1) /\ undo = <<>> /\ pc = "idle"
    BY DEF Init
<1>3. <<>> \in Seq(Entry)
    OBVIOUS
<1>4. Scanned(file.seg) = <<>>
    BY <1>2, <1>3, ScanWhole
<1>5. Reaches(<<>>, file.snap.idx)
    BY DEF Reaches, Starts
<1>6. 1 \in Nat \ {0}
    OBVIOUS
<1>7. rl.snap = file.snap /\ Tidy(rl, <<>>)
    BY <1>1, <1>2, <1>4, <1>5, <1>6, OpenedTidy
<1> QED
    BY <1>1, <1>2, <1>7 DEF FilesInv, SameInv

\* A step that leaves the segment, the snapshot and the log of a running node
\* alone.
LEMMA SameFrame ==
    ASSUME SameInv, Running, Running', file'.seg = file.seg, file'.snap = file.snap,
           undo' = undo, rl'.snap = rl.snap, rl'.first_index = rl.first_index,
           rl'.last_index = rl.last_index, rl'.last_term = rl.last_term,
           rl'.offsets = rl.offsets, mishaps \subseteq mishaps'
    PROVE  SameInv'
<1>1. Clean' => Clean
    BY DEF Clean
<1>2. pc' # "compact" /\ pc' # "down"
    BY DEF Running
<1>3. Tidy(rl, file.seg) => Tidy(rl, file.seg)'
    BY DEF Tidy
<1> QED
    BY <1>1, <1>2, <1>3 DEF SameInv

LEMMA QuietSame ==
    ASSUME FilesInv,
           \/ \E t \in 1..MaxTerm : SetTerm(t) \/ AppendWrite(t)
           \/ SetTermVote
           \/ \E n \in Node : SetVotedFor(n)
           \/ AppendFails
    PROVE  SameInv'
<1>0. /\ StructType(rl) /\ SameInv
      /\ file \in [meta : 0..MaxTerm, vote : Node \union {0}, snap : Snap,
                   seg : Seq(Rec)]
      /\ DOMAIN rl = {"term", "vote", "snap", "first_index", "last_index",
                      "last_term", "offsets"}
      /\ rl.first_index \in Nat \ {0}
    BY StructNats DEF FilesInv, LogTypeInv, StructType, FileType
<1>1. CASE \E t \in 1..MaxTerm : SetTerm(t)
    <2>1. PICK t \in 1..MaxTerm : SetTerm(t)
        BY <1>1
    <2>2. /\ file'.seg = file.seg /\ file'.snap = file.snap /\ undo' = undo
          /\ rl'.snap = rl.snap /\ rl'.last_index = rl.last_index
          /\ rl'.last_term = rl.last_term
          /\ rl'.offsets = rl.offsets /\ rl'.first_index = rl.first_index
        BY <1>0, <2>1 DEF SetTerm
    <2>3. mishaps \subseteq mishaps' /\ Running /\ Running'
        BY <2>1 DEF SetTerm, Fault, NoFault, Running
    <2> QED
        BY <1>0, <2>2, <2>3, SameFrame
<1>2. CASE \E t \in 1..MaxTerm : AppendWrite(t)
    <2>1. PICK t \in 1..MaxTerm : AppendWrite(t)
        BY <1>2
    <2>2. /\ file' = file /\ undo' = undo /\ mishaps' = mishaps /\ Running /\ Running'
          /\ rl' = IF rl.last_index = 0 THEN [rl EXCEPT !.first_index = 1] ELSE rl
          /\ pc = "idle"
        BY <2>1 DEF AppendWrite, Running
    <2> SUFFICES ASSUME Clean PROVE SameInv'
        BY <2>2 DEF SameInv, Clean
    <2>3. rl'.first_index = rl.first_index
        <3>1. Tidy(rl, file.seg)
            BY <1>0, <2>2 DEF SameInv
        <3>2. /\ rl.last_index = rl.first_index + Len(file.seg) - 1
              /\ Len(file.seg) \in Nat
            BY <3>1 DEF Tidy, Run
        <3>3. rl.last_index = 0 => rl.first_index = 1
            BY <1>0, <3>2
        <3> QED
            BY <1>0, <2>2, <3>3
    <2>4. /\ rl'.snap = rl.snap /\ rl'.last_index = rl.last_index
          /\ rl'.last_term = rl.last_term /\ rl'.offsets = rl.offsets
        BY <1>0, <2>2
    <2> QED
        BY <1>0, <2>2, <2>3, <2>4, SameFrame
<1>3. CASE SetTermVote
    <2>2. /\ file'.seg = file.seg /\ file'.snap = file.snap /\ undo' = undo /\ rl' = rl
        BY <1>0, <1>3 DEF SetTermVote
    <2>3. mishaps \subseteq mishaps' /\ Running /\ Running'
        BY <1>3 DEF SetTermVote, Fault, NoFault, Running
    <2> QED
        BY <1>0, <2>2, <2>3, SameFrame
<1>4. CASE \E n \in Node : SetVotedFor(n)
    <2>1. PICK n \in Node : SetVotedFor(n)
        BY <1>4
    <2>2. /\ file'.seg = file.seg /\ file'.snap = file.snap /\ undo' = undo
          /\ rl'.snap = rl.snap /\ rl'.last_index = rl.last_index
          /\ rl'.last_term = rl.last_term
          /\ rl'.offsets = rl.offsets /\ rl'.first_index = rl.first_index
        BY <1>0, <2>1 DEF SetVotedFor
    <2>3. mishaps \subseteq mishaps' /\ Running /\ Running'
        BY <2>1 DEF SetVotedFor, Fault, NoFault, Running
    <2> QED
        BY <1>0, <2>2, <2>3, SameFrame
<1>5. CASE AppendFails
    <2>1. CASE UNCHANGED file /\ Fault({})
        BY <1>0, <1>5, <2>1, SameFrame DEF AppendFails, Fault, Running
    <2>2. CASE Fault({"kept_tail"})
        BY <2>2 DEF Fault, SameInv, Clean
    <2> QED
        BY <1>5, <2>1, <2>2 DEF AppendFails
<1> QED
    BY <1>1, <1>2, <1>3, <1>4, <1>5

\* What the actions below need of a running node.
LEMMA CleanFacts ==
    ASSUME FilesInv, Clean, Running
    PROVE  /\ rl.snap = file.snap /\ Tidy(rl, file.seg) /\ StructType(rl)
           /\ Run(file.seg, rl.first_index) /\ file.seg \in Seq(Entry)
           /\ Len(file.seg) \in Nat
           /\ rl.snap.idx \in Nat /\ rl.first_index \in Nat \ {0}
           /\ rl.last_index \in Nat /\ rl.first_index <= rl.snap.idx + 1
           /\ rl.last_index = rl.first_index + Len(file.seg) - 1
           /\ rl.last_index >= rl.snap.idx
           /\ rl.offsets = [i \in rl.first_index..rl.last_index |->
                               i - rl.first_index + 1]
           /\ undo # <<>> => Starts(undo[1], file.snap.idx)
<1>1. /\ rl.snap = file.snap /\ Tidy(rl, file.seg) /\ StructType(rl)
      /\ undo # <<>> => Starts(undo[1], file.snap.idx)
    BY DEF FilesInv, SameInv, LogTypeInv
<1>2. rl.snap.idx \in Nat /\ rl.first_index \in Nat \ {0} /\ rl.last_index \in Nat
    BY <1>1, StructNats
<1> QED
    BY <1>1, <1>2 DEF Tidy, Run

\* An append extends the run.
LEMMA RunAppend ==
    ASSUME NEW seg, NEW first \in Nat, Run(seg, first), NEW e \in Entry,
           e.idx = first + Len(seg)
    PROVE  /\ Run(Append(seg, e), first) /\ Len(Append(seg, e)) = Len(seg) + 1
           /\ Append(seg, e)[Len(seg) + 1] = e
<1>1. seg \in Seq(Entry) /\ Len(seg) \in Nat
    BY DEF Run
<1> DEFINE s == Append(seg, e)
<1>2. /\ s \in Seq(Entry) /\ Len(s) = Len(seg) + 1 /\ s[Len(seg) + 1] = e
      /\ \A k \in 1..Len(seg) : s[k] = seg[k]
    BY <1>1
<1> HIDE DEF s
<1>3. ASSUME NEW k \in 1..Len(s) PROVE s[k].idx = first + k - 1
    <2>1. CASE k = Len(seg) + 1
        BY <1>1, <1>2, <2>1
    <2>2. CASE k # Len(seg) + 1
        <3>1. k \in 1..Len(seg)
            BY <1>1, <1>2, <2>2
        <3> QED
            BY <1>2, <3>1 DEF Run
    <2> QED
        BY <2>1, <2>2
<1>4. Run(s, first)
    BY <1>2, <1>3 DEF Run
<1> QED
    BY <1>2, <1>4 DEF s

LEMMA AppendSame ==
    ASSUME FilesInv, AppendSync
    PROVE  SameInv'
<1>0. /\ pc = "append" /\ pc' = "idle" /\ undo' = undo /\ mishaps' = mishaps
      /\ file' = [file EXCEPT !.seg = Append(file.seg, arg)]
    BY DEF AppendSync
<1>1. /\ arg \in Entry /\ arg.idx = rl.last_index + 1
      /\ file \in [meta : 0..MaxTerm, vote : Node \union {0}, snap : Snap,
                   seg : Seq(Rec)]
    BY <1>0 DEF FilesInv, LogTypeInv, OpType, FileType
<1>2. file'.snap = file.snap /\ file'.seg = Append(file.seg, arg)
    BY <1>0, <1>1
<1> SUFFICES ASSUME Clean PROVE SameInv'
    BY <1>0 DEF SameInv, Clean
<1>3. /\ rl.snap = file.snap /\ Tidy(rl, file.seg) /\ StructType(rl)
      /\ Run(file.seg, rl.first_index)
      /\ Len(file.seg) \in Nat
      /\ rl.snap.idx \in Nat /\ rl.first_index \in Nat \ {0}
      /\ rl.last_index \in Nat /\ rl.first_index <= rl.snap.idx + 1
      /\ rl.last_index = rl.first_index + Len(file.seg) - 1
      /\ rl.last_index >= rl.snap.idx
      /\ rl.offsets = [i \in rl.first_index..rl.last_index |->
                          i - rl.first_index + 1]
      /\ undo # <<>> => Starts(undo[1], file.snap.idx)
    BY <1>0, CleanFacts DEF Running
<1> DEFINE s == Append(file.seg, arg)
           n == Len(file.seg)
<1>4. arg.idx = rl.first_index + n
    <2>1. /\ arg.idx = rl.last_index + 1 /\ rl.last_index = rl.first_index + n - 1
          /\ rl.first_index \in Nat /\ n \in Nat
        BY <1>1, <1>3
    <2> QED
        BY <2>1
<1>5. Run(s, rl.first_index) /\ Len(s) = n + 1 /\ s[n + 1] = arg
    BY <1>1, <1>3, <1>4, RunAppend
<1>6. /\ rl'.snap = rl.snap /\ rl'.last_index = arg.idx /\ rl'.last_term = arg.term
      /\ rl'.first_index = rl.first_index
      /\ rl'.offsets = [i \in rl.first_index..arg.idx |->
                           IF i = arg.idx THEN n + 1 ELSE rl.offsets[i]]
    BY <1>3 DEF AppendSync, StructType
<1> HIDE DEF s, n
<1>7. rl'.offsets = [i \in rl.first_index..arg.idx |-> i - rl.first_index + 1]
    <2>1. ASSUME NEW i \in rl.first_index..arg.idx
          PROVE  (IF i = arg.idx THEN n + 1 ELSE rl.offsets[i]) = i - rl.first_index + 1
        <3>1. CASE i = arg.idx
            BY <1>3, <1>4, <3>1 DEF n
        <3>2. CASE i # arg.idx
            <4>1. i \in rl.first_index..rl.last_index
                BY <1>1, <1>3, <3>2
            <4> QED
                BY <1>3, <3>2, <4>1
        <3> QED
            BY <3>1, <3>2
    <2> QED
        BY <1>6, <2>1
<1>8. s # <<>> /\ s[Len(s)].term = arg.term
    <2>1. Len(s) # 0
        BY <1>3, <1>5 DEF n
    <2> QED
        BY <1>5, <2>1
<1>9. Tidy(rl', s)
    BY <1>1, <1>3, <1>4, <1>5, <1>6, <1>7, <1>8 DEF Tidy, n
<1> QED
    BY <1>0, <1>2, <1>3, <1>6, <1>9 DEF SameInv, s

\* A truncate that does not empty a log with a snapshot shortens the run.
LEMMA TruncateSame ==
    ASSUME FilesInv, NEW index \in 1..MaxIndex, Truncate(index)
    PROVE  SameInv'
<1>0. /\ pc = "idle" /\ pc' = "idle" /\ undo' = undo
      /\ index \in rl.first_index..rl.last_index
      /\ file' = [file EXCEPT !.seg = CutAt(file.seg, rl.offsets[index])]
      /\ mishaps \subseteq mishaps'
    BY DEF Truncate, Fault
<1> SUFFICES ASSUME Clean' PROVE SameInv'
    BY DEF SameInv
<1>1. /\ Clean /\ rl' = Truncated(rl, file'.seg, index)
      /\ ~(rl'.last_index < rl.snap.idx)
    BY DEF Truncate, Fault, Clean
<1>2. /\ rl.snap = file.snap /\ StructType(rl)
      /\ Run(file.seg, rl.first_index) /\ file.seg \in Seq(Entry)
      /\ Len(file.seg) \in Nat
      /\ rl.snap.idx \in Nat /\ rl.first_index \in Nat \ {0}
      /\ rl.last_index \in Nat /\ rl.first_index <= rl.snap.idx + 1
      /\ rl.last_index = rl.first_index + Len(file.seg) - 1
      /\ rl.offsets = [i \in rl.first_index..rl.last_index |->
                          i - rl.first_index + 1]
      /\ undo # <<>> => Starts(undo[1], file.snap.idx)
    BY <1>0, <1>1, CleanFacts DEF Running
<1> DEFINE n == Len(file.seg)
           p == index - rl.first_index + 1
           s == SubSeq(file.seg, 1, p - 1)
<1>3. index \in Nat /\ p \in 1..n /\ rl.offsets[index] = p
    BY <1>0, <1>2
<1> HIDE DEF p
<1>4. file'.seg = s /\ file'.snap = file.snap
    <2>1. CutAt(file.seg, p) = s
        BY <1>2, <1>3 DEF CutAt
    <2> QED
        BY <1>0, <1>3, <2>1 DEF FilesInv, LogTypeInv, FileType
<1>5. s \in Seq(Entry) /\ Len(s) = p - 1 /\ \A k \in 1..(p - 1) : s[k] = file.seg[k]
    <2>1. p - 1 \in 0..Len(file.seg)
        BY <1>2, <1>3
    <2> QED
        BY <1>2, <2>1, SubSeqProperties
<1> HIDE DEF s
<1>6. Run(s, rl.first_index)
    <2>1. \A k \in 1..(p - 1) : k \in 1..n
        BY <1>2, <1>3
    <2> QED
        BY <1>2, <1>5, <2>1 DEF Run
<1>7. CASE index - 1 < rl.first_index
    <2>1. /\ rl'.snap = rl.snap /\ rl'.first_index = 1 /\ rl'.last_index = 0
          /\ rl'.last_term = 0 /\ rl'.offsets = <<>>
        BY <1>1, <1>2, <1>7 DEF Truncated, StructType
    <2>2. rl.snap.idx = 0 /\ rl.first_index = 1 /\ p = 1
        BY <1>0, <1>1, <1>2, <1>3, <1>7, <2>1 DEF p
    <2>3. rl.snap.term = 0
        <3>1. rl.snap \in Entry \/ rl.snap = Torn
            BY <1>2 DEF StructType, Snap
        <3>2. rl.snap \notin Entry
            BY <2>2 DEF Entry
        <3> QED
            BY <3>1, <3>2 DEF Torn
    <2>4. s = <<>>
        BY <1>5, <2>2
    <2>5. <<>> = [i \in 1..0 |-> i - 1 + 1]
        <3>1. 1..0 = {}
            OBVIOUS
        <3> QED
            BY <3>1
    <2>6. Len(s) = 0
        BY <2>4
    <2>7. Tidy(rl', s)
        BY <1>6, <2>1, <2>2, <2>3, <2>4, <2>5, <2>6 DEF Tidy
    <2> QED
        BY <1>0, <1>2, <1>4, <2>1, <2>7 DEF SameInv
<1>8. CASE ~(index - 1 < rl.first_index)
    <2>1. /\ rl'.snap = rl.snap /\ rl'.first_index = rl.first_index
          /\ rl'.last_index = index - 1 /\ rl'.offsets = Drop(rl.offsets, index)
          /\ rl'.last_term = IF rl.offsets[index - 1] \in 1..Len(s)
                             THEN s[rl.offsets[index - 1]].term ELSE rl.last_term
        BY <1>1, <1>2, <1>4, <1>8 DEF Truncated, StructType
    <2>2. /\ index - 1 \in rl.first_index..rl.last_index
          /\ rl.offsets[index - 1] = p - 1 /\ p - 1 \in 1..Len(s)
        <3>1. /\ index \in Nat /\ rl.first_index \in Nat /\ rl.last_index \in Nat
              /\ index \in rl.first_index..rl.last_index /\ Len(s) = p - 1
            BY <1>0, <1>2, <1>3, <1>5
        <3>2. /\ index - 1 \in rl.first_index..rl.last_index
              /\ (index - 1) - rl.first_index + 1 = p - 1 /\ p - 1 \in 1..Len(s)
            BY <1>8, <3>1 DEF p
        <3> QED
            BY <1>2, <3>2
    <2>3. rl'.last_term = s[Len(s)].term /\ s # <<>>
        BY <1>5, <2>1, <2>2
    <2>4. rl'.offsets = [i \in rl.first_index..(index - 1) |-> i - rl.first_index + 1]
        <3>1. {j \in rl.first_index..rl.last_index : j < index} = rl.first_index..(index - 1)
            BY <1>0, <1>2, <1>3
        <3>2. DOMAIN rl.offsets = rl.first_index..rl.last_index
            BY <1>2
        <3>3. rl'.offsets = [i \in rl.first_index..(index - 1) |-> rl.offsets[i]]
            BY <2>1, <3>1, <3>2 DEF Drop
        <3>4. \A i \in rl.first_index..(index - 1) : rl.offsets[i] = i - rl.first_index + 1
            BY <1>2, <2>2
        <3> QED
            BY <3>3, <3>4
    <2>5. index - 1 = rl.first_index + Len(s) - 1 /\ index - 1 >= rl.snap.idx
        <3>1. /\ index \in Nat /\ rl.first_index \in Nat /\ Len(s) = p - 1
              /\ rl.snap.idx \in Nat /\ ~(index - 1 < rl.snap.idx)
            BY <1>1, <1>2, <1>3, <1>5, <2>1
        <3> QED
            BY <3>1 DEF p
    <2>6. Tidy(rl', s)
        BY <1>2, <1>6, <2>1, <2>3, <2>4, <2>5 DEF Tidy
    <2> QED
        BY <1>0, <1>2, <1>4, <2>1, <2>6 DEF SameInv
<1> QED
    BY <1>7, <1>8

\* A compaction leaves a run that begins after its tip.
LEMMA CompactSame ==
    ASSUME FilesInv,
           \/ \E tip \in Entry : CompactRename(tip)
           \/ CompactInstall
           \/ CompactReopenFails
    PROVE  SameInv'
<1>0. /\ file \in [meta : 0..MaxTerm, vote : Node \union {0}, snap : Snap, seg : Seq(Rec)]
      /\ StructType(rl)
    BY DEF FilesInv, LogTypeInv, FileType
<1>1. CASE \E tip \in Entry : CompactRename(tip)
    <2>1. PICK tip \in Entry : CompactRename(tip)
        BY <1>1
    <2> DEFINE s == Kept(tip)
    <2>2. /\ pc = "idle" /\ pc' = "compact" /\ arg' = tip /\ undo' = <<file.seg>>
          /\ mishaps' = mishaps /\ tip.idx > rl.snap.idx
          /\ file'.seg = s /\ file'.snap = file.snap
        BY <1>0, <2>1 DEF CompactRename
    <2> SUFFICES ASSUME Clean PROVE SameInv'
        BY <2>2 DEF SameInv, Clean
    <2>3. /\ rl.snap = file.snap /\ Tidy(rl, file.seg)
          /\ Run(file.seg, rl.first_index) /\ file.seg \in Seq(Entry)
          /\ Len(file.seg) \in Nat
          /\ rl.snap.idx \in Nat /\ rl.first_index \in Nat \ {0}
          /\ rl.last_index \in Nat /\ rl.first_index <= rl.snap.idx + 1
          /\ rl.last_index = rl.first_index + Len(file.seg) - 1
          /\ rl.offsets = [i \in rl.first_index..rl.last_index |->
                              i - rl.first_index + 1]
        BY <2>2, CleanFacts DEF Running
    <2>4. tip.idx \in Nat
        BY DEF Entry
    <2> DEFINE need == IF rl.last_index > tip.idx THEN rl.last_index - tip.idx ELSE 0
    <2>5. s = [k \in 1..need |-> RecAt(rl, file.seg, tip.idx + k)]
        <3>1. ~(tip.idx < rl.first_index)
            BY <2>2, <2>3, <2>4
        <3> QED
            BY <3>1 DEF Kept
    <2>6. need \in Nat /\ (need = 0 \/ tip.idx + need = rl.last_index)
        BY <2>3, <2>4
    <2> HIDE DEF s, need
    <2>7. ASSUME NEW k \in 1..need
          PROVE  s[k] \in Entry /\ s[k].idx = (tip.idx + 1) + k - 1
        <3> DEFINE i == tip.idx + k
                   p == i - rl.first_index + 1
        <3>1. /\ i \in rl.first_index..rl.last_index /\ p \in 1..Len(file.seg)
              /\ rl.first_index + p - 1 = i /\ (tip.idx + 1) + k - 1 = i
            <4>1. /\ rl.first_index \in Nat /\ rl.last_index \in Nat /\ tip.idx \in Nat
                  /\ Len(file.seg) \in Nat /\ rl.snap.idx \in Nat
                  /\ rl.first_index <= rl.snap.idx + 1 /\ tip.idx > rl.snap.idx
                  /\ rl.last_index = rl.first_index + Len(file.seg) - 1
                  /\ k \in Nat /\ k >= 1 /\ k <= need
                BY <2>2, <2>3, <2>4, <2>6
            <4>2. tip.idx + k <= rl.last_index
                BY <2>6, <4>1
            <4>3. i \in Nat /\ i >= rl.first_index /\ i <= rl.last_index
                BY <4>1, <4>2
            <4> HIDE DEF i
            <4>4. p \in 1..Len(file.seg) /\ rl.first_index + p - 1 = i
                BY <4>1, <4>3, RunPosition
            <4>5. (tip.idx + 1) + k - 1 = i
                BY <4>1 DEF i
            <4> QED
                BY <4>1, <4>3, <4>4, <4>5
        <3>2. s[k] = RecAt(rl, file.seg, i)
            BY <2>5
        <3> HIDE DEF i
        <3>3. rl.offsets[i] = p /\ i \in DOMAIN rl.offsets
            BY <2>3, <3>1
        <3>4. s[k] = file.seg[p]
            BY <3>1, <3>2, <3>3 DEF RecAt
        <3>5. file.seg[p] \in Entry /\ file.seg[p].idx = rl.first_index + p - 1
            <4> HIDE DEF p
            <4> QED
                BY <2>3, <3>1 DEF Run
        <3> QED
            BY <3>1, <3>4, <3>5
    <2>8. Run(s, tip.idx + 1)
        <3>1. s \in Seq(Entry) /\ Len(s) = need
            BY <2>5, <2>6, <2>7
        <3> QED
            BY <2>7, <3>1 DEF Run
    <2>9. Starts(file.seg, file.snap.idx)
        BY <2>3, TidyReaches DEF Reaches
    <2>10. undo'[1] = file.seg
        BY <2>2
    <2> QED
        BY <2>2, <2>3, <2>8, <2>9, <2>10 DEF SameInv, Running
<1>2. CASE CompactInstall
    <2> SUFFICES ASSUME Clean' PROVE SameInv'
        BY DEF SameInv
    <2>1. /\ pc = "compact" /\ pc' = "idle" /\ undo' = undo
          /\ mishaps' = mishaps /\ rl' = Compacted(rl, file.seg, arg)
          /\ file'.seg = file.seg /\ file'.snap = arg
        <3>1. ~ Fault({"marker"})
            BY DEF Fault, Clean
        <3> QED
            BY <1>0, <1>2, <3>1 DEF CompactInstall, NoFault
    <2>2. Clean
        BY <2>1 DEF Clean
    <2>3. /\ arg.idx \in Nat /\ file.snap.idx \in Nat
        BY <1>0, <2>1, LogBoundAssumption DEF FilesInv, LogTypeInv, OpType, Entry, Snap, Torn
    <2>4. /\ arg.idx > file.snap.idx /\ Run(file.seg, arg.idx + 1)
          /\ undo # <<>> => Starts(undo[1], file.snap.idx)
        BY <2>1, <2>2 DEF FilesInv, SameInv
    <2> DEFINE n == Len(file.seg)
    <2>5. n \in Nat /\ file.seg \in Seq(Entry) /\ (file.seg = <<>> <=> n = 0)
        BY <2>4 DEF Run
    <2>6. /\ rl'.first_index = arg.idx + 1 /\ rl'.last_index = arg.idx + n
          /\ rl'.offsets = [i \in (arg.idx + 1)..(arg.idx + n) |-> i - arg.idx]
          /\ rl'.last_term = IF n = 0 THEN arg.term ELSE file.seg[n].term
          /\ rl'.snap = arg
        BY <1>0, <2>1 DEF Compacted, StructType
    <2>7. rl'.offsets = [i \in (arg.idx + 1)..(arg.idx + n) |-> i - (arg.idx + 1) + 1]
        <3>1. \A i \in (arg.idx + 1)..(arg.idx + n) : i - arg.idx = i - (arg.idx + 1) + 1
            BY <2>3, <2>5
        <3> QED
            BY <2>6, <3>1
    <2> HIDE DEF n
    <2>8. Tidy(rl', file.seg)
        <3>1. /\ arg.idx + 1 \in 1..(arg.idx + 1)
              /\ arg.idx + n = (arg.idx + 1) + n - 1 /\ arg.idx + n >= arg.idx
            BY <2>3, <2>5
        <3> QED
            BY <2>4, <2>5, <2>6, <2>7, <3>1 DEF Tidy, n
    <2>9. undo' # <<>> => Starts(undo'[1], arg.idx)
        <3> SUFFICES ASSUME undo # <<>> PROVE Starts(undo[1], arg.idx)
            BY <2>1
        <3>1. CASE undo[1] = <<>>
            BY <3>1 DEF Starts
        <3>2. CASE undo[1] # <<>>
            <4>1. Run(undo[1], undo[1][1].idx) /\ undo[1][1].idx <= file.snap.idx + 1
                BY <2>4, <3>2 DEF Starts
            <4>2. undo[1][1].idx \in Nat
                <5>1. undo[1] \in Seq(Entry)
                    BY <4>1 DEF Run
                <5>2. 1 \in 1..Len(undo[1])
                    BY <3>2, <5>1
                <5> QED
                    BY <5>1, <5>2, EntryIdx
            <4>3. undo[1][1].idx <= arg.idx + 1
                BY <2>3, <2>4, <4>1, <4>2
            <4> QED
                BY <4>1, <4>3 DEF Starts
        <3> QED
            BY <3>1, <3>2
    <2> QED
        BY <2>1, <2>6, <2>8, <2>9 DEF SameInv
<1>3. CASE CompactReopenFails
    BY <1>3 DEF CompactReopenFails, Fault, SameInv, Clean
<1> QED
    BY <1>1, <1>2, <1>3

\* What a crash leaves can be opened again to the same effect.
LEMMA CrashSame ==
    ASSUME FilesInv, Crash
    PROVE  SameInv'
<1>1. PICK s \in SegAfterCrash :
         /\ file' = [file EXCEPT !.seg = s[1]]
         /\ mishaps' = mishaps \union s[2]
                       \union (IF pc = "compact" /\ s[2] = {} THEN {"marker"} ELSE {})
    BY DEF Crash
<1>2. /\ pc # "down" /\ pc' = "down" /\ undo' = <<>> /\ mishaps \subseteq mishaps'
    BY <1>1 DEF Crash
<1>3. /\ file \in [meta : 0..MaxTerm, vote : Node \union {0}, snap : Snap, seg : Seq(Rec)]
      /\ pc \in {"idle", "set_term", "append", "compact", "down"}
    BY DEF FilesInv, LogTypeInv, FileType, OpType
<1>4. file'.snap = file.snap /\ file'.seg = s[1]
    BY <1>1, <1>3
<1> SUFFICES ASSUME Clean' PROVE SameInv'
    BY DEF SameInv
<1>5. Clean
    BY <1>2 DEF Clean
<1>6. SUFFICES \E g : /\ Scanned(s[1]) = g /\ s[1] \in {g, Append(g, Torn)}
                      /\ Reaches(g, file.snap.idx)
    BY <1>2, <1>4, <1>6 DEF SameInv, Running
<1>7. CASE undo # <<>> /\ s = <<undo[1], LostRename(undo[1])>>
    <2>1. s[1] = undo[1] /\ "behind" \notin LostRename(undo[1])
        <3>1. s[1] = undo[1] /\ s[2] = LostRename(undo[1])
            BY <1>7
        <3> QED
            BY <1>1, <3>1 DEF Clean
    <2>2. Starts(undo[1], file.snap.idx)
        BY <1>5, <1>7 DEF FilesInv, SameInv
    <2>3. undo[1] \in Seq(Entry)
        <3>1. <<>> \in Seq(Entry)
            OBVIOUS
        <3> QED
            BY <2>2, <3>1, Zenon DEF Starts, Run
    <2>4. undo[1] = <<>> \/ ~(undo[1][Len(undo[1])].idx < file.snap.idx)
        BY <2>1 DEF LostRename
    <2>5. undo[1] = <<>> \/ undo[1][Len(undo[1])].idx >= file.snap.idx
        <3>1. file.snap.idx \in Nat
            BY <1>3, LogBoundAssumption DEF Snap, Entry, Torn
        <3> SUFFICES ASSUME undo[1] # <<>>
                     PROVE  undo[1][Len(undo[1])].idx >= file.snap.idx
            OBVIOUS
        <3>2. Len(undo[1]) \in 1..Len(undo[1])
            BY <2>3
        <3>3. undo[1][Len(undo[1])].idx \in Nat
            BY <2>3, <3>2, EntryIdx
        <3> QED
            BY <2>4, <3>1, <3>3
    <2>6. Reaches(undo[1], file.snap.idx)
        BY <2>2, <2>5 DEF Reaches
    <2>7. Scanned(undo[1]) = undo[1]
        BY <2>3, ScanWhole
    <2> QED
        BY <2>1, <2>6, <2>7
<1>8. CASE \/ s = <<file.seg, {}>>
           \/ /\ pc = "append"
              /\ s \in {<<Append(file.seg, arg), {}>>, <<Append(file.seg, Torn), {}>>,
                       <<Append(file.seg, Stub), {"stub"}>>}
    <2>1. Running
        <3>1. s = <<file.seg, {}>> => pc # "compact"
            BY <1>1 DEF Clean
        <3> QED
            BY <1>2, <1>3, <1>8, <3>1 DEF Running
    <2>2. /\ rl.snap = file.snap /\ Tidy(rl, file.seg)
          /\ Run(file.seg, rl.first_index) /\ file.seg \in Seq(Entry)
          /\ Len(file.seg) \in Nat
          /\ rl.snap.idx \in Nat /\ rl.first_index \in Nat \ {0}
          /\ rl.last_index \in Nat /\ rl.first_index <= rl.snap.idx + 1
          /\ rl.last_index = rl.first_index + Len(file.seg) - 1
          /\ rl.last_index >= rl.snap.idx
        BY <1>5, <2>1, CleanFacts
    <2>3. Reaches(file.seg, file.snap.idx)
        BY <2>2, TidyReaches
    <2>4. CASE s = <<file.seg, {}>>
        <3>1. s[1] = file.seg /\ Scanned(file.seg) = file.seg
            BY <2>2, <2>4, ScanWhole
        <3> QED
            BY <2>3, <3>1
    <2>5. ASSUME pc = "append"
          PROVE  arg \in Entry /\ arg.idx = rl.last_index + 1 /\ MaxTerm > 0
        BY <2>5, LogBoundAssumption DEF FilesInv, LogTypeInv, OpType, Entry
    <2>6. CASE pc = "append" /\ s = <<Append(file.seg, arg), {}>>
        <3> DEFINE g == Append(file.seg, arg)
        <3>1. arg.idx = rl.first_index + Len(file.seg)
            <4>1. /\ arg.idx = rl.last_index + 1
                  /\ rl.last_index = rl.first_index + Len(file.seg) - 1
                  /\ rl.first_index \in Nat /\ Len(file.seg) \in Nat
                BY <2>2, <2>5, <2>6
            <4> QED
                BY <4>1
        <3>2. Run(g, rl.first_index) /\ Len(g) = Len(file.seg) + 1
            BY <2>2, <2>5, <2>6, <3>1, RunAppend
        <3>3. s[1] = g
            BY <2>6
        <3> HIDE DEF g
        <3>4. g \in Seq(Entry) /\ g # <<>>
            <4>1. g \in Seq(Entry) /\ Len(g) # 0
                BY <2>2, <3>2 DEF Run
            <4> QED
                BY <4>1
        <3>5. g[1].idx = rl.first_index /\ g[Len(g)].idx = rl.first_index + Len(g) - 1
            BY <2>2, <3>2, <3>4, RunFacts
        <3>6. rl.first_index + Len(g) - 1 >= rl.snap.idx
            BY <2>2, <3>2
        <3>7. Reaches(g, rl.snap.idx)
            BY <2>2, <3>2, <3>5, <3>6 DEF Reaches, Starts
        <3>8. Scanned(g) = g
            BY <3>4, ScanWhole
        <3> QED
            BY <2>2, <3>3, <3>7, <3>8
    <2>7. CASE pc = "append" /\ s = <<Append(file.seg, Torn), {}>>
        <3>1. s[1] = Append(file.seg, Torn) /\ Scanned(Append(file.seg, Torn)) = file.seg
            BY <2>2, <2>5, <2>7, ScanWhole
        <3> QED
            BY <2>3, <3>1
    <2>8. CASE pc = "append" /\ s = <<Append(file.seg, Stub), {"stub"}>>
        <3>1. s[2] = {"stub"}
            BY <2>8
        <3> QED
            BY <1>1, <3>1 DEF Clean
    <2> QED
        BY <1>8, <2>4, <2>6, <2>7, <2>8
<1> QED
    <2>1. \/ s = <<file.seg, {}>>
          \/ /\ pc = "append"
             /\ s \in {<<Append(file.seg, arg), {}>>, <<Append(file.seg, Torn), {}>>,
                      <<Append(file.seg, Stub), {"stub"}>>}
          \/ undo # <<>> /\ s = <<undo[1], LostRename(undo[1])>>
        BY Zenon DEF SegAfterCrash
    <2> QED
        BY <1>7, <1>8, <2>1

LEMMA OpenSame ==
    ASSUME FilesInv, Open
    PROVE  SameInv'
<1> DEFINE g == Scanned(file.seg)
<1>0. /\ pc = "down" /\ pc' = "idle" /\ undo' = undo
      /\ file' = [file EXCEPT !.seg = SegAfterOpen(file.seg)]
      /\ mishaps \subseteq mishaps'
    BY DEF Open
<1>1. /\ FileType /\ file.seg \in Seq(Rec)
      /\ file \in [meta : 0..MaxTerm, vote : Node \union {0}, snap : Snap, seg : Seq(Rec)]
    BY DEF FilesInv, LogTypeInv, FileType
<1> SUFFICES ASSUME Clean' PROVE SameInv'
    BY DEF SameInv
<1>2. Clean
    BY <1>0 DEF Clean
<1>3. /\ Reaches(g, file.snap.idx) /\ file.seg \in {g, Append(g, Torn)}
      /\ undo # <<>> => Starts(undo[1], file.snap.idx)
    BY <1>0, <1>2 DEF FilesInv, SameInv
<1>4. SegAfterOpen(file.seg) = g
    <2>1. g \in Seq(Entry)
        BY <1>1, ScanEntries
    <2> QED
        BY <1>3, <2>1, OpenCuts
<1>5. file'.seg = g /\ file'.snap = file.snap
    BY <1>0, <1>1, <1>4
<1>6. PICK junk \in Junk(file.seg) : rl' = Opened(file, junk)
    BY DEF Open
<1>7. junk \in Nat \ {0}
    BY <1>1 DEF Junk
<1> HIDE DEF g
<1>8. rl'.snap = file.snap /\ Tidy(rl', g)
    BY <1>1, <1>3, <1>6, <1>7, OpenedTidy DEF g
<1> QED
    BY <1>0, <1>3, <1>5, <1>8 DEF SameInv

LEMMA SameStep == FilesInv /\ [Next]_vars => FilesInv'
<1> SUFFICES ASSUME FilesInv, [Next]_vars PROVE FilesInv'
    OBVIOUS
<1>1. LogTypeInv'
    BY LogTypeStep DEF FilesInv
<1>2. SameInv'
    <2>1. CASE UNCHANGED vars
        BY <2>1 DEF vars, FilesInv, SameInv, Clean, Running
    <2>2. CASE Next
        BY <2>2, QuietSame, AppendSame, TruncateSame, CompactSame, CrashSame,
           OpenSame DEF Next
    <2> QED
        BY <2>1, <2>2, Zenon
<1> QED
    BY <1>1, <1>2 DEF FilesInv

LEMMA SameHolds == Spec => []FilesInv
<1>1. Init => FilesInv
    BY SameInit
<1>2. FilesInv /\ [Next]_vars => FilesInv'
    BY SameStep
<1> QED
    BY <1>1, <1>2, PTL DEF Spec

\* For every set of nodes and every bound, and whatever an unwritten slot of
\* the offset table contains: what tsdb_raft_log_open would build from the
\* files is what the running node works with, while nothing happened but that
\* a power loss undid the rename of a compaction whose old segment reaches the
\* snapshot.
THEOREM ReopenSeesTheSameHolds == Spec => []ReopenSeesTheSame
<1>1. FilesInv /\ VoteIInv => ReopenSeesTheSame
    <2> SUFFICES ASSUME FilesInv, VoteIInv, pc = "idle", mishaps \subseteq {"rename_lost"},
                        NEW junk \in Junk(file.seg),
                        NEW o, o = Opened(file, junk), NEW f, f = SegAfterOpen(file.seg)
                 PROVE  /\ o.term = rl.term /\ o.vote = rl.vote /\ o.snap = rl.snap
                        /\ o.last_index = rl.last_index /\ o.last_term = rl.last_term
                        /\ \A i \in 0..MaxIndex : TermAt(o, f, i) = TermAt(rl, file.seg, i)
        BY DEF ReopenSeesTheSame
    <2>1. Clean /\ Running
        BY DEF Clean, Running
    <2>2. /\ rl.snap = file.snap /\ Tidy(rl, file.seg)
          /\ Run(file.seg, rl.first_index) /\ file.seg \in Seq(Entry)
          /\ Len(file.seg) \in Nat
          /\ rl.snap.idx \in Nat /\ rl.first_index \in Nat \ {0}
          /\ rl.first_index <= rl.snap.idx + 1
          /\ rl.last_index = rl.first_index + Len(file.seg) - 1
          /\ rl.last_index >= rl.snap.idx
        BY <2>1, CleanFacts
    <2>3. Scanned(file.seg) = file.seg /\ f = file.seg
        <3>1. Scanned(file.seg) = file.seg
            BY <2>2, ScanWhole
        <3> QED
            BY <2>2, <3>1, OpenCuts
    <2>4. FileType /\ junk \in Nat \ {0}
        BY <2>2 DEF FilesInv, LogTypeInv, Junk
    <2>5. Reaches(file.seg, file.snap.idx)
        BY <2>2, TidyReaches
    <2>6. o.snap = file.snap /\ Tidy(o, file.seg) /\ o.term = file.meta /\ o.vote = file.vote
        BY <2>3, <2>4, <2>5, OpenedTidy
    <2>7. rl.term = file.meta /\ rl.vote = file.vote
        BY DEF VoteIInv, WritesSeen, StructIsFiles
    <2>8. o.first_index = rl.first_index
        <3>1. /\ o.first_index \in 1..(rl.snap.idx + 1) /\ Run(file.seg, o.first_index)
              /\ o.last_index = o.first_index + Len(file.seg) - 1
              /\ o.last_index >= rl.snap.idx
            BY <2>2, <2>6 DEF Tidy
        <3>2. o.first_index \in Nat
            BY <2>2, <3>1
        <3>3. CASE file.seg = <<>>
            <4>1. Len(file.seg) = 0
                BY <3>3
            <4> QED
                BY <2>2, <3>1, <3>2, <4>1
        <3>4. CASE file.seg # <<>>
            <4>1. file.seg[1].idx = rl.first_index
                BY <2>2, <3>4, RunFacts
            <4>2. file.seg[1].idx = o.first_index
                BY <3>1, <3>2, <3>4, RunFacts
            <4> QED
                BY <4>1, <4>2
        <3> QED
            BY <3>3, <3>4
    <2>9. /\ o.last_index = rl.last_index /\ o.last_term = rl.last_term
          /\ o.offsets = rl.offsets /\ o.snap = rl.snap
        BY <2>2, <2>6, <2>8 DEF Tidy
    <2>10. \A i \in 0..MaxIndex : TermAt(o, f, i) = TermAt(rl, file.seg, i)
        BY <2>3, <2>8, <2>9, Zenon DEF TermAt, RecAt
    <2> QED
        BY <2>6, <2>7, <2>9, <2>10
<1>2. Spec => []VoteIInv
    BY VoteInit, VoteStep, PTL DEF Spec
<1> QED
    BY <1>1, <1>2, SameHolds, PTL
=============================================================================
