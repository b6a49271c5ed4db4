---------------------------- MODULE RaftLogProofs ----------------------------
(***************************************************************************)
(* No acknowledged entry of the log of one Raft node is lost, for any      *)
(* number of entries, terms, crashes and failed writes.                    *)
(***************************************************************************)
EXTENDS RaftFilesProofs

-----------------------------------------------------------------------------
(***************************************************************************)
(* The segment.  Above the snapshot it holds every index up to the last    *)
(* one, in order; below, a log that was emptied and started over may hold  *)
(* anything.  The offset table leads to each record above the snapshot.    *)
(***************************************************************************)
Holds(seg, i) == \E k \in 1..Len(seg) : seg[k].idx = i

Solid(seg, snap) ==
    /\ seg \in Seq(Entry)
    /\ \A j, k \in 1..Len(seg) :
          j < k /\ (seg[j].idx > snap \/ seg[k].idx > snap) => seg[j].idx < seg[k].idx
    /\ \A k \in 1..Len(seg) : \A i \in (snap + 1)..seg[k].idx : Holds(seg, i)

Table(r, seg) ==
    /\ r.first_index <= r.snap.idx + 1
    /\ \A k \in 1..Len(seg) : seg[k].idx > r.snap.idx =>
          seg[k].idx <= r.last_index /\ r.offsets[seg[k].idx] = k
    /\ \A i \in (r.snap.idx + 1)..r.last_index : Holds(seg, i)

\* The acknowledged entries above the snapshot are in the segment.
Survives(a, seg, snap) ==
    \A i \in DOMAIN a :
        i <= snap \/ \E k \in 1..Len(seg) : seg[k].idx = i /\ seg[k].term = a[i]

\* Nothing happened that breaks the order of the segment; a rename that was
\* lost does not.
SegDamage == LogDamage \ {"rename_lost"}
Whole == mishaps \intersect SegDamage = {}

SegInv ==
    Whole =>
    /\ undo # <<>> => Solid(undo[1], file.snap.idx)
    /\ Running => /\ Solid(file.seg, file.snap.idx)
                  /\ rl.snap = file.snap /\ Table(rl, file.seg)
    /\ pc = "compact" =>
          /\ arg.idx > file.snap.idx
          /\ file.seg \in Seq(Entry)
          /\ \A k \in 1..Len(file.seg) : file.seg[k].idx = arg.idx + k
    /\ pc = "down" =>
          /\ Solid(Scanned(file.seg), file.snap.idx)
          /\ file.seg \in {Scanned(file.seg), Append(Scanned(file.seg), Torn)}

AckInv ==
    Whole /\ "rename_lost" \notin mishaps =>
    /\ \A i \in DOMAIN acked : i \in Nat \ {0}
    /\ Running => Survives(acked, file.seg, file.snap.idx)
    /\ pc = "compact" => Survives(acked, file.seg, arg.idx)
    /\ pc = "down" => Survives(acked, Scanned(file.seg), file.snap.idx)

LogInv == LogTypeInv /\ SegInv /\ AckInv

\* A later snapshot asks for less.
LEMMA SolidLater ==
    ASSUME NEW seg, NEW snap \in Nat, NEW later \in Nat, snap <= later,
           Solid(seg, snap)
    PROVE  Solid(seg, later)
<1>1. \A k \in 1..Len(seg) : seg[k].idx \in Nat
    BY EntryIdx DEF Solid
<1> QED
    BY <1>1 DEF Solid

\* The next entry is appended.
LEMMA SolidAppend ==
    ASSUME NEW seg, NEW e \in Entry, NEW r, StructType(r),
           Solid(seg, r.snap.idx), Table(r, seg), e.idx = r.last_index + 1
    PROVE  Solid(Append(seg, e), r.snap.idx)
<1> DEFINE s == Append(seg, e)
           n == Len(seg)
           snap == r.snap.idx
<1>1. /\ seg \in Seq(Entry) /\ n \in Nat /\ snap \in Nat /\ r.last_index \in Nat
      /\ e.idx \in Nat
    BY StructNats DEF Solid, Entry
<1>2. /\ s \in Seq(Entry) /\ Len(s) = n + 1 /\ s[n + 1] = e
      /\ \A k \in 1..n : s[k] = seg[k]
    BY <1>1
<1>3. \A k \in 1..n : seg[k].idx \in Nat
    BY <1>1, EntryIdx
<1> HIDE DEF s, n, snap
<1>4. ASSUME NEW j \in 1..(n + 1), NEW k \in 1..(n + 1), j < k,
             s[j].idx > snap \/ s[k].idx > snap
      PROVE  s[j].idx < s[k].idx
    <2>1. CASE k \in 1..n
        <3>1. j \in 1..n
            BY <1>1, <1>4, <2>1
        <3> QED
            BY <1>2, <1>4, <2>1, <3>1 DEF Solid, n, snap
    <2>2. CASE k = n + 1
        <3>1. j \in 1..n /\ s[k] = e /\ s[j] = seg[j]
            BY <1>1, <1>2, <1>4, <2>2
        <3>2. seg[j].idx > snap => seg[j].idx <= r.last_index
            BY <3>1 DEF Table, n, snap
        <3> QED
            BY <1>1, <1>3, <1>4, <3>1, <3>2
    <2> QED
        BY <1>1, <2>1, <2>2
<1>5. ASSUME NEW i \in Nat, i > snap, i <= r.last_index \/ i = e.idx
      PROVE  Holds(s, i)
    <2>1. CASE i = e.idx
        BY <1>1, <1>2, <2>1 DEF Holds
    <2>2. CASE i <= r.last_index
        <3>1. i \in (snap + 1)..r.last_index
            BY <1>1, <1>5, <2>2
        <3>2. PICK k \in 1..n : seg[k].idx = i
            BY <3>1 DEF Table, Holds, n, snap
        <3> QED
            BY <1>1, <1>2, <3>2 DEF Holds
    <2> QED
        BY <1>5, <2>1, <2>2
<1>6. ASSUME NEW k \in 1..(n + 1), NEW i \in (snap + 1)..s[k].idx
      PROVE  Holds(s, i)
    <2>1. s[k].idx \in Nat /\ (s[k].idx > snap => s[k].idx <= r.last_index \/ s[k] = e)
        <3>1. CASE k = n + 1
            BY <1>1, <1>2, <3>1
        <3>2. CASE k # n + 1
            <4>1. k \in 1..n /\ s[k] = seg[k]
                BY <1>1, <1>2, <3>2
            <4>2. seg[k].idx > snap => seg[k].idx <= r.last_index
                BY <4>1 DEF Table, n, snap
            <4> QED
                BY <1>3, <4>1, <4>2
        <3> QED
            BY <3>1, <3>2
    <2> QED
        BY <1>1, <1>5, <2>1
<1> QED
    BY <1>2, <1>4, <1>6 DEF Solid, s, n, snap

\* Above the snapshot position and index agree on what comes first.
LEMMA CutOrder ==
    ASSUME NEW seg, NEW snap \in Nat, Solid(seg, snap), NEW p \in 1..Len(seg),
           NEW k \in 1..Len(seg), seg[k].idx > snap
    PROVE  k < p <=> seg[k].idx < seg[p].idx
<1>1. k < p => seg[k].idx < seg[p].idx
    BY DEF Solid
<1>2. p < k => seg[p].idx < seg[k].idx
    BY DEF Solid
<1>3. p \in Nat /\ k \in Nat /\ seg[k].idx \in Nat /\ seg[p].idx \in Nat
    BY EntryIdx DEF Solid
<1> QED
    BY <1>1, <1>2, <1>3

\* The segment is cut in front of the record of an index.
LEMMA SolidCut ==
    ASSUME NEW seg, NEW r, StructType(r), Solid(seg, r.snap.idx), Table(r, seg),
           NEW p \in 1..Len(seg), NEW s, s = SubSeq(seg, 1, p - 1)
    PROVE  /\ Solid(s, r.snap.idx)
           /\ Len(s) = p - 1 /\ \A k \in 1..(p - 1) : s[k] = seg[k]
<1> DEFINE n == Len(seg)
           snap == r.snap.idx
<1>1. /\ seg \in Seq(Entry) /\ n \in Nat /\ snap \in Nat /\ r.last_index \in Nat
      /\ r.first_index \in Nat
    BY StructNats DEF Solid
<1>2. /\ s \in Seq(Entry) /\ Len(s) = p - 1
      /\ \A k \in 1..(p - 1) : s[k] = seg[k]
    <2>1. p - 1 \in 0..Len(seg)
        BY <1>1
    <2> QED
        BY <1>1, <2>1, SubSeqProperties
<1>3. \A k \in 1..n : seg[k].idx \in Nat
    BY <1>1, EntryIdx
<1>4. \A j, k \in 1..n :
          j < k /\ (seg[j].idx > snap \/ seg[k].idx > snap) => seg[j].idx < seg[k].idx
    BY DEF Solid
<1>5. \A k \in 1..n : \A i \in (snap + 1)..seg[k].idx : Holds(seg, i)
    BY DEF Solid
<1> HIDE DEF n, snap
<1>6. ASSUME NEW k \in 1..(p - 1), NEW i \in (snap + 1)..s[k].idx
      PROVE  Holds(s, i)
    <2>1. k \in 1..n /\ k < p /\ s[k] = seg[k] /\ seg[k].idx \in Nat
        BY <1>1, <1>2, <1>3 DEF n
    <2>2. PICK m \in 1..n : seg[m].idx = i
        BY <1>5, <2>1 DEF Holds, n
    <2>3. seg[m].idx > snap /\ seg[k].idx > snap /\ seg[m].idx <= seg[k].idx
        BY <1>1, <2>1, <2>2
    <2>4. ~(k < m)
        BY <1>3, <1>4, <2>1, <2>3
    <2>5. m \in 1..(p - 1)
        BY <1>1, <2>1, <2>4 DEF n
    <2> QED
        BY <1>2, <2>2, <2>5 DEF Holds
<1>7. \A j, k \in 1..(p - 1) :
          j < k /\ (s[j].idx > snap \/ s[k].idx > snap) => s[j].idx < s[k].idx
    <2>1. \A k \in 1..(p - 1) : k \in 1..n
        BY <1>1 DEF n
    <2> QED
        BY <1>2, <1>4, <2>1
<1>8. Solid(s, snap)
    BY <1>2, <1>6, <1>7 DEF Solid
<1> QED
    BY <1>2, <1>8 DEF n, snap

\* The offset table leads to each record above the snapshot.
LEMMA OffsetSolid ==
    ASSUME NEW g, NEW snap \in Nat, Solid(g, snap), NEW lo \in Nat, NEW hi \in Nat,
           NEW junk \in Nat \ {0}, NEW k \in 1..Len(g), g[k].idx > snap,
           g[k].idx \in lo..hi
    PROVE  OffsetsOf(g, lo, hi, junk)[g[k].idx] = k
<1>1. g \in Seq(Entry) /\ Len(g) \in Nat
    BY DEF Solid
<1>2. PICK p \in 1..Len(g) : /\ OffsetsOf(g, lo, hi, junk)[g[k].idx] = p
                             /\ g[p].idx = g[k].idx /\ k <= p
    BY <1>1, OffsetHeld
<1>3. g[k].idx \in Nat
    BY <1>1, EntryIdx
<1>4. ~(k < p)
    BY <1>2, <1>3 DEF Solid
<1> QED
    BY <1>1, <1>2, <1>4

\* An open finds every entry of the segment above the snapshot.
LEMMA OpenedTable ==
    ASSUME FileType, NEW g, g = Scanned(file.seg), Solid(g, file.snap.idx),
           NEW junk \in Nat \ {0}, NEW o, o = Opened(file, junk)
    PROVE  o.snap = file.snap /\ Table(o, g)
<1> DEFINE n == Len(g)
           snap == file.snap.idx
<1>1. g \in Seq(Entry) /\ n \in Nat /\ snap \in Nat
    BY LogBoundAssumption DEF Solid, FileType, Snap, Entry, Torn
<1>2. \A k \in 1..n : g[k].idx \in Nat
    BY <1>1, EntryIdx
<1>3. \A j, k \in 1..n :
          j < k /\ (g[j].idx > snap \/ g[k].idx > snap) => g[j].idx < g[k].idx
    BY DEF Solid
<1>4. \A k \in 1..n : \A i \in (snap + 1)..g[k].idx : Holds(g, i)
    BY DEF Solid
<1>5. ASSUME NEW k \in 1..n, g[k].idx > snap PROVE g[k].idx <= g[n].idx
    <2>1. k = n \/ k < n
        BY <1>1
    <2> QED
        BY <1>1, <1>2, <1>3, <1>5, <2>1
<1>6. CASE n = 0 \/ g[n].idx < snap
    <2>1. o.snap = file.snap /\ o.first_index = snap + 1 /\ o.last_index = snap
        BY <1>6 DEF Opened, Rebuilt
    <2>2. \A k \in 1..n : ~(g[k].idx > snap)
        BY <1>1, <1>2, <1>5, <1>6
    <2> QED
        BY <1>1, <2>1, <2>2 DEF Table
<1>7. CASE ~(n = 0 \/ g[n].idx < snap)
    <2> DEFINE f == OffsetsOf(g, g[1].idx, g[n].idx, junk)
    <2>1. /\ o.snap = file.snap /\ o.first_index = g[1].idx
          /\ o.last_index = g[n].idx /\ o.offsets = f
        BY <1>7 DEF Opened, Rebuilt
    <2>2. g[1].idx \in Nat /\ g[n].idx \in Nat /\ 1 \in 1..n /\ n \in 1..n
        BY <1>1, <1>2, <1>7
    <2>3. g[1].idx <= snap + 1
        <3> SUFFICES ASSUME g[1].idx > snap + 1 PROVE FALSE
            BY <1>1, <2>2
        <3>1. Holds(g, snap + 1)
            BY <1>1, <1>4, <2>2
        <3>2. PICK m \in 1..n : g[m].idx = snap + 1
            BY <3>1 DEF Holds
        <3>3. 1 < m
            BY <1>1, <3>2
        <3> QED
            BY <1>1, <1>3, <2>2, <3>2, <3>3
    <2>4. ASSUME NEW k \in 1..n, g[k].idx > snap
          PROVE  g[k].idx <= g[n].idx /\ f[g[k].idx] = k
        <3> DEFINE i == g[k].idx
        <3>1. i \in g[1].idx..g[n].idx
            BY <1>1, <1>2, <1>5, <2>2, <2>3, <2>4
        <3>2. g[k].idx <= g[n].idx
            BY <1>2, <2>2, <3>1
        <3>3. g[k].idx \in g[1].idx..g[n].idx /\ snap \in Nat /\ Solid(g, snap)
            BY <1>1, <3>1
        <3>4. OffsetsOf(g, g[1].idx, g[n].idx, junk)[g[k].idx] = k
            <4>1. /\ g[k].idx > file.snap.idx /\ file.snap.idx \in Nat
                  /\ Solid(g, file.snap.idx) /\ k \in 1..Len(g)
                  /\ g[1].idx \in Nat /\ g[n].idx \in Nat
                  /\ g[k].idx \in g[1].idx..g[n].idx
                BY <2>2, <2>4, <3>3
            <4>2. PICK lo \in Nat, hi \in Nat, b \in Nat :
                     lo = g[1].idx /\ hi = g[n].idx /\ b = file.snap.idx
                BY <4>1
            <4>3. g[k].idx > b /\ Solid(g, b) /\ g[k].idx \in lo..hi /\ k \in 1..Len(g)
                BY <4>1, <4>2
            <4>4. OffsetsOf(g, lo, hi, junk)[g[k].idx] = k
                BY <4>3, OffsetSolid
            <4> QED
                BY <4>2, <4>4
        <3> QED
            BY <3>2, <3>4
    <2> HIDE DEF f
    <2> QED
        BY <1>1, <1>4, <2>1, <2>2, <2>3, <2>4 DEF Table
<1> QED
    BY <1>6, <1>7

-----------------------------------------------------------------------------
\* The facts of a running node, of one being compacted and of one that is down.
LEMMA RunningFacts ==
    ASSUME LogInv, Whole, Running
    PROVE  /\ Solid(file.seg, rl.snap.idx) /\ rl.snap = file.snap
           /\ Table(rl, file.seg) /\ StructType(rl)
           /\ file.seg \in Seq(Entry) /\ Len(file.seg) \in Nat
           /\ undo # <<>> => Solid(undo[1], file.snap.idx)
           /\ "rename_lost" \notin mishaps =>
                 /\ Survives(acked, file.seg, rl.snap.idx)
                 /\ \A i \in DOMAIN acked : i \in Nat \ {0}
BY DEF LogInv, SegInv, AckInv, LogTypeInv, Solid

\* A step of a running node that leaves the segment, the snapshot and the
\* offset table alone.
LEMMA SegFrame ==
    ASSUME LogInv, Running, Running', file'.seg = file.seg, file'.snap = file.snap,
           undo' = undo, acked' = acked, rl'.snap = rl.snap,
           rl'.last_index = rl.last_index, rl'.offsets = rl.offsets,
           rl'.first_index \in Nat, rl'.first_index <= rl.first_index,
           mishaps \subseteq mishaps'
    PROVE  SegInv' /\ AckInv'
<1>1. Whole' => Whole
    BY DEF Whole
<1>2. ("rename_lost" \notin mishaps') => ("rename_lost" \notin mishaps)
    OBVIOUS
<1>3. ASSUME Whole PROVE Table(rl, file.seg)'
    <2>1. Table(rl, file.seg) /\ StructType(rl)
        BY <1>3, RunningFacts
    <2>2. rl.snap.idx \in Nat /\ rl.first_index \in Nat
        BY <2>1, StructNats
    <2> QED
        BY <2>1, <2>2 DEF Table
<1>4. pc' # "compact" /\ pc' # "down"
    BY DEF Running
<1>5. SegInv'
    BY <1>1, <1>3, <1>4 DEF LogInv, SegInv
<1>6. AckInv'
    BY <1>1, <1>2, <1>4 DEF LogInv, AckInv
<1> QED
    BY <1>5, <1>6

\* An empty directory.
LEMMA LogInit == Init => LogInv
<1> SUFFICES ASSUME Init PROVE LogInv
    OBVIOUS
<1>1. LogTypeInv
    BY LogTypeInit
<1>2. Scanned(<<>>) = <<>>
    <2>1. <<>> \in Seq(Rec)
        OBVIOUS
    <2>2. PICK n \in 0..Len(<<>>) : Scanned(<<>>) = SubSeq(<<>>, 1, n)
        BY <2>1, ScanStops
    <2> QED
        BY <2>2
<1>3. Solid(<<>>, file.snap.idx)
    BY DEF Solid
<1>4. file.seg = <<>> /\ rl = Opened(file, 1) /\ undo = <<>> /\ pc = "idle" /\ acked = <<>>
    BY DEF Init
<1>5. rl.snap = file.snap /\ Table(rl, file.seg)
    <2>1. FileType /\ 1 \in Nat \ {0}
        BY <1>1 DEF LogTypeInv
    <2> QED
        BY <1>2, <1>3, <1>4, <2>1, OpenedTable
<1>6. SegInv
    BY <1>3, <1>4, <1>5 DEF SegInv
<1>7. AckInv
    BY <1>4 DEF AckInv, Survives
<1> QED
    BY <1>1, <1>6, <1>7 DEF LogInv

\* Term and vote, the start of an append, and one that fails cleanly.
LEMMA QuietSegment ==
    ASSUME LogInv,
           \/ \E t \in 1..MaxTerm : SetTerm(t) \/ AppendWrite(t)
           \/ SetTermVote
           \/ \E n \in Node : SetVotedFor(n)
           \/ AppendFails
    PROVE  SegInv' /\ AckInv'
<1>0. /\ StructType(rl) /\ FileType /\ rl.first_index \in Nat \ {0}
      /\ DOMAIN rl = {"term", "vote", "snap", "first_index", "last_index",
                      "last_term", "offsets"}
    BY StructNats DEF LogInv, LogTypeInv, StructType
<1>1. CASE \E t \in 1..MaxTerm : SetTerm(t)
    <2>1. PICK t \in 1..MaxTerm : SetTerm(t)
        BY <1>1
    <2>2. /\ file'.seg = file.seg /\ file'.snap = file.snap /\ undo' = undo
          /\ acked' = acked /\ rl'.snap = rl.snap /\ rl'.last_index = rl.last_index
          /\ rl'.offsets = rl.offsets /\ rl'.first_index = rl.first_index
        BY <1>0, <2>1 DEF SetTerm, FileType
    <2>3. mishaps \subseteq mishaps' /\ Running /\ Running'
        BY <2>1 DEF SetTerm, Fault, NoFault, Running
    <2> QED
        BY <1>0, <2>2, <2>3, SegFrame
<1>2. CASE \E t \in 1..MaxTerm : AppendWrite(t)
    BY <1>0, <1>2, SegFrame DEF AppendWrite, Running
<1>3. CASE SetTermVote
    BY <1>0, <1>3, SegFrame DEF SetTermVote, Fault, NoFault, Running, FileType
<1>4. CASE \E n \in Node : SetVotedFor(n)
    BY <1>0, <1>4, SegFrame DEF SetVotedFor, Fault, NoFault, Running, FileType
<1>5. CASE AppendFails
    <2>1. CASE UNCHANGED file /\ Fault({})
        BY <1>0, <1>5, <2>1, SegFrame DEF AppendFails, Fault, Running
    <2>2. CASE Fault({"kept_tail"})
        BY <2>2 DEF Fault, SegInv, AckInv, Whole, SegDamage, LogDamage
    <2> QED
        BY <1>5, <2>1, <2>2 DEF AppendFails
<1> QED
    BY <1>1, <1>2, <1>3, <1>4, <1>5

\* An append that returns.
LEMMA AppendSegment ==
    ASSUME LogInv, AppendSync
    PROVE  SegInv' /\ AckInv'
<1>0. /\ pc = "append" /\ pc' = "idle" /\ undo' = undo /\ mishaps' = mishaps
      /\ file' = [file EXCEPT !.seg = Append(file.seg, arg)]
      /\ acked' = [i \in DOMAIN acked \union {arg.idx} |->
                      IF i = arg.idx THEN arg.term ELSE acked[i]]
    BY DEF AppendSync
<1>1. /\ arg \in Entry /\ arg.idx = rl.last_index + 1 /\ arg.idx \in Nat \ {0}
      /\ file \in [meta : 0..MaxTerm, vote : Node \union {0}, snap : Snap,
                   seg : Seq(Rec)]
    BY <1>0 DEF LogInv, LogTypeInv, OpType, FileType, Entry
<1>2. file'.snap = file.snap /\ file'.seg = Append(file.seg, arg)
    BY <1>0, <1>1
<1> SUFFICES ASSUME Whole PROVE SegInv' /\ AckInv'
    BY <1>0 DEF SegInv, AckInv, Whole
<1>3. /\ Solid(file.seg, rl.snap.idx) /\ rl.snap = file.snap
      /\ Table(rl, file.seg) /\ StructType(rl)
      /\ file.seg \in Seq(Entry) /\ Len(file.seg) \in Nat
      /\ undo # <<>> => Solid(undo[1], file.snap.idx)
      /\ "rename_lost" \notin mishaps =>
            /\ Survives(acked, file.seg, rl.snap.idx)
            /\ \A i \in DOMAIN acked : i \in Nat \ {0}
    BY <1>0, RunningFacts DEF Running
<1>4. Solid(file'.seg, rl.snap.idx)
    BY <1>1, <1>2, <1>3, SolidAppend
<1> DEFINE n == Len(file.seg)
           seg2 == Append(file.seg, arg)
<1>5. /\ Len(seg2) = n + 1 /\ seg2[n + 1] = arg
      /\ \A k \in 1..n : seg2[k] = file.seg[k]
    BY <1>3
<1> HIDE DEF seg2, n
<1>6. rl.snap.idx \in Nat /\ rl.last_index \in Nat /\ rl.first_index \in Nat \ {0}
    BY <1>3, StructNats
<1>7. /\ rl'.snap = rl.snap /\ rl'.last_index = arg.idx
      /\ rl'.first_index = rl.first_index
      /\ rl'.offsets = [i \in rl.first_index..arg.idx |->
                           IF i = arg.idx THEN n + 1 ELSE rl.offsets[i]]
    BY <1>3 DEF AppendSync, StructType, n
<1>8. Table(rl', seg2)
    <2>1. rl'.first_index <= rl'.snap.idx + 1
        BY <1>3, <1>7 DEF Table
    <2>2. ASSUME NEW k \in 1..(n + 1), seg2[k].idx > rl.snap.idx
          PROVE  seg2[k].idx <= arg.idx /\ rl'.offsets[seg2[k].idx] = k
        <3>0. rl.first_index <= rl.snap.idx + 1
            BY <1>3 DEF Table
        <3>1. CASE k = n + 1
            <4>1. arg.idx \in rl.first_index..arg.idx
                BY <1>1, <1>5, <1>6, <2>2, <3>0, <3>1
            <4> QED
                BY <1>1, <1>5, <1>7, <3>1, <4>1
        <3>2. CASE k # n + 1
            <4>1. k \in 1..n /\ seg2[k] = file.seg[k] /\ file.seg[k].idx \in Nat
                BY <1>3, <1>5, <3>2, EntryIdx DEF n
            <4>2. file.seg[k].idx <= rl.last_index /\ rl.offsets[file.seg[k].idx] = k
                BY <1>3, <2>2, <4>1 DEF Table, n
            <4>3. /\ file.seg[k].idx \in rl.first_index..arg.idx
                  /\ file.seg[k].idx # arg.idx
                BY <1>1, <1>6, <2>2, <3>0, <4>1, <4>2
            <4> QED
                BY <1>1, <1>6, <1>7, <4>1, <4>2, <4>3
        <3> QED
            BY <3>1, <3>2
    <2>3. ASSUME NEW i \in (rl.snap.idx + 1)..arg.idx PROVE Holds(seg2, i)
        BY <1>1, <1>2, <1>3, <1>4, <1>5, <1>6 DEF Solid, seg2, n
    <2> QED
        BY <1>5, <1>7, <2>1, <2>2, <2>3 DEF Table
<1>9. SegInv'
    BY <1>0, <1>2, <1>3, <1>4, <1>7, <1>8 DEF SegInv, seg2
<1>10. ASSUME "rename_lost" \notin mishaps
       PROVE  Survives(acked', seg2, rl.snap.idx) /\ \A i \in DOMAIN acked' : i \in Nat \ {0}
    <2>1. ASSUME NEW i \in DOMAIN acked', ~(i <= rl.snap.idx)
          PROVE  \E k \in 1..(n + 1) : seg2[k].idx = i /\ seg2[k].term = acked'[i]
        <3>1. CASE i = arg.idx
            BY <1>0, <1>3, <1>5, <3>1 DEF n
        <3>2. CASE i # arg.idx
            <4>1. i \in DOMAIN acked /\ acked'[i] = acked[i]
                BY <1>0, <2>1, <3>2
            <4>2. PICK k \in 1..n : file.seg[k].idx = i /\ file.seg[k].term = acked[i]
                BY <1>3, <1>10, <2>1, <4>1 DEF Survives, n
            <4> QED
                BY <1>3, <1>5, <4>1, <4>2 DEF n
        <3> QED
            BY <3>1, <3>2
    <2>2. Survives(acked', seg2, rl.snap.idx)
        BY <1>5, <2>1 DEF Survives
    <2>3. DOMAIN acked' = DOMAIN acked \union {arg.idx}
        BY <1>0
    <2> QED
        BY <1>1, <1>3, <1>10, <2>2, <2>3
<1>11. AckInv'
    BY <1>0, <1>2, <1>3, <1>10 DEF AckInv, seg2
<1> QED
    BY <1>9, <1>11

\* tsdb_raft_log_truncate.
LEMMA TruncateSegment ==
    ASSUME LogInv, NEW index \in 1..MaxIndex, Truncate(index)
    PROVE  SegInv' /\ AckInv'
<1>0. /\ pc = "idle" /\ pc' = "idle" /\ undo' = undo /\ acked' = Drop(acked, index)
      /\ index \in rl.first_index..rl.last_index
      /\ file' = [file EXCEPT !.seg = CutAt(file.seg, rl.offsets[index])]
      /\ mishaps \subseteq mishaps'
    BY DEF Truncate, Fault
<1> SUFFICES ASSUME Whole' PROVE SegInv' /\ AckInv'
    BY DEF SegInv, AckInv
<1>1. Whole /\ RecAt(rl, file.seg, index).idx = index
      /\ rl' = Truncated(rl, file'.seg, index)
    BY DEF Truncate, Fault, BlindCut, Whole, SegDamage, LogDamage
<1>2. /\ Solid(file.seg, rl.snap.idx) /\ rl.snap = file.snap
      /\ Table(rl, file.seg) /\ StructType(rl)
      /\ file.seg \in Seq(Entry) /\ Len(file.seg) \in Nat
      /\ undo # <<>> => Solid(undo[1], file.snap.idx)
      /\ "rename_lost" \notin mishaps =>
            /\ Survives(acked, file.seg, rl.snap.idx)
            /\ \A i \in DOMAIN acked : i \in Nat \ {0}
    BY <1>0, <1>1, RunningFacts DEF Running
<1>3. /\ rl.snap.idx \in Nat /\ rl.last_index \in Nat /\ rl.first_index \in Nat \ {0}
      /\ rl.first_index <= rl.snap.idx + 1 /\ index \in Nat \ {0}
    BY <1>2, StructNats DEF Table
<1> DEFINE p == rl.offsets[index]
           seg2 == SubSeq(file.seg, 1, p - 1)
           n == Len(file.seg)
<1>4. p \in 1..n /\ file.seg[p].idx = index
    BY <1>1, <1>3 DEF RecAt, Torn
<1>5. file'.seg = seg2 /\ file'.snap = file.snap
    <2>1. CutAt(file.seg, p) = seg2
        BY <1>2, <1>4 DEF CutAt
    <2> QED
        BY <1>0, <2>1 DEF LogInv, LogTypeInv, FileType
<1> HIDE DEF p, seg2
<1>6. /\ Solid(seg2, rl.snap.idx)
      /\ Len(seg2) = p - 1 /\ \A k \in 1..(p - 1) : seg2[k] = file.seg[k]
      /\ \A k \in 1..n : file.seg[k].idx > rl.snap.idx => (k < p <=> file.seg[k].idx < index)
      /\ \A k \in 1..(p - 1) : file.seg[k].idx > rl.snap.idx => index > rl.first_index
    <2>0. /\ p \in 1..Len(file.seg) /\ seg2 = SubSeq(file.seg, 1, p - 1)
          /\ Solid(file.seg, rl.snap.idx) /\ Table(rl, file.seg) /\ StructType(rl)
        BY <1>2, <1>4 DEF seg2
    <2>1. Solid(seg2, rl.snap.idx)
        BY <2>0, SolidCut
    <2>2. Len(seg2) = p - 1 /\ \A k \in 1..(p - 1) : seg2[k] = file.seg[k]
        BY <2>0, SolidCut
    <2>3. ASSUME NEW k \in 1..Len(file.seg), file.seg[k].idx > rl.snap.idx
          PROVE  k < p <=> file.seg[k].idx < index
        BY <1>3, <1>4, <2>0, <2>3, CutOrder
    <2>4. ASSUME NEW k \in 1..(p - 1), file.seg[k].idx > rl.snap.idx
          PROVE  index > rl.first_index
        <3>1. k \in 1..Len(file.seg) /\ k < p
            BY <1>2, <2>0
        <3>2. file.seg[k].idx < index /\ file.seg[k].idx \in Nat
            BY <1>2, <2>3, <2>4, <3>1, EntryIdx
        <3> QED
            BY <1>3, <2>4, <3>2
    <2> QED
        BY <1>4, <2>1, <2>2, <2>3, <2>4
<1>7. \A k \in 1..n : file.seg[k].idx \in Nat
    BY <1>2, EntryIdx
<1>8. /\ rl'.snap = rl.snap
      /\ index - 1 < rl.first_index => rl'.first_index = 1 /\ rl'.last_index = 0
      /\ ~(index - 1 < rl.first_index) =>
            /\ rl'.first_index = rl.first_index /\ rl'.last_index = index - 1
            /\ rl'.offsets = Drop(rl.offsets, index)
    BY <1>1, <1>2 DEF Truncated, StructType
<1>9. ASSUME NEW i \in Nat, i > rl.snap.idx, i < index, NEW k \in 1..n, file.seg[k].idx = i
      PROVE  k \in 1..(p - 1) /\ seg2[k] = file.seg[k]
    BY <1>2, <1>4, <1>6, <1>9
<1> HIDE DEF n
<1>10. Table(rl', seg2)
    <2>1. CASE index - 1 < rl.first_index
        <3>1. \A k \in 1..Len(seg2) : ~(seg2[k].idx > rl.snap.idx)
            BY <1>3, <1>6, <2>1
        <3> QED
            BY <1>3, <1>8, <2>1, <3>1 DEF Table
    <2>2. CASE ~(index - 1 < rl.first_index)
        <3>1. ASSUME NEW k \in 1..(p - 1), seg2[k].idx > rl.snap.idx
              PROVE  seg2[k].idx <= index - 1 /\ Drop(rl.offsets, index)[seg2[k].idx] = k
            <4>1. k \in 1..n /\ seg2[k] = file.seg[k] /\ k < p
                BY <1>2, <1>4, <1>6 DEF n
            <4>2. /\ file.seg[k].idx < index /\ file.seg[k].idx \in Nat
                  /\ file.seg[k].idx <= rl.last_index /\ rl.offsets[file.seg[k].idx] = k
                BY <1>2, <1>6, <1>7, <3>1, <4>1 DEF Table, n
            <4>3. file.seg[k].idx \in DOMAIN rl.offsets
                BY <1>2, <1>3, <3>1, <4>1, <4>2 DEF StructType
            <4> QED
                BY <1>3, <4>1, <4>2, <4>3 DEF Drop
        <3>2. ASSUME NEW i \in (rl.snap.idx + 1)..(index - 1) PROVE Holds(seg2, i)
            <4>1. i \in Nat /\ i > rl.snap.idx /\ i < index /\ i <= rl.last_index
                BY <1>0, <1>3
            <4>2. PICK k \in 1..n : file.seg[k].idx = i
                BY <1>2, <1>3, <4>1 DEF Table, Holds, n
            <4> QED
                BY <1>6, <1>9, <4>1, <4>2 DEF Holds
        <3> QED
            BY <1>3, <1>6, <1>8, <2>2, <3>1, <3>2 DEF Table
    <2> QED
        BY <2>1, <2>2
<1>11. SegInv'
    BY <1>0, <1>2, <1>5, <1>6, <1>8, <1>10 DEF SegInv
<1>12. ASSUME "rename_lost" \notin mishaps
       PROVE  /\ Survives(acked', seg2, rl.snap.idx)
              /\ \A i \in DOMAIN acked' : i \in Nat \ {0}
    <2>1. DOMAIN acked' = {j \in DOMAIN acked : j < index}
          /\ \A i \in DOMAIN acked' : acked'[i] = acked[i]
        BY <1>0 DEF Drop
    <2>2. ASSUME NEW i \in DOMAIN acked', ~(i <= rl.snap.idx)
          PROVE  \E k \in 1..Len(seg2) : seg2[k].idx = i /\ seg2[k].term = acked'[i]
        <3>1. i \in DOMAIN acked /\ acked'[i] = acked[i] /\ i < index /\ i \in Nat
            BY <1>2, <1>12, <2>1, <2>2
        <3>2. PICK k \in 1..n : file.seg[k].idx = i /\ file.seg[k].term = acked[i]
            BY <1>2, <1>12, <2>2, <3>1 DEF Survives, n
        <3>3. k \in 1..(p - 1) /\ seg2[k] = file.seg[k]
            BY <1>3, <1>9, <2>2, <3>1, <3>2
        <3> QED
            BY <1>6, <3>1, <3>2, <3>3
    <2>3. Survives(acked', seg2, rl.snap.idx)
        BY <2>2 DEF Survives
    <2> QED
        BY <1>2, <1>12, <2>1, <2>3
<1>13. AckInv'
    <2>1. "rename_lost" \notin mishaps' => "rename_lost" \notin mishaps
        BY <1>0
    <2> QED
        BY <1>0, <1>2, <1>5, <1>12, <2>1 DEF AckInv
<1> QED
    BY <1>11, <1>13

\* What a compaction copies: the entries after the tip, each once.
LEMMA KeptEntries ==
    ASSUME LogInv, Whole, Running, NEW tip \in Entry, tip.idx > rl.snap.idx,
           NEW s, s = Kept(tip)
    PROVE  /\ s \in Seq(Entry)
           /\ \A k \in 1..Len(s) : s[k].idx = tip.idx + k
           /\ "rename_lost" \notin mishaps => Survives(acked, s, tip.idx)
<1>1. /\ Solid(file.seg, rl.snap.idx)
      /\ Table(rl, file.seg) /\ StructType(rl)
      /\ file.seg \in Seq(Entry) /\ Len(file.seg) \in Nat
      /\ "rename_lost" \notin mishaps =>
            /\ Survives(acked, file.seg, rl.snap.idx)
            /\ \A i \in DOMAIN acked : i \in Nat \ {0}
    BY RunningFacts
<1>2. /\ rl.snap.idx \in Nat /\ rl.last_index \in Nat /\ rl.first_index \in Nat \ {0}
      /\ rl.first_index <= rl.snap.idx + 1 /\ tip.idx \in Nat
    BY <1>1, StructNats DEF Table, Entry
<1> DEFINE n == Len(file.seg)
           need == IF rl.last_index > tip.idx THEN rl.last_index - tip.idx ELSE 0
<1>3. s = [k \in 1..need |-> RecAt(rl, file.seg, tip.idx + k)]
    <2>1. ~(tip.idx < rl.first_index)
        BY <1>2
    <2> QED
        BY <2>1 DEF Kept
<1>4. need \in Nat /\ (tip.idx + need <= rl.last_index \/ need = 0)
      /\ (rl.last_index > tip.idx => need = rl.last_index - tip.idx)
    BY <1>2
<1> HIDE DEF need
<1>5. ASSUME NEW i \in Nat, i > rl.snap.idx, i <= rl.last_index, NEW m \in 1..n,
             file.seg[m].idx = i
      PROVE  RecAt(rl, file.seg, i) = file.seg[m]
    <2>1. rl.offsets[i] = m
        BY <1>1, <1>5 DEF Table
    <2>2. i \in DOMAIN rl.offsets
        BY <1>1, <1>2, <1>5 DEF StructType
    <2> QED
        BY <2>1, <2>2 DEF RecAt
<1>6. ASSUME NEW k \in 1..need
      PROVE  s[k] \in Entry /\ s[k].idx = tip.idx + k
    <2>1. tip.idx + k \in Nat /\ tip.idx + k > rl.snap.idx /\ tip.idx + k <= rl.last_index
        BY <1>2, <1>4
    <2>2. Holds(file.seg, tip.idx + k)
        BY <1>1, <1>2, <2>1 DEF Table
    <2>3. PICK m \in 1..n : file.seg[m].idx = tip.idx + k
        BY <2>2 DEF Holds
    <2>4. s[k] = file.seg[m]
        BY <1>3, <1>5, <2>1, <2>3
    <2> QED
        BY <1>1, <2>3, <2>4, EntryIdx
<1>7. s \in Seq(Entry) /\ Len(s) = need
    BY <1>3, <1>4, <1>6
<1>8. ASSUME "rename_lost" \notin mishaps PROVE Survives(acked, s, tip.idx)
    <2>1. ASSUME NEW i \in DOMAIN acked, ~(i <= tip.idx)
          PROVE  \E k \in 1..Len(s) : s[k].idx = i /\ s[k].term = acked[i]
        <3>1. i \in Nat /\ i > tip.idx /\ i > rl.snap.idx
            BY <1>1, <1>2, <1>8, <2>1
        <3>2. PICK m \in 1..n : file.seg[m].idx = i /\ file.seg[m].term = acked[i]
            BY <1>1, <1>2, <1>8, <3>1 DEF Survives
        <3>3. i <= rl.last_index
            BY <1>1, <3>1, <3>2 DEF Table
        <3>4. i - tip.idx \in 1..need /\ tip.idx + (i - tip.idx) = i
            BY <1>2, <1>4, <3>1, <3>3
        <3>5. s[i - tip.idx] = file.seg[m]
            BY <1>3, <1>5, <3>1, <3>2, <3>3, <3>4
        <3> QED
            BY <1>7, <3>2, <3>4, <3>5
    <2> QED
        BY <2>1 DEF Survives
<1> QED
    BY <1>6, <1>7, <1>8

\* tsdb_raft_log_compact.
LEMMA CompactSegment ==
    ASSUME LogInv,
           \/ \E tip \in Entry : CompactRename(tip)
           \/ CompactInstall
           \/ CompactReopenFails
    PROVE  SegInv' /\ AckInv'
<1>0. file \in [meta : 0..MaxTerm, vote : Node \union {0}, snap : Snap, seg : Seq(Rec)]
      /\ StructType(rl)
    BY DEF LogInv, LogTypeInv, FileType
<1>1. CASE \E tip \in Entry : CompactRename(tip)
    <2>1. PICK tip \in Entry : CompactRename(tip)
        BY <1>1
    <2> DEFINE s == Kept(tip)
    <2>2. /\ pc = "idle" /\ pc' = "compact" /\ arg' = tip /\ undo' = <<file.seg>>
          /\ acked' = acked /\ mishaps' = mishaps /\ tip.idx > rl.snap.idx
          /\ file'.seg = s /\ file'.snap = file.snap
        BY <1>0, <2>1 DEF CompactRename
    <2> HIDE DEF s
    <2> SUFFICES ASSUME Whole PROVE SegInv' /\ AckInv'
        BY <2>2 DEF SegInv, AckInv, Whole
    <2>3. /\ Solid(file.seg, rl.snap.idx) /\ rl.snap = file.snap
          /\ "rename_lost" \notin mishaps => \A i \in DOMAIN acked : i \in Nat \ {0}
        BY <2>2, RunningFacts DEF Running
    <2>4. /\ s \in Seq(Entry)
          /\ \A k \in 1..Len(s) : s[k].idx = tip.idx + k
          /\ "rename_lost" \notin mishaps => Survives(acked, s, tip.idx)
        BY <2>2, KeptEntries DEF Running, s
    <2>5. undo'[1] = file.seg
        BY <2>2
    <2>6. SegInv'
        BY <2>2, <2>3, <2>4, <2>5 DEF SegInv, Running
    <2>7. AckInv'
        BY <2>2, <2>3, <2>4 DEF AckInv, Running
    <2> QED
        BY <2>6, <2>7
<1>2. CASE CompactInstall
    <2> SUFFICES ASSUME Whole' PROVE SegInv' /\ AckInv'
        BY DEF SegInv, AckInv
    <2>1. /\ pc = "compact" /\ pc' = "idle" /\ undo' = undo /\ acked' = acked
          /\ mishaps' = mishaps /\ rl' = Compacted(rl, file.seg, arg)
          /\ file'.seg = file.seg /\ file'.snap = arg
        <3>1. ~ Fault({"marker"})
            BY DEF Fault, Whole, SegDamage, LogDamage
        <3> QED
            BY <1>0, <1>2, <3>1 DEF CompactInstall, NoFault
    <2>2. Whole
        BY <2>1 DEF Whole
    <2>3. /\ arg \in Entry /\ arg.idx \in Nat /\ file.snap.idx \in Nat
        BY <1>0, <2>1, LogBoundAssumption DEF LogInv, LogTypeInv, OpType, Entry, Snap, Torn
    <2>4. /\ arg.idx > file.snap.idx /\ file.seg \in Seq(Entry)
          /\ \A k \in 1..Len(file.seg) : file.seg[k].idx = arg.idx + k
          /\ undo # <<>> => Solid(undo[1], file.snap.idx)
        BY <2>1, <2>2 DEF LogInv, SegInv
    <2> DEFINE n == Len(file.seg)
    <2>5. n \in Nat
        BY <2>4
    <2>6. /\ rl'.first_index = arg.idx + 1 /\ rl'.last_index = arg.idx + n
          /\ rl'.offsets = [i \in (arg.idx + 1)..(arg.idx + n) |-> i - arg.idx]
          /\ rl'.snap = arg
        BY <1>0, <2>1 DEF Compacted, StructType
    <2>7. ASSUME NEW i \in (arg.idx + 1)..(arg.idx + n) PROVE Holds(file.seg, i)
        <3>1. i - arg.idx \in 1..n /\ arg.idx + (i - arg.idx) = i
            BY <2>3, <2>5
        <3> QED
            BY <2>4, <3>1 DEF Holds
    <2>8. Solid(file.seg, arg.idx)
        <3>1. ASSUME NEW j \in 1..n, NEW k \in 1..n, j < k
              PROVE  file.seg[j].idx < file.seg[k].idx
            BY <2>3, <2>4, <2>5, <3>1
        <3>2. ASSUME NEW k \in 1..n, NEW i \in (arg.idx + 1)..file.seg[k].idx
              PROVE  Holds(file.seg, i)
            <4>1. i \in (arg.idx + 1)..(arg.idx + n)
                BY <2>3, <2>4, <2>5, <3>2
            <4> QED
                BY <2>7, <4>1
        <3> QED
            BY <2>4, <3>1, <3>2 DEF Solid
    <2>9. Table(rl', file.seg)
        <3>1. ASSUME NEW k \in 1..n
              PROVE  file.seg[k].idx <= rl'.last_index /\ rl'.offsets[file.seg[k].idx] = k
            <4>1. /\ arg.idx + k \in (arg.idx + 1)..(arg.idx + n)
                  /\ (arg.idx + k) - arg.idx = k
                BY <2>3, <2>5
            <4> QED
                BY <2>3, <2>4, <2>5, <2>6, <4>1
        <3> QED
            BY <2>3, <2>6, <2>7, <3>1 DEF Table
    <2>10. undo' # <<>> => Solid(undo'[1], arg.idx)
        BY <2>1, <2>3, <2>4, SolidLater
    <2>11. SegInv'
        BY <2>1, <2>6, <2>8, <2>9, <2>10 DEF SegInv
    <2>12. AckInv'
        BY <2>1, <2>2 DEF LogInv, AckInv
    <2> QED
        BY <2>11, <2>12
<1>3. CASE CompactReopenFails
    BY <1>3 DEF CompactReopenFails, Fault, SegInv, AckInv, Whole, SegDamage, LogDamage
<1> QED
    BY <1>1, <1>2, <1>3

\* A crash of a running node, or one that undoes a rename.
LEMMA CrashSegment ==
    ASSUME LogInv, Crash
    PROVE  SegInv' /\ AckInv'
<1>1. PICK s \in SegAfterCrash :
         /\ file' = [file EXCEPT !.seg = s[1]]
         /\ mishaps' = mishaps \union s[2]
                       \union (IF pc = "compact" /\ s[2] = {} THEN {"marker"} ELSE {})
    BY DEF Crash
<1>2. /\ pc # "down" /\ pc' = "down" /\ undo' = <<>> /\ acked' = acked
      /\ mishaps \subseteq mishaps'
    BY <1>1 DEF Crash
<1>3. /\ file \in [meta : 0..MaxTerm, vote : Node \union {0}, snap : Snap, seg : Seq(Rec)]
      /\ pc \in {"idle", "set_term", "append", "compact", "down"}
    BY DEF LogInv, LogTypeInv, FileType, OpType
<1>4. file'.snap = file.snap /\ file'.seg = s[1]
    BY <1>1, <1>3
<1> SUFFICES ASSUME Whole' PROVE SegInv' /\ AckInv'
    BY DEF SegInv, AckInv
<1>5. Whole
    BY <1>2 DEF Whole
<1>6. CASE undo # <<>> /\ s = <<undo[1], LostRename(undo[1])>>
    <2>1. s[1] = undo[1] /\ "rename_lost" \in mishaps'
        BY <1>1, <1>6 DEF LostRename
    <2>2. Solid(undo[1], file.snap.idx) /\ undo[1] \in Seq(Entry)
        BY <1>5, <1>6 DEF LogInv, SegInv, Solid
    <2>3. Scanned(undo[1]) = undo[1]
        BY <2>2, ScanWhole
    <2> QED
        BY <1>2, <1>4, <2>1, <2>2, <2>3 DEF SegInv, AckInv, Running
<1>7. CASE \/ s = <<file.seg, {}>>
           \/ /\ pc = "append"
              /\ s \in {<<Append(file.seg, arg), {}>>, <<Append(file.seg, Torn), {}>>,
                       <<Append(file.seg, Stub), {"stub"}>>}
    <2>1. Running
        <3>1. s = <<file.seg, {}>> => pc # "compact"
            BY <1>1 DEF Whole, SegDamage, LogDamage
        <3> QED
            BY <1>2, <1>3, <1>7, <3>1 DEF Running
    <2>2. /\ Solid(file.seg, rl.snap.idx) /\ rl.snap = file.snap
          /\ Table(rl, file.seg) /\ StructType(rl)
          /\ file.seg \in Seq(Entry) /\ Len(file.seg) \in Nat
          /\ "rename_lost" \notin mishaps =>
                /\ Survives(acked, file.seg, rl.snap.idx)
                /\ \A i \in DOMAIN acked : i \in Nat \ {0}
        BY <1>5, <2>1, RunningFacts
    <2>3. SUFFICES \E g : /\ Scanned(s[1]) = g /\ s[1] \in {g, Append(g, Torn)}
                          /\ Solid(g, rl.snap.idx)
                          /\ "rename_lost" \notin mishaps => Survives(acked, g, rl.snap.idx)
        <3>1. PICK g : /\ Scanned(s[1]) = g /\ s[1] \in {g, Append(g, Torn)}
                       /\ Solid(g, rl.snap.idx)
                       /\ "rename_lost" \notin mishaps => Survives(acked, g, rl.snap.idx)
            BY <2>3
        <3>2. SegInv'
            BY <1>2, <1>4, <2>2, <3>1 DEF SegInv, Running
        <3>3. AckInv'
            <4>1. "rename_lost" \notin mishaps' => "rename_lost" \notin mishaps
                BY <1>2
            <4> QED
                BY <1>2, <1>4, <2>2, <3>1, <4>1 DEF AckInv, Running
        <3> QED
            BY <3>2, <3>3
    <2>4. CASE s = <<file.seg, {}>>
        BY <2>2, <2>4, ScanWhole
    <2>5. ASSUME pc = "append"
          PROVE  arg \in Entry /\ arg.idx = rl.last_index + 1 /\ MaxTerm > 0
        BY <2>5, LogBoundAssumption DEF LogInv, LogTypeInv, OpType, Entry
    <2>6. CASE pc = "append" /\ s = <<Append(file.seg, arg), {}>>
        <3> DEFINE g == Append(file.seg, arg)
        <3>1. g \in Seq(Entry) /\ Len(g) = Len(file.seg) + 1
              /\ \A k \in 1..Len(file.seg) : g[k] = file.seg[k]
            BY <2>2, <2>5, <2>6
        <3>2. Solid(g, rl.snap.idx)
            BY <2>2, <2>5, <2>6, SolidAppend
        <3> HIDE DEF g
        <3>3. ASSUME "rename_lost" \notin mishaps PROVE Survives(acked, g, rl.snap.idx)
            <4>1. ASSUME NEW i \in DOMAIN acked, ~(i <= rl.snap.idx)
                  PROVE  \E k \in 1..Len(g) : g[k].idx = i /\ g[k].term = acked[i]
                <5>1. PICK k \in 1..Len(file.seg) :
                         file.seg[k].idx = i /\ file.seg[k].term = acked[i]
                    BY <2>2, <3>3, <4>1, Zenon DEF Survives
                <5>2. k \in 1..Len(g) /\ g[k] = file.seg[k]
                    BY <2>2, <3>1
                <5> QED
                    BY <5>1, <5>2
            <4> QED
                BY <4>1, Zenon DEF Survives
        <3>4. Scanned(g) = g
            BY <3>1, ScanWhole
        <3>5. s[1] = g
            BY <2>6 DEF g
        <3> QED
            BY <3>2, <3>3, <3>4, <3>5
    <2>7. CASE pc = "append" /\ s = <<Append(file.seg, Torn), {}>>
        <3>1. s[1] = Append(file.seg, Torn) /\ Scanned(Append(file.seg, Torn)) = file.seg
            BY <2>2, <2>5, <2>7, ScanWhole
        <3> QED
            BY <2>2, <3>1
    <2>8. CASE pc = "append" /\ s = <<Append(file.seg, Stub), {"stub"}>>
        <3>1. s[2] = {"stub"}
            BY <2>8
        <3> QED
            BY <1>1, <3>1 DEF Whole, SegDamage, LogDamage
    <2> QED
        BY <1>7, <2>4, <2>6, <2>7, <2>8
<1> QED
    <2>1. \/ s = <<file.seg, {}>>
          \/ /\ pc = "append"
             /\ s \in {<<Append(file.seg, arg), {}>>, <<Append(file.seg, Torn), {}>>,
                      <<Append(file.seg, Stub), {"stub"}>>}
          \/ undo # <<>> /\ s = <<undo[1], LostRename(undo[1])>>
        BY Zenon DEF SegAfterCrash
    <2> QED
        BY <1>6, <1>7, <2>1

\* tsdb_raft_log_open cuts a torn record off and finds every entry again.
LEMMA OpenSegment ==
    ASSUME LogInv, Open
    PROVE  SegInv' /\ AckInv'
<1> DEFINE g == Scanned(file.seg)
<1>0. /\ pc = "down" /\ pc' = "idle" /\ undo' = undo /\ acked' = acked
      /\ file' = [file EXCEPT !.seg = SegAfterOpen(file.seg)]
      /\ mishaps \subseteq mishaps'
    BY DEF Open
<1>1. /\ FileType /\ file.seg \in Seq(Rec)
      /\ file \in [meta : 0..MaxTerm, vote : Node \union {0}, snap : Snap, seg : Seq(Rec)]
    BY DEF LogInv, LogTypeInv, FileType
<1> SUFFICES ASSUME Whole' PROVE SegInv' /\ AckInv'
    BY DEF SegInv, AckInv
<1>2. Whole
    BY <1>0 DEF Whole
<1>3. /\ Solid(g, file.snap.idx) /\ file.seg \in {g, Append(g, Torn)}
      /\ undo # <<>> => Solid(undo[1], file.snap.idx)
    BY <1>0, <1>2 DEF LogInv, SegInv
<1>4. "rename_lost" \notin mishaps =>
         /\ \A i \in DOMAIN acked : i \in Nat \ {0}
         /\ Survives(acked, g, file.snap.idx)
    BY <1>0, <1>2 DEF LogInv, AckInv
<1>5. SegAfterOpen(file.seg) = g
    <2>1. g \in Seq(Entry)
        BY <1>3 DEF Solid
    <2> QED
        BY <1>3, <2>1, OpenCuts
<1>6. file'.seg = g /\ file'.snap = file.snap
    BY <1>0, <1>1, <1>5
<1>7. PICK junk \in Junk(file.seg) : rl' = Opened(file, junk)
    BY DEF Open
<1>8. junk \in Nat \ {0}
    BY <1>1 DEF Junk
<1> HIDE DEF g
<1>9. rl'.snap = file.snap /\ Table(rl', g)
    BY <1>1, <1>3, <1>7, <1>8, OpenedTable DEF g
<1>10. SegInv'
    BY <1>0, <1>3, <1>6, <1>9 DEF SegInv
<1>11. AckInv'
    <2>1. "rename_lost" \notin mishaps' => "rename_lost" \notin mishaps
        BY <1>0
    <2> QED
        BY <1>0, <1>4, <1>6, <2>1 DEF AckInv
<1> QED
    BY <1>10, <1>11

LEMMA LogStep == LogInv /\ [Next]_vars => LogInv'
<1> SUFFICES ASSUME LogInv, [Next]_vars PROVE LogInv'
    OBVIOUS
<1>1. LogTypeInv'
    BY LogTypeStep DEF LogInv
<1>2. SegInv' /\ AckInv'
    <2>1. CASE UNCHANGED vars
        BY <2>1 DEF vars, LogInv, SegInv, AckInv, Whole, Running
    <2>2. CASE Next
        BY <2>2, QuietSegment, AppendSegment, TruncateSegment, CompactSegment,
           CrashSegment, OpenSegment DEF Next
    <2> QED
        BY <2>1, <2>2
<1> QED
    BY <1>1, <1>2 DEF LogInv

LEMMA LogHolds == Spec => []LogInv
<1>1. Init => LogInv
    BY LogInit
<1>2. LogInv /\ [Next]_vars => LogInv'
    BY LogStep
<1> QED
    BY <1>1, <1>2, PTL DEF Spec

(***************************************************************************)
(* For every set of nodes and every bound: an entry append acknowledged    *)
(* and nobody truncated is found again under its index and with its term,  *)
(* whatever crashes and reopens come in between, unless the log was        *)
(* damaged in one of the named ways.  The invariant says that the records  *)
(* above the snapshot stand in the segment in the order of their indexes   *)
(* without a gap and that the offset table leads to each.                  *)
(***************************************************************************)
THEOREM AckedEntriesKeptHolds == Spec => []AckedEntriesKept
<1>1. LogInv => AckedEntriesKept
    <2> SUFFICES ASSUME LogInv, pc = "idle", mishaps \intersect LogDamage = {},
                        NEW i \in DOMAIN acked, ~(i <= rl.snap.idx)
                 PROVE  TermAt(rl, file.seg, i) = acked[i]
        BY DEF AckedEntriesKept
    <2>1. Whole /\ Running /\ "rename_lost" \notin mishaps
        BY DEF Whole, SegDamage, LogDamage, Running
    <2>2. /\ Table(rl, file.seg) /\ StructType(rl)
          /\ Survives(acked, file.seg, rl.snap.idx) /\ i \in Nat \ {0}
        BY <2>1, RunningFacts
    <2>3. PICK k \in 1..Len(file.seg) : file.seg[k].idx = i /\ file.seg[k].term = acked[i]
        BY <2>2 DEF Survives
    <2>4. /\ rl.snap.idx \in Nat /\ rl.first_index \in Nat /\ rl.last_index \in Nat
          /\ i > rl.snap.idx
        BY <2>2, StructNats
    <2>5. i <= rl.last_index /\ rl.offsets[i] = k /\ rl.first_index <= rl.snap.idx + 1
        BY <2>2, <2>3, <2>4 DEF Table
    <2>6. i \in DOMAIN rl.offsets /\ i \in rl.first_index..rl.last_index
        BY <2>2, <2>4, <2>5 DEF StructType
    <2>7. RecAt(rl, file.seg, i) = file.seg[k]
        BY <2>5, <2>6 DEF RecAt
    <2> QED
        BY <2>2, <2>3, <2>4, <2>6, <2>7 DEF TermAt
<1> QED
    BY <1>1, LogHolds, PTL
=============================================================================
