------------------------------- MODULE RaftLog -------------------------------
(***************************************************************************)
(* The persistent state of one Raft node (src/raft/raft_log.c): current    *)
(* term, vote, snapshot marker and log segment, each in a file of its own, *)
(* and the struct the files are loaded into.  Every operation runs under   *)
(* rl->lock, so what interleaves is the crash: it falls between any two    *)
(* file writes, and a reopen starts from what reached the disk.  Callers   *)
(* ignore the result of set_term, set_voted_for and compact, so a write    *)
(* that fails leaves the struct ahead of its file.                         *)
(*                                                                         *)
(* Abstractions.  An entry is its index and term.  A file offset is the    *)
(* position of a record in the segment.  A record cut short is Torn when   *)
(* at least its 4-byte magic is there and Stub when less is.               *)
(***************************************************************************)
EXTENDS Integers, Sequences, FiniteSets

CONSTANTS
    Node,                \* nodes a vote may go to
    MaxTerm, MaxIndex, MaxCrashes, MaxFaults   \* bounds

ASSUME NodeAssumption == 0 \notin Node
ASSUME LogBoundAssumption ==
    {MaxTerm, MaxIndex, MaxCrashes, MaxFaults} \subseteq Nat

VARIABLES
    file,    \* meta.bin, vote.bin, snap_meta.bin and seg.bin
    undo,    \* <<the segment before the last compaction>> while its rename
             \* is not known to be durable (the directory is not synced)
    rl,      \* struct tsdb_raft_log
    pc,      \* the file write that comes next
    arg,     \* the entry or snapshot tip the operation in progress is about
    votes,   \* history: <<term, node>> of every set_voted_for that returned
    acked,   \* history: term of every entry appended and not truncated
    crashes, faults,
    mishaps  \* history: which of the outcomes below happened

vars == <<file, undo, rl, pc, arg, votes, acked, crashes, faults, mishaps>>

(***************************************************************************)
(* What may leave the files behind the struct, or the struct behind the    *)
(* files:                                                                  *)
(*   vote_write, meta_write   the write failed; the caller did not look    *)
(*   kept_tail      an append failed and so did the ftruncate undoing it   *)
(*   half_truncate  ftruncate succeeded and the fsync after it failed      *)
(*   stale_offsets  the compacted segment was renamed in place and could   *)
(*                  not be reopened                                        *)
(*   marker         the segment was compacted, snap_meta.bin was not       *)
(*                  written (crash or failed write)                        *)
(*   rename_lost    a crash undid the rename of a compacted segment        *)
(*   behind         ... and the segment brought back ends before the       *)
(*                  snapshot                                               *)
(*   blind_cut      a truncate used a slot of the offset table that does   *)
(*                  not lead to its entry                                  *)
(*   underflow      the scan of an open met an index below that of the     *)
(*                  first record and wrote in front of the offset table    *)
(*   stub           a crash left one to three bytes of a record            *)
(*   emptied        a truncate removed every entry kept after a snapshot   *)
(***************************************************************************)
Mishap == {"vote_write", "meta_write", "kept_tail", "half_truncate",
           "stale_offsets", "marker", "rename_lost", "behind", "blind_cut",
           "underflow", "stub", "emptied"}

Torn == [idx |-> 0, term |-> 0]
Stub == [idx |-> 0, term |-> 1]
Entry == [idx : 1..MaxIndex, term : 1..MaxTerm]
Drop(f, i) == [k \in {j \in DOMAIN f : j < i} |-> f[k]]

-----------------------------------------------------------------------------
(***************************************************************************)
(* Opening the files.                                                      *)
(***************************************************************************)

\* The records the scan of log_rebuild_offsets accepts.
Scanned(seg) ==
    LET n == CHOOSE n \in 0..Len(seg) :
                /\ \A k \in 1..n : seg[k].idx # 0
                /\ n < Len(seg) => seg[n + 1].idx = 0
    IN  SubSeq(seg, 1, n)

\* A plausible bug: the torn record is left in the segment.
SegAfterOpenKeepsTorn(seg) == seg

\* A short read of the magic is taken for the end of the file: a stub that
\* ends the segment stays there, anything else is cut off.
SegAfterOpen(seg) ==
    LET n == Len(Scanned(seg))
    IN  IF n + 1 = Len(seg) /\ seg[n + 1] = Stub THEN seg ELSE Scanned(seg)

\* What the slot of an index the segment does not hold may contain: the table
\* is grown with realloc and such a slot is never written.  It leads to a
\* record, to the end of the segment or past it.
Junk(seg) == 1..(Len(seg) + 2)

\* The offset table.
OffsetsOf(seg, first, last, junk) ==
    [i \in first..last |->
        LET at == {k \in 1..Len(seg) : seg[k].idx = i}
        IN  IF at = {} THEN junk ELSE CHOOSE k \in at : \A j \in at : j <= k]

\* The segment scanned, with the guard that keeps last_index >= snap_index.
Rebuilt(seg, snap, junk) ==
    LET g == Scanned(seg)
        n == Len(g)
    IN  IF n = 0 \/ g[n].idx < snap.idx
        THEN [first_index |-> snap.idx + 1, last_index |-> snap.idx,
              last_term |-> snap.term, offsets |-> <<>>]
        ELSE [first_index |-> g[1].idx, last_index |-> g[n].idx,
              last_term |-> g[n].term,
              offsets |-> OffsetsOf(g, g[1].idx, g[n].idx, junk)]

\* tsdb_raft_log_open.
Opened(f, junk) ==
    LET r == Rebuilt(f.seg, f.snap, junk)
    IN  [term |-> f.meta, vote |-> f.vote, snap |-> f.snap,
         first_index |-> r.first_index, last_index |-> r.last_index,
         last_term |-> r.last_term, offsets |-> r.offsets]

-----------------------------------------------------------------------------
(***************************************************************************)
(* Reading.                                                                *)
(***************************************************************************)
RecAt(r, seg, i) ==
    IF i \in DOMAIN r.offsets /\ r.offsets[i] \in 1..Len(seg)
    THEN seg[r.offsets[i]] ELSE Torn

\* tsdb_raft_log_term_at: 0 when the index is not in the log.
TermAt(r, seg, i) ==
    IF i = 0 THEN 0
    ELSE IF i = r.snap.idx THEN r.snap.term
    ELSE IF i \in r.first_index..r.last_index /\ RecAt(r, seg, i).idx = i
    THEN RecAt(r, seg, i).term
    ELSE 0

Init ==
    /\ file = [meta |-> 0, vote |-> 0, snap |-> Torn, seg |-> <<>>]
    /\ undo = <<>>
    /\ rl = Opened(file, 1)
    /\ pc = "idle"
    /\ arg = Torn
    /\ votes = {}
    /\ acked = <<>>
    /\ crashes = 0
    /\ faults = 0
    /\ mishaps = {}

\* A disk operation fails.
Fault(m) ==
    /\ faults < MaxFaults
    /\ faults' = faults + 1
    /\ mishaps' = mishaps \union m

NoFault == UNCHANGED <<faults, mishaps>>

-----------------------------------------------------------------------------
(***************************************************************************)
(* Term and vote.                                                          *)
(***************************************************************************)

\* tsdb_raft_log_set_term: the struct first, then meta.bin ...  Callers only
\* raise the term.
SetTerm(t) ==
    /\ pc = "idle"
    /\ t > rl.term
    /\ rl' = [rl EXCEPT !.term = t, !.vote = 0]
    /\ \/ file' = [file EXCEPT !.meta = t] /\ NoFault
       \/ UNCHANGED file /\ Fault({"meta_write"})
    /\ pc' = "set_term"
    /\ UNCHANGED <<undo, arg, votes, acked, crashes>>

\* ... then vote.bin, also when meta.bin failed.
SetTermVote ==
    /\ pc = "set_term"
    /\ \/ file' = [file EXCEPT !.vote = rl.vote] /\ NoFault
       \/ UNCHANGED file /\ Fault({"vote_write"})
    /\ pc' = "idle"
    /\ UNCHANGED <<undo, rl, arg, votes, acked, crashes>>

\* A plausible bug: the vote already cast is not looked at.
MayVoteAgain(n) == rl.term > 0

\* tsdb_raft_log_set_voted_for, which raft_on_request_vote and
\* become_candidate call when the vote of the term is free or already n's.
MayVote(n) == rl.term > 0 /\ rl.vote \in {0, n}

SetVotedFor(n) ==
    /\ pc = "idle"
    /\ MayVote(n)
    /\ rl' = [rl EXCEPT !.vote = n]
    /\ \/ file' = [file EXCEPT !.vote = n] /\ NoFault
       \/ UNCHANGED file /\ Fault({"vote_write"})
    /\ votes' = votes \union {<<rl.term, n>>}
    /\ UNCHANGED <<undo, pc, arg, acked, crashes>>

-----------------------------------------------------------------------------
(***************************************************************************)
(* The segment.                                                            *)
(***************************************************************************)

\* tsdb_raft_log_append hands the record to the file ...
AppendWrite(t) ==
    /\ pc = "idle"
    /\ rl.last_index < MaxIndex
    /\ t \in 1..rl.term /\ t >= rl.last_term
    /\ rl' = IF rl.last_index = 0 THEN [rl EXCEPT !.first_index = 1] ELSE rl
    /\ arg' = [idx |-> rl.last_index + 1, term |-> t]
    /\ pc' = "append"
    /\ UNCHANGED <<file, undo, votes, acked, crashes, faults, mishaps>>

\* ... and fsync returns: the entry is acknowledged.
AppendSync ==
    /\ pc = "append"
    /\ file' = [file EXCEPT !.seg = Append(file.seg, arg)]
    /\ rl' = [rl EXCEPT !.last_index = arg.idx, !.last_term = arg.term,
                        !.offsets = [i \in rl.first_index..arg.idx |->
                            IF i = arg.idx THEN Len(file.seg) + 1
                            ELSE rl.offsets[i]]]
    /\ acked' = [i \in DOMAIN acked \union {arg.idx} |->
                    IF i = arg.idx THEN arg.term ELSE acked[i]]
    /\ pc' = "idle"
    /\ arg' = Torn
    /\ UNCHANGED <<undo, votes, crashes, faults, mishaps>>

\* ... or fails, and the file is cut back to where the record began, which
\* may fail too.
AppendFails ==
    /\ pc = "append"
    /\ \/ UNCHANGED file /\ Fault({})
       \/ /\ \E rec \in {Torn, Stub, arg} :
                file' = [file EXCEPT !.seg = Append(file.seg, rec)]
          /\ Fault({"kept_tail"})
    /\ pc' = "idle"
    /\ arg' = Torn
    /\ UNCHANGED <<undo, rl, votes, acked, crashes>>

\* A plausible bug: last_term is not read back from the new last entry.
TruncatedKeepsTerm(r, seg, index) ==
    IF index - 1 < r.first_index
    THEN [r EXCEPT !.first_index = 1, !.last_index = 0, !.last_term = 0,
                   !.offsets = <<>>]
    ELSE [r EXCEPT !.last_index = index - 1, !.offsets = Drop(r.offsets, index)]

\* The struct after tsdb_raft_log_truncate(index): an emptied log starts
\* over at index 1, whatever the snapshot covers.
Truncated(r, seg, index) ==
    IF index - 1 < r.first_index
    THEN [r EXCEPT !.first_index = 1, !.last_index = 0, !.last_term = 0,
                   !.offsets = <<>>]
    ELSE [r EXCEPT !.last_index = index - 1,
                   !.last_term = IF r.offsets[index - 1] \in 1..Len(seg)
                                 THEN seg[r.offsets[index - 1]].term ELSE @,
                   !.offsets = Drop(r.offsets, index)]

\* The segment after ftruncate to an offset, which adds zeros past the end.
CutAt(seg, off) ==
    IF off > Len(seg) + 1 THEN Append(seg, Torn) ELSE SubSeq(seg, 1, off - 1)

BlindCut(index) ==
    IF RecAt(rl, file.seg, index).idx = index THEN {} ELSE {"blind_cut"}

Truncate(index) ==
    /\ pc = "idle"
    /\ index \in rl.first_index..rl.last_index
    /\ file' = [file EXCEPT !.seg = CutAt(file.seg, rl.offsets[index])]
    /\ acked' = Drop(acked, index)
    /\ \/ /\ rl' = Truncated(rl, file'.seg, index)
          /\ mishaps' = mishaps \union BlindCut(index) \union
                (IF rl'.last_index < rl.snap.idx THEN {"emptied"} ELSE {})
          /\ UNCHANGED faults
       \/ UNCHANGED rl /\ Fault({"half_truncate"} \union BlindCut(index))
    /\ UNCHANGED <<undo, pc, arg, votes, crashes>>

-----------------------------------------------------------------------------
(***************************************************************************)
(* Compaction.  The apply thread compacts up to an entry it applied; an    *)
(* installed snapshot may carry any index and term.                        *)
(***************************************************************************)

\* The entries copied to the new segment, found through the offset table.
Kept(tip) ==
    LET gone == IF tip.idx < rl.first_index THEN rl.first_index - 1 ELSE tip.idx
        need == IF rl.last_index > gone THEN rl.last_index - gone ELSE 0
    IN  [k \in 1..need |-> RecAt(rl, file.seg, gone + k)]

\* tsdb_raft_log_compact: the shortened segment replaces the old one ...
CompactRename(tip) ==
    /\ pc = "idle"
    /\ tip.idx > rl.snap.idx /\ tip.term \in 1..rl.term
    /\ \A k \in DOMAIN Kept(tip) : Kept(tip)[k].idx # 0
    /\ file' = [file EXCEPT !.seg = Kept(tip)]
    /\ undo' = <<file.seg>>
    /\ arg' = tip
    /\ pc' = "compact"
    /\ UNCHANGED <<rl, votes, acked, crashes, faults, mishaps>>

\* The bug the code's comment describes: last_index drops to 0.
CompactedToZero(r, seg, tip) ==
    LET n == Len(seg)
    IN  [r EXCEPT !.first_index = tip.idx + 1,
                  !.last_index = IF n = 0 THEN 0 ELSE tip.idx + n,
                  !.last_term = IF n = 0 THEN 0 ELSE seg[n].term,
                  !.offsets = [i \in (tip.idx + 1)..(tip.idx + n) |-> i - tip.idx],
                  !.snap = tip]

\* A plausible bug: the tip itself is counted among the entries kept.
CompactedOneTooFar(r, seg, tip) ==
    LET n == Len(seg)
    IN  [r EXCEPT !.first_index = tip.idx + 1,
                  !.last_index = tip.idx + n + 1,
                  !.last_term = IF n = 0 THEN tip.term ELSE seg[n].term,
                  !.offsets = [i \in (tip.idx + 1)..(tip.idx + n) |-> i - tip.idx],
                  !.snap = tip]

\* The struct once the new segment is open.
Compacted(r, seg, tip) ==
    LET n == Len(seg)
    IN  [r EXCEPT !.first_index = tip.idx + 1,
                  !.last_index = tip.idx + n,
                  !.last_term = IF n = 0 THEN tip.term ELSE seg[n].term,
                  !.offsets = [i \in (tip.idx + 1)..(tip.idx + n) |-> i - tip.idx],
                  !.snap = tip]

\* ... the struct follows, and the snapshot marker is written last.
CompactInstall ==
    /\ pc = "compact"
    /\ rl' = Compacted(rl, file.seg, arg)
    /\ \/ file' = [file EXCEPT !.snap = arg] /\ NoFault
       \/ UNCHANGED file /\ Fault({"marker"})
    /\ pc' = "idle"
    /\ arg' = Torn
    /\ UNCHANGED <<undo, votes, acked, crashes>>

\* ... unless the new segment cannot be opened.
CompactReopenFails ==
    /\ pc = "compact"
    /\ Fault({"stale_offsets"})
    /\ pc' = "idle"
    /\ arg' = Torn
    /\ UNCHANGED <<file, undo, rl, votes, acked, crashes>>

-----------------------------------------------------------------------------
(***************************************************************************)
(* Crash and restart.  What a crash leaves of the segment: everything      *)
(* synced, perhaps part or all of the record being appended; or the        *)
(* segment as it was before a rename the directory never recorded.         *)
(***************************************************************************)
LostRename(old) ==
    {"rename_lost"} \union
    (IF old # <<>> /\ old[Len(old)].idx < file.snap.idx THEN {"behind"} ELSE {})

SegAfterCrash ==
    {<<file.seg, {}>>}
    \union (IF pc # "append" THEN {} ELSE
            {<<Append(file.seg, arg), {}>>, <<Append(file.seg, Torn), {}>>,
             <<Append(file.seg, Stub), {"stub"}>>})
    \union (IF undo = <<>> THEN {} ELSE {<<undo[1], LostRename(undo[1])>>})

Crash ==
    /\ pc # "down"
    /\ crashes < MaxCrashes
    /\ crashes' = crashes + 1
    /\ \E s \in SegAfterCrash :
          /\ file' = [file EXCEPT !.seg = s[1]]
          /\ mishaps' = mishaps \union s[2]
                        \union (IF pc = "compact" /\ s[2] = {} THEN {"marker"} ELSE {})
    /\ undo' = <<>>
    /\ pc' = "down"
    /\ arg' = Torn
    /\ UNCHANGED <<rl, votes, acked, faults>>

Underflow(g) ==
    IF \E k \in 1..Len(g) : g[k].idx < g[1].idx THEN {"underflow"} ELSE {}

Open ==
    /\ pc = "down"
    /\ file' = [file EXCEPT !.seg = SegAfterOpen(file.seg)]
    /\ \E junk \in Junk(file.seg) : rl' = Opened(file, junk)
    /\ mishaps' = mishaps \union Underflow(Scanned(file.seg))
    /\ pc' = "idle"
    /\ UNCHANGED <<undo, arg, votes, acked, crashes, faults>>

Next ==
    \/ \E t \in 1..MaxTerm : SetTerm(t) \/ AppendWrite(t)
    \/ SetTermVote
    \/ \E n \in Node : SetVotedFor(n)
    \/ AppendSync
    \/ AppendFails
    \/ \E i \in 1..MaxIndex : Truncate(i)
    \/ \E tip \in Entry : CompactRename(tip)
    \/ CompactInstall
    \/ CompactReopenFails
    \/ Crash
    \/ Open

Spec == Init /\ [][Next]_vars

-----------------------------------------------------------------------------
TypeOK ==
    /\ file.meta \in 0..MaxTerm /\ file.vote \in Node \union {0}
    /\ file.snap \in Entry \union {Torn}
    /\ file.seg \in Seq(Entry \union {Torn, Stub})
    /\ rl.term \in 0..MaxTerm /\ rl.vote \in Node \union {0}
    /\ rl.snap \in Entry \union {Torn}
    /\ rl.first_index \in 1..(MaxIndex + 1) /\ rl.last_index \in 0..MaxIndex
    /\ rl.last_term \in 0..MaxTerm
    /\ pc \in {"idle", "set_term", "append", "compact", "down"}
    /\ votes \subseteq (1..MaxTerm) \X Node
    /\ mishaps \subseteq Mishap

(***************************************************************************)
(* Raft's election safety rests on this: over any number of crashes and    *)
(* restarts the node gives its vote in a term to one node only, as long as *)
(* no write of meta.bin or vote.bin failed unnoticed (raft.c casts the     *)
(* results of set_term and set_voted_for to void).                         *)
(***************************************************************************)
OneVotePerTerm ==
    mishaps \intersect {"vote_write", "meta_write"} = {} =>
        \A v, w \in votes : v[1] = w[1] => v[2] = w[2]

LogDamage == {"kept_tail", "half_truncate", "stale_offsets", "marker",
              "rename_lost", "blind_cut", "underflow", "stub"}

(***************************************************************************)
(* An entry append acknowledged and nobody truncated is found again, under *)
(* its index and with its term, by a running node and after every crash,   *)
(* or is covered by the snapshot marker, unless the log was damaged in one *)
(* of the ways above.                                                      *)
(***************************************************************************)
AckedEntriesKept ==
    pc = "idle" /\ mishaps \intersect LogDamage = {} =>
        \A i \in DOMAIN acked :
            i <= rl.snap.idx \/ TermAt(rl, file.seg, i) = acked[i]

(***************************************************************************)
(* Between operations a crash would lose nothing the node relies on: the   *)
(* struct a reopen would build answers term, vote, last index, last term   *)
(* and the term at every index as the running one does.  A rename that a   *)
(* power loss undid does not change that as long as the old segment        *)
(* reaches the snapshot; every other mishap does.                          *)
(***************************************************************************)
ReopenSeesTheSame ==
    pc = "idle" /\ mishaps \subseteq {"rename_lost"} =>
        \A junk \in Junk(file.seg) :
        LET o == Opened(file, junk)
            f == SegAfterOpen(file.seg)
        IN  /\ o.term = rl.term /\ o.vote = rl.vote /\ o.snap = rl.snap
            /\ o.last_index = rl.last_index /\ o.last_term = rl.last_term
            /\ \A i \in 0..MaxIndex : TermAt(o, f, i) = TermAt(rl, file.seg, i)

(***************************************************************************)
(* No index covered by the snapshot is given to a new entry, so that       *)
(* commit_index and last_applied, which start from the marker, never pass  *)
(* an entry that was not applied.  The exception is the log a truncate     *)
(* emptied, which restarts at 1.                                           *)
(***************************************************************************)
SubsumedIndexNotReused ==
    pc = "append" /\ "emptied" \notin mishaps => arg.idx > rl.snap.idx
=============================================================================
