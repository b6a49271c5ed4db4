--------------------------- MODULE ConsumerGroups ---------------------------
(***************************************************************************)
(* Consumer groups of the message queue (src/catalog/tmq.c): groups with   *)
(* members, the partitions each member owns and the committed offsets, all *)
(* under one lock.  Every change is a line of consumer_groups.log, written *)
(* through stdio and flushed but never synced; opening replays the log.    *)
(*                                                                         *)
(* A line is a record with end, whether its newline is there: the next     *)
(* record is written onto a torn line and swallowed by it.  A torn line    *)
(* replays as nothing, or as an offset whose digits are cut off.  Topics,  *)
(* times, the order of the groups and the names a torn membership line may *)
(* make up when the next record completes it are left out.                 *)
(***************************************************************************)
EXTENDS Integers, SequencesExt

CONSTANTS
    Group, Consumer,
    Logs,          \* logs of earlier operations to start from
    NPartitions,   \* TSDB_TMQ_NPARTITIONS
    MaxMembers,    \* TSDB_TMQ_MAX_MEMBERS
    MaxGroups,     \* TSDB_TMQ_MAX_GROUPS
    MaxOffset,     \* bound: offsets committed
    MaxOps,        \* bound: operations logged
    MaxFlushFails, MaxCrashes  \* bounds: faults

VARIABLES
    groups,    \* the table in memory; a group that is absent is NoGroup
    file,      \* consumer_groups.log
    buffer,    \* what a failed fflush left in the stdio buffer
    open,      \* whether the store is open
    mishap,    \* history: what happened since the last open, "none", "flush" (a
               \* flush failed) or "damage" (lines were lost or torn)
    ops, flushFails, crashes

tvars == <<groups, file, buffer, open, mishap, ops, flushFails, crashes>>

Partition == 0..(NPartitions - 1)
NoGroup == [exists |-> FALSE, members |-> <<>>,
            owner |-> [p \in Partition |-> 0], offsets |-> [p \in Partition |-> 0]]

GroupsTypeOK ==
    /\ groups \in [Group -> [exists : BOOLEAN, members : Seq(Consumer),
                             owner : [Partition -> 0..MaxMembers],
                             offsets : [Partition -> 0..MaxOffset]]]
    /\ \A g \in Group : Len(groups[g].members) <= MaxMembers
    /\ open \in BOOLEAN /\ mishap \in {"none", "flush", "damage"}
    /\ ops \in 0..MaxOps /\ flushFails \in 0..MaxFlushFails /\ crashes \in 0..MaxCrashes

-----------------------------------------------------------------------------
(* What a record does to the table: the apply_ functions.                  *)

Line(op, g, c, p, s) ==
    [op |-> op, group |-> g, consumer |-> c, partition |-> p, seq |-> s, end |-> TRUE]

\* A partition goes to the member behind the right one.
RebalancedToNext(gr) ==
    LET n == Len(gr.members)
    IN [gr EXCEPT !.owner = [p \in Partition |-> IF n > 0 THEN (p % n) + 2 ELSE 0]]
\* rebalance: partition p goes to member p % nmembers, numbered from 1 here;
\* 0 is no owner.
Rebalanced(gr) ==
    LET n == Len(gr.members)
    IN [gr EXCEPT !.owner = [p \in Partition |-> IF n > 0 THEN (p % n) + 1 ELSE 0]]

\* The last member takes the place of the one that leaves.
Without(ms, c) ==
    LET n == Len(ms)
    IN SubSeq([i \in 1..n |-> IF ms[i] = c THEN ms[n] ELSE ms[i]], 1, n - 1)

Existing(t) == {g \in Group : t[g].exists}
Members(gr) == Range(gr.members)

GroupCreated(t, g) ==
    IF t[g].exists \/ Cardinality(Existing(t)) >= MaxGroups THEN t
    ELSE [t EXCEPT ![g] = Rebalanced([NoGroup EXCEPT !.exists = TRUE])]

GroupDropped(t, g) == [t EXCEPT ![g] = NoGroup]

MemberAdded(t, g, c) ==
    IF ~t[g].exists \/ c \in Members(t[g]) \/ Len(t[g].members) >= MaxMembers THEN t
    ELSE [t EXCEPT ![g] = Rebalanced([@ EXCEPT !.members = Append(@, c)])]

\* The partitions are not shared out again.
MemberDroppedOnly(t, g, c) ==
    IF ~t[g].exists \/ c \notin Members(t[g]) THEN t
    ELSE [t EXCEPT ![g].members = Without(@, c)]
MemberDropped(t, g, c) ==
    IF ~t[g].exists \/ c \notin Members(t[g]) THEN t
    ELSE [t EXCEPT ![g] = Rebalanced([@ EXCEPT !.members = Without(@, c)])]

OffsetSet(t, g, p, s) ==
    IF t[g].exists THEN [t EXCEPT ![g].offsets[p] = s] ELSE t

\* One line of replay_log.
Applied(t, r) ==
    CASE r.op = "+group" -> GroupCreated(t, r.group)
      [] r.op = "-group" -> GroupDropped(t, r.group)
      [] r.op = "+member" -> MemberAdded(t, r.group, CHOOSE c \in r.consumer : TRUE)
      [] r.op = "-member" -> MemberDropped(t, r.group, CHOOSE c \in r.consumer : TRUE)
      [] r.op = "~offset" -> OffsetSet(t, r.group, r.partition, r.seq)
      [] OTHER -> t

AppliedAll(t, lines) == FoldLeft(Applied, t, lines)

\* The log is read back without its member drops.
ReplayedWithoutDrops(f) ==
    AppliedAll([g \in Group |-> NoGroup], SelectSeq(f, LAMBDA r : r.op # "-member"))
\* replay_log.
Replayed(f) == AppliedAll([g \in Group |-> NoGroup], f)

GroupsInit ==
    /\ file \in Logs /\ buffer = <<>>
    /\ groups = Replayed(file)
    /\ open = TRUE /\ mishap = "none"
    /\ ops = 0 /\ flushFails = 0 /\ crashes = 0

-----------------------------------------------------------------------------
(* The log: fprintf and fflush.                                            *)

\* Lines written to the file; a torn last line swallows the first of them.
Written(f, lines) ==
    IF lines = <<>> THEN f
    ELSE IF f # <<>> /\ ~Last(f).end
         THEN Front(f) \o <<[Last(f) EXCEPT !.end = TRUE]>> \o Tail(lines)
    ELSE f \o lines

\* lines are logged and applied one by one; a flush that fails leaves its
\* line in the buffer, ends the operation, and is written by the next flush
\* that succeeds.
LogAndApply(lines) ==
    /\ open /\ ops < MaxOps
    /\ ops' = ops + 1
    /\ \E k \in 0..Len(lines) :
         LET done == SubSeq(lines, 1, k)
             failed == k < Len(lines)
         IN /\ failed => flushFails < MaxFlushFails
            /\ flushFails' = IF failed THEN flushFails + 1 ELSE flushFails
            /\ mishap' = IF failed /\ mishap = "none" THEN "flush" ELSE mishap
            /\ groups' = AppliedAll(groups, done)
            /\ file' = IF k = 0 THEN file ELSE Written(file, buffer \o done)
            /\ buffer' = (IF k = 0 THEN buffer ELSE <<>>)
                            \o (IF failed THEN <<lines[k + 1]>> ELSE <<>>)
    /\ UNCHANGED <<open, crashes>>

-----------------------------------------------------------------------------
(* The operations.                                                         *)

GroupCreate(g) ==
    /\ ~groups[g].exists /\ Cardinality(Existing(groups)) < MaxGroups
    /\ LogAndApply(<<Line("+group", g, {}, 0, 0)>>)

GroupDrop(g) ==
    /\ groups[g].exists
    /\ LogAndApply(<<Line("-group", g, {}, 0, 0)>>)

Join(g, c) ==
    /\ groups[g].exists /\ c \notin Members(groups[g])
    /\ Len(groups[g].members) < MaxMembers
    /\ LogAndApply(<<Line("+member", g, {c}, 0, 0)>>)

Leave(g, c) ==
    /\ groups[g].exists /\ c \in Members(groups[g])
    /\ LogAndApply(<<Line("-member", g, {c}, 0, 0)>>)

\* The partitions a commit is for: those of a member, or all.
TargetsOf(gr, C) ==
    {p \in Partition : C = {} \/ (gr.owner[p] # 0 /\ gr.members[gr.owner[p]] \in C)}

\* No check of the offsets that are there.
MayCommitAny(gr, T, s) == TRUE
\* Offsets only grow: every affected partition is checked before any changes.
MayCommit(gr, T, s) == \A p \in T : gr.offsets[p] <= s

\* tsdb_tmq_commit by a member, or group-wide (C = {}): one line per
\* partition, in order.
Commit(g, C, s) ==
    LET T == TargetsOf(groups[g], C)
    IN /\ groups[g].exists /\ C \subseteq Members(groups[g]) /\ T # {}
       /\ MayCommit(groups[g], T, s)
       /\ LogAndApply([i \in 1..Cardinality(T) |->
                         Line("~offset", g, {}, SetToSortSeq(T, <)[i], s)])

-----------------------------------------------------------------------------
(* Closing, crashing and opening.                                          *)

Unchanging == UNCHANGED <<groups, ops, flushFails>>

\* tsdb_tmq_close: fclose flushes the buffer.
Close ==
    /\ open
    /\ open' = FALSE
    /\ file' = Written(file, buffer) /\ buffer' = <<>>
    /\ Unchanging /\ UNCHANGED <<mishap, crashes>>

\* What is left of a line that was being written.
Torn(r) ==
    {[r EXCEPT !.op = "torn", !.end = FALSE]}
        \cup IF r.op # "~offset" THEN {}
             ELSE {[r EXCEPT !.seq = s, !.end = FALSE] : s \in 0..r.seq}

\* The process dies: the buffer is lost but for a part of its first line that
\* a failed flush may have written.
Crash ==
    /\ open /\ crashes < MaxCrashes
    /\ crashes' = crashes + 1
    /\ open' = FALSE /\ buffer' = <<>>
    /\ \/ UNCHANGED <<file, mishap>>
       \/ /\ buffer # <<>>
          /\ \E r \in Torn(buffer[1]) : file' = Written(file, <<r>>)
          /\ mishap' = "damage"
    /\ Unchanging

\* The machine dies: nothing was synced, any end of the log may be lost.
PowerLoss ==
    /\ open /\ crashes < MaxCrashes
    /\ crashes' = crashes + 1
    /\ open' = FALSE /\ buffer' = <<>>
    /\ \E k \in 0..(Len(file) - 1) :
          LET kept == SubSeq(file, 1, k)
          IN \/ file' = kept
             \/ \E r \in Torn(file[k + 1]) : file' = Append(kept, r)
    /\ mishap' = "damage"
    /\ Unchanging

\* tsdb_tmq_open.  Memory and log agree again, unless the last line is torn.
Reopen ==
    /\ ~open
    /\ open' = TRUE
    /\ groups' = Replayed(file)
    /\ mishap' = IF file # <<>> /\ ~Last(file).end THEN "damage" ELSE "none"
    /\ UNCHANGED <<file, buffer, ops, flushFails, crashes>>

GroupsNext ==
    \/ \E g \in Group :
         \/ GroupCreate(g)
         \/ GroupDrop(g)
         \/ \E c \in Consumer : Join(g, c) \/ Leave(g, c)
         \/ \E C \in {{}} \cup {{c} : c \in Consumer}, s \in 1..MaxOffset : Commit(g, C, s)
    \/ Close
    \/ Crash
    \/ PowerLoss
    \/ Reopen

GroupsSpec == GroupsInit /\ [][GroupsNext]_tvars

-----------------------------------------------------------------------------
(* Properties.                                                             *)

\* At every moment the log replays to the table in memory: members in the
\* same order, the same owners and offsets, whatever joins, leaves, drops and
\* commits came before; unless a flush failed, the machine died or a line is
\* torn since the last open.
LogIsTheTable == mishap = "none" => Replayed(file) = groups

\* A partition of a group with members has one of them as its owner, none has
\* two partitions more than another, and a group without members owns none.
PartitionsShared ==
    \A g \in Group :
        LET gr == groups[g]
            share(i) == Cardinality({p \in Partition : gr.owner[p] = i})
        IN /\ \A p \in Partition : gr.owner[p] \in (IF gr.members = <<>> THEN {0}
                                                    ELSE 1..Len(gr.members))
           /\ \A i, j \in 1..Len(gr.members) : share(i) <= share(j) + 1

\* A committed offset never goes back while its group lives, across handovers,
\* commits that fail half-way, crashes of the process and reopens (tmq.h:
\* "Offsets are monotone int64"); only a line that is lost or torn takes it
\* back.
OffsetsGrow ==
    [][\A g \in Group, p \in Partition :
          (mishap # "damage" /\ groups[g].exists /\ groups'[g].exists)
              => groups[g].offsets[p] <= groups'[g].offsets[p]]_tvars
=============================================================================
