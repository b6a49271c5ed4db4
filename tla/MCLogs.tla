------------------------------- MODULE MCLogs -------------------------------
(***************************************************************************)
(* Two append-only logs a node rebuilds its state from, in one instance:   *)
(* the Raft log and the log of the consumer groups.  They share nothing; a *)
(* behaviour exercises one of them and leaves the other at rest.  Within   *)
(* the Raft log it exercises term and vote, or the segment once the term   *)
(* is raised: the files are separate, and what is lost is a failed write   *)
(* of one kind among operations of the other.                              *)
(***************************************************************************)
EXTENDS RaftLog

CONSTANTS
    Group, Consumer, NPartitions, MaxMembers, MaxGroups, MaxOffset, MaxOps,
    MaxFlushFails, MaxRestarts,
    g1, c1, c2, c3

VARIABLES log, groups, lines, buffer, open, mishap, ops, flushFails, restarts

tmqvars == <<groups, lines, buffer, open, mishap, ops, flushFails, restarts>>
allvars == <<log, vars, tmqvars>>

Line(op, c) ==
    [op |-> op, group |-> g1, consumer |-> c, partition |-> 0, seq |-> 0, end |-> TRUE]

\* No groups yet, or one with three members.
MCLogsOfGroups ==
    {<<>>, <<Line("+group", {}), Line("+member", {c1}), Line("+member", {c2}),
             Line("+member", {c3})>>}

T == INSTANCE ConsumerGroups
     WITH Logs <- MCLogsOfGroups, file <- lines, crashes <- restarts,
          MaxCrashes <- MaxRestarts

MCInit ==
    /\ Init
    /\ T!GroupsInit
    /\ log \in {"votes", "segment", "tmq"}
    /\ log # "tmq" => lines = <<>>

\* Term and vote alone, and the segment in the last term with no vote cast;
\* an entry may still carry any term.  A fault takes the place of a crash.
VotesOnly == pc' \notin {"append", "compact"}
SegmentOnly ==
    /\ votes' = votes
    /\ rl.term < MaxTerm => rl'.term = MaxTerm
    /\ crashes' + faults' <= MaxCrashes
    /\ mishaps' \intersect {"vote_write", "meta_write"} = {}

MCNext ==
    \/ log = "votes" /\ Next /\ VotesOnly /\ UNCHANGED <<log, tmqvars>>
    \/ log = "segment" /\ Next /\ SegmentOnly /\ UNCHANGED <<log, tmqvars>>
    \/ log = "tmq" /\ T!GroupsNext /\ UNCHANGED <<log, vars>>

MCSpec == MCInit /\ [][MCNext]_allvars

\* The properties of ConsumerGroups.
GroupsTypeOK == T!GroupsTypeOK
LogIsTheTable == T!LogIsTheTable
PartitionsShared == T!PartitionsShared
OffsetsGrow == T!OffsetsGrow
=============================================================================
