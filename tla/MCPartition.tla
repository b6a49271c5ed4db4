---------------------------- MODULE MCPartition ----------------------------
EXTENDS Partition

\* Behaviours are followed until a schedule the code does not survive, and in
\* the run that ends in a counterexample past the first of them.
Followed == spoiled = {}
FollowedUnrecovered == spoiled \subseteq {"unrecovered"}
=============================================================================
