---------------------------- MODULE MCTableStore ----------------------------
EXTENDS TableStore, TLC

CONSTANTS r1, r2, r3

MCRow == {r1, r2, r3}
MCPart == 1..2
MCPartOf == r1 :> 1 @@ r2 :> 2 @@ r3 :> 1

\* The liveness run: one row fills the memtable.
MCTwoRows == {r1, r2}
MCTwoPartOf == r1 :> 1 @@ r2 :> 2

\* r1 and r3 fall in the same partition and are otherwise alike.
MCSymmetry == Permutations({r1, r3})

\* At most three of the five setbacks (two crashes, a failed disk operation, an
\* ALTER, rows handed to a remote owner) in one behaviour.
MCBudget == crashes + faults + (ncols - 1) + (IF remote = {} THEN 0 ELSE 1) <= 3
=============================================================================
