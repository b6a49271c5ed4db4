----------------------------- MODULE RowHolders -----------------------------
(***************************************************************************)
(* What replication promises about where rows are: a row is first held by  *)
(* the node that ingested it, copies appear on other nodes, and a node     *)
(* gives its copy up only while another node holds one.                    *)
(***************************************************************************)
CONSTANTS Node, Row
VARIABLE holders   \* the nodes that hold each row durably

Init == holders = [r \in Row |-> {}]

\* The steps, h being the holders afterwards.  A client's row arrives.
Ingest(h, r, n) == holders[r] = {} /\ h = [holders EXCEPT ![r] = {n}]

\* A receiver takes over some of the rows of another node at once.
Copy(h, from, n) ==
    /\ DOMAIN h = Row
    /\ \A r \in Row : h[r] # holders[r] =>
          from \in holders[r] /\ h[r] = holders[r] \cup {n}

GiveUp(h, n) ==
    /\ DOMAIN h = Row
    /\ \A r \in Row : h[r] # holders[r] =>
          holders[r] \ {n} # {} /\ h[r] = holders[r] \ {n}

Next ==
    \E h \in {holders'} :
        \/ \E r \in Row, n \in Node : Ingest(h, r, n)
        \/ \E from, n \in Node : Copy(h, from, n)
        \/ \E n \in Node : GiveUp(h, n)

Spec == Init /\ [][Next]_holders
=============================================================================
