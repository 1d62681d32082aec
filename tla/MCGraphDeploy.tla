--------------------------- MODULE MCGraphDeploy ---------------------------
(***************************************************************************)
(* Instances of GraphDeploy for TLC: the graphs and the parameters its     *)
(* configurations choose from.                                             *)
(***************************************************************************)
EXTENDS GraphRefinement

CONSTANTS n1, n2, n3, n4

\* two tickers race for n4
Diamond == {<<n1, n2>>, <<n1, n3>>, <<n2, n4>>, <<n3, n4>>}
\* two parents, two tickers that race for n3
Join == {<<n1, n3>>, <<n2, n3>>}
\* two dependents of one parent
Fork == {<<n1, n2>>, <<n1, n3>>}
Pair == {<<n1, n2>>}

AllFull == [e \in Edges |-> Full]
AskFull == [r \in Nodes |-> Full]

NoPolicy == [r \in Nodes |-> ""]
IgnoreAllSecond == [r \in Nodes |-> IF r = n2 THEN "ignore-all" ELSE ""]
\* n1 fails for its whole subtree, the others for themselves
IgnoreMixed == [r \in Nodes |-> IF r = n1 THEN "ignore-all" ELSE "ignore"]

Once == [r \in Nodes |-> 1]
TwiceEach == [r \in Nodes |-> 2]
TwiceFirst == [r \in Nodes |-> IF r = n1 THEN 2 ELSE 1]

Empty == {}
First == {n1}
Second == {n2}
FirstTwo == {n1, n2}
LastTwo == {n2, n3}
OuterEdge == {<<n1, n3>>}
=============================================================================
