-------------------------- MODULE MCTaskController --------------------------
(***************************************************************************)
(* Instances of TaskController for TLC.                                    *)
(***************************************************************************)
EXTENDS TaskController

CONSTANTS t1, t2, t3

\* t1 is the oldest
InOrder == [t \in Tasks |-> CASE t = t1 -> 1 [] t = t2 -> 2 [] OTHER -> 3]
\* t1 and t2 are created within one second, t3 in the next
TwoSeconds == [t \in Tasks |-> IF t = t3 THEN 2 ELSE 1]
Versions == [t \in Tasks |->
              CASE t = t1 -> <<9, 8>> [] t = t2 -> <<9, 9>> [] OTHER -> <<1, 0, 0>>]

\* t1 and t2 are created within one second, and the versions get a digit more
OneSecond == [t \in Tasks |-> 1]
LongerVersions == [t \in Tasks |-> IF t = t1 THEN <<9>> ELSE <<1, 0>>]

Nothing == {}
Unreadable == {t2}

\* Two tasks with all the runs and troubles there are; a third task with two runs, and
\* with one of a crash, a failed call and a withdrawal.
ThreeTasksOrRuns ==
  \/ Cardinality(created) <= 2
  \/ run[MaxRuns] = "none" /\ crashes + faults + Cardinality(withdrawn) <= 1
=============================================================================
