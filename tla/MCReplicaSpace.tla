--------------------------- MODULE MCReplicaSpace ---------------------------
(***************************************************************************)
(* Instances of ReplicaSpace for TLC.                                      *)
(***************************************************************************)
EXTENDS ReplicaSpace

FourIds == 1 .. 4

\* `kubeac run -n +n`, `-n -n` and `-n n`
Relative(n) == [count |-> n, fixed |-> FALSE, min |-> 0, max |-> 0]
Absolute(n) == [count |-> n, fixed |-> TRUE, min |-> 0, max |-> 0]
\* `kubeac run` without -n: what there is, and at least one
Default == [count |-> 0, fixed |-> FALSE, min |-> 1, max |-> 0]
\* a task written by hand, with limits
Limited(n) == [count |-> n, fixed |-> FALSE, min |-> 1, max |-> 2]

UpAndDown == {Default, Relative(1), Relative(-1), Absolute(2), Limited(-2), Limited(2)}
=============================================================================
