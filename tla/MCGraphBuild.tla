---------------------------- MODULE MCGraphBuild ----------------------------
(***************************************************************************)
(* Instances of GraphBuild for TLC: the implicit DEFAULT flow, one flow    *)
(* whose destruction selector extends its construction selector, and       *)
(* resources with and without parameters in their names.                   *)
(***************************************************************************)
EXTENDS GraphBuild

CONSTANTS MaxDependencies, MaxMissing \* bounds on the sets of dependencies

InFlow == <<"flow", "f">>
OnDelete == <<"phase", "delete">>

AllKeys == {"flow/DEFAULT", "flow/f", "pod/a", "pod/$n", "cm/c", "cm/c/s", "pod/$x", "dog/d"}
Flows == {"flow/DEFAULT", "flow/f"}
Defined == {"flow/f", "pod/$n", "pod/$x", "cm/c"}
BaseKeys == [k \in AllKeys |-> IF k = "cm/c/s" THEN "cm/c" ELSE k]
ProperKeys == AllKeys \ {"dog/d"}
ConstructionSelectors == [f \in Flows |-> IF f = "flow/f" THEN {InFlow} ELSE {}]
DestructionSelectors == [f \in Flows |-> IF f = "flow/f" THEN {InFlow, OnDelete} ELSE {}]

\* A selector for destruction that does not extend the one for construction
OnDeleteOnly == [f \in Flows |-> IF f = "flow/f" THEN {OnDelete} ELSE {}]

ReplicaNames == {"r1", "r2"}

\* The argument x: not given, given, or passed on. Where it is not given it is not replaced.
ArgValues == {"", "a", "b", "$x"}
Given == {"flow", "", "a", "b"}
Passed == [a \in ArgValues, v \in Given, r \in ReplicaNames |->
             IF a # "$x" THEN a ELSE IF v = "flow" THEN "" ELSE v]

\* pod/$n is named after the replica, pod/$x after the argument it is given: with "a" it
\* has the name of another key.
Names == [k \in AllKeys, v \in Given, r \in ReplicaNames |->
            CASE k = "pod/$n" -> "pod/" \o r
              [] k = "pod/$x" /\ v \in {"a", "b"} -> "pod/" \o v
              [] OTHER -> k]

Dependency(n, p, c, l, a) == [uid |-> n, parent |-> p, child |-> c, labels |-> l, arg |-> a]

\* 5 and 6, 7, and 10 and 12 make cycles; 8, 9 and 15 are for the destruction; 3, 13 and
\* 16 are alike but for labels and metadata; 14 refers to a flow without a definition and
\* 19 to a kind there is not; 5 passes on what 2 and 17 give, 1 and 9 give nothing.
Candidates == {
  Dependency(1, "flow/f", "pod/$n", {InFlow}, ""),
  Dependency(2, "flow/f", "cm/c", {InFlow}, "a"),
  Dependency(3, "cm/c", "pod/$n", {InFlow}, ""),
  Dependency(4, "pod/$n", "pod/$x", {InFlow}, "a"),
  Dependency(5, "cm/c", "pod/$x", {InFlow}, "$x"),
  Dependency(6, "pod/$x", "cm/c", {InFlow}, ""),
  Dependency(7, "pod/$n", "pod/$n", {InFlow}, ""),
  Dependency(8, "flow/f", "pod/$x", {InFlow, OnDelete}, "a"),
  Dependency(9, "flow/f", "cm/c", {InFlow, OnDelete}, ""),
  Dependency(10, "pod/a", "flow/f", {}, ""),
  Dependency(11, "flow/f", "pod/$n", {}, ""),
  Dependency(12, "flow/f", "pod/a", {}, ""),
  Dependency(13, "cm/c", "pod/$n", {}, ""),
  Dependency(14, "pod/$n", "flow/DEFAULT", {InFlow}, ""),
  Dependency(15, "cm/c", "pod/a", {InFlow, OnDelete}, ""),
  Dependency(16, "cm/c", "pod/$n", {InFlow}, ""),
  Dependency(17, "flow/f", "cm/c", {InFlow}, "b"),
  Dependency(18, "pod/$n", "cm/c/s", {InFlow}, ""),
  Dependency(19, "cm/c", "dog/d", {InFlow}, "")}

\* Without a cycle of keys, and with one of names: pod/$x, given "a", requires itself.
Clashing == {
  Dependency(1, "flow/f", "pod/$x", {InFlow}, "a"),
  Dependency(2, "pod/$x", "cm/c", {InFlow}, ""),
  Dependency(3, "cm/c", "pod/a", {InFlow}, "")}

OnlyClashing == {Clashing}

\* All small sets of dependencies, and a large one with up to MaxMissing left out
Large == {d \in Candidates : d.uid \notin {6, 7, 12, 14, 16, 19}}
SomeDependencies ==
  UNION {kSubset(n, Candidates) : n \in 0 .. MaxDependencies}
    \cup {Large \ missing : missing \in UNION {kSubset(n, Large) : n \in 0 .. MaxMissing}}
    \cup OnlyClashing

Build(f, c, d, a) == [flow |-> f, construct |-> c, destruct |-> d, all |-> a]

ManyRequests == {
  Build("flow/f", <<"r1", "r2">>, <<>>, <<"r1", "r2">>),
  Build("flow/f", <<>>, <<"r2">>, <<"r1", "r2">>),
  Build("flow/DEFAULT", <<"r1">>, <<>>, <<"r1">>)}

\* what the theorems about GraphBuild assume
ASSUME ImplicitFlowUnused
=============================================================================
