--------------------------- MODULE Parametrization ---------------------------
(***************************************************************************)
(* pkg/copier: where in a resource "$p" becomes the value of parameter p,  *)
(* given the fields that each kind lists for it.                           *)
(*                                                                         *)
(* A string in an object is named by the steps that lead to it: the names  *)
(* of fields, "Keys" or "Values" for a map, and "[]" for an element of a   *)
(* slice or what a pointer points to.                                      *)
(***************************************************************************)
EXTENDS Sequences, SequencesExt

Controllers == {"replicaset", "deployment", "daemonset", "job", "petset", "statefulset"}

(***************************************************************************)
(* The types of Kubernetes (external), some of their strings               *)
(***************************************************************************)
ObjectMeta(at) ==
  {at \o <<"ObjectMeta">> \o s : s \in {<<"Name">>, <<"Labels", "Keys">>, <<"Labels", "Values">>}}

PodSpec(at) ==
  {at \o <<containers, "[]">> \o s :
     containers \in {"Containers", "InitContainers"},
     s \in {<<"Name">>, <<"Env", "[]", "Name">>, <<"Env", "[]", "Value">>, <<"Command", "[]">>}}

TemplateOf(kind) == IF kind = "pod" THEN <<>> ELSE <<"Spec", "Template">>

Strings(kind) ==
  ObjectMeta(<<>>) \cup
  CASE kind = "pod" -> PodSpec(<<"Spec">>)
    [] kind \in Controllers ->
         ObjectMeta(TemplateOf(kind)) \cup PodSpec(TemplateOf(kind) \o <<"Spec">>)
           \cup {<<"Spec", "Selector", "[]", "MatchLabels", "Values">>}
    [] kind = "service" -> {<<"Spec", "Selector", "Values">>, <<"Spec", "ExternalName">>}
    [] kind = "configmap" -> {<<"Data", "Keys">>, <<"Data", "Values">>}
    [] kind = "secret" -> {<<"Data", "Keys">>, <<"StringData", "Keys">>, <<"StringData", "Values">>}
    [] kind = "serviceaccount" ->
         {<<"Secrets", "[]", "Name">>, <<"ImagePullSecrets", "[]", "Name">>}
    [] kind = "persistentvolumeclaim" -> {<<"Spec", "AccessModes", "[]">>, <<"Spec", "VolumeName">>}

(***************************************************************************)
(* The fields of each kind                                                 *)
(***************************************************************************)
ContainerFields(at) ==
  {at \o <<containers, field>> :
     containers \in {"Containers", "InitContainers"}, field \in {"Name", "Env"}}

TemplateFields ==
  ContainerFields(<<"Spec", "Template", "Spec">>) \cup {<<"Spec", "Template", "ObjectMeta">>}

podParamFields == ContainerFields(<<"Spec">>)
replicaSetParamFields == TemplateFields
deploymentParamFields == TemplateFields
daemonSetParamFields == TemplateFields
jobParamFields == TemplateFields
petSetParamFields == TemplateFields
statefulSetParamFields == TemplateFields
serviceParamFields == {<<"Spec", "Selector">>}
configMapParamFields == {<<"Data", "Keys">>}
secretParamFields == {<<"Data", "Keys">>, <<"StringData", "Keys">>}
serviceAccountParamFields == {<<"Secrets">>, <<"ImagePullSecrets">>}
persistentVolumeClaimParamFields == {<<"Spec">>}

ParamFields(kind) ==
  CASE kind = "pod" -> podParamFields
    [] kind = "replicaset" -> replicaSetParamFields
    [] kind = "deployment" -> deploymentParamFields
    [] kind = "daemonset" -> daemonSetParamFields
    [] kind = "job" -> jobParamFields
    [] kind = "petset" -> petSetParamFields
    [] kind = "statefulset" -> statefulSetParamFields
    [] kind = "service" -> serviceParamFields
    [] kind = "configmap" -> configMapParamFields
    [] kind = "secret" -> secretParamFields
    [] kind = "serviceaccount" -> serviceAccountParamFields
    [] kind = "persistentvolumeclaim" -> persistentVolumeClaimParamFields

\* parametrizeResource: the metadata of the object itself is always in.
ReplaceIn(kind) == ParamFields(kind) \cup {<<"ObjectMeta">>}

(***************************************************************************)
(* CopyWithReplacements                                                    *)
(***************************************************************************)

\* Mutation: an element of a slice has a path of its own.
CountElements(at, step, replaceIn) ==
  LET path == Append(at.path, step)
  IN [path |-> path, all |-> at.all \/ path \in replaceIn]

\* copyRecursive: elements have the path of their slice, and below a field that
\* is listed everything is replaced ("*").
Descend(at, step, replaceIn) ==
  LET path == IF step = "[]" THEN at.path ELSE Append(at.path, step)
  IN [path |-> path, all |-> at.all \/ path \in replaceIn]

Replaced(kind) ==
  LET replaceIn == ReplaceIn(kind)
      Step(at, step) == Descend(at, step, replaceIn)
  IN {s \in Strings(kind) : FoldLeft(Step, [path |-> <<>>, all |-> <<>> \in replaceIn], s).all}

AllKinds ==
  Controllers \cup {"pod", "service", "configmap", "secret", "serviceaccount", "persistentvolumeclaim"}

\* All the strings in which a reference is replaced
Replacements == [kind \in AllKinds |-> Replaced(kind)]
=============================================================================
