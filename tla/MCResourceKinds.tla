--------------------------- MODULE MCResourceKinds ---------------------------
(***************************************************************************)
(* ResourceKinds with objects of three replicas; a service selects two     *)
(* pods and one job.                                                       *)
(***************************************************************************)
EXTENDS ResourceKinds

AllKinds == KindToResourceTemplate

PodsAndJobs == {{1, 2}, {3}}
=============================================================================
