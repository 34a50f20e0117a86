-------------------------- MODULE MCGenerationJobs --------------------------
(***************************************************************************)
(* A small instance: two jobs of the same request, two API handlers, two   *)
(* workers and one redelivery.                                             *)
(***************************************************************************)
EXTENDS GenerationJobs

CONSTANTS a1, a2, w1, w2

MCClient == {a1, a2}
OneClient == {a1}
MCWorker == {w1, w2}
=============================================================================
