---------------------------- MODULE MCWorkerPool ----------------------------
(* WorkerPool for TLC: the inputs of its runs.                             *)
EXTENDS WorkerPool

CONSTANTS j1, j2, j3
TwoJobs == <<j1, j2>>
ThreeJobs == <<j1, j2, j3>>
=============================================================================
