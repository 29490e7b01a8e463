--------------------------- MODULE MCWorkerJobs ---------------------------
(***************************************************************************)
(* Small instances of WorkerJobs: one application on one worker, and two   *)
(* applications of one server on two workers.                              *)
(***************************************************************************)
EXTENDS WorkerJobs, TLC

CONSTANTS s1, a1, a2, w1, w2

OneAppHostOf       == (a1 :> s1)
OneAppPlacementOf  == (a1 :> w1)
TwoAppsHostOf      == (a1 :> s1) @@ (a2 :> s1)
TwoAppsPlacementOf == (a1 :> w1) @@ (a2 :> w2)
===========================================================================
