------------------------------ MODULE MCWorkerJobs ------------------------------
(* The model-checking instance of WorkerJobs: one process; of the requests  *)
(* to the fleet, those that the sweep has to do with, for peers without     *)
(* site, since it looks at no site.                                         *)
EXTENDS WorkerJobs

SweptOps == {"create", "update", "disable", "delete", "sweep"}
=================================================================================
