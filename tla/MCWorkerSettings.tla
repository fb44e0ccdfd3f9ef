-------------------------- MODULE MCWorkerSettings --------------------------
(* One account and its worker on a small instance.                         *)
EXTENDS WorkerSettings
=============================================================================
