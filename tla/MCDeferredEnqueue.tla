------------------------- MODULE MCDeferredEnqueue -------------------------
(* The way into the stream on small instances.  Alerts are not a symmetry  *)
(* set: the passing run also checks liveness.                              *)
EXTENDS DeferredEnqueue
=============================================================================
