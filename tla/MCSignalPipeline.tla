-------------------------- MODULE MCSignalPipeline --------------------------
(* The signal pipeline on a small instance.                                *)
EXTENDS SignalPipeline

\* A signal that goes through everywhere, and one of every other kind.
MCStoredKinds == << {"good"}, {"unparseable", "unrebuildable", "malformed"} >>
=============================================================================
