---------------------------- MODULE MCEventStream ----------------------------
(* EventStream with three loads and two events, of which one can be kept.  *)
EXTENDS EventStream
=============================================================================
