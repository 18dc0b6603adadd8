-------------------------- MODULE MCResponseStream --------------------------
(* ResponseStream with three calls, made before, around or after the start. *)
EXTENDS ResponseStream

SmallPrograms == {<<"write", "flush", "write">>, <<"ready", "write", "none">>}
=============================================================================
