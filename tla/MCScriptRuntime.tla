--------------------------- MODULE MCScriptRuntime ---------------------------
(* ScriptRuntime with one token: two page files that need it, or a socket and *)
(* a file of the storage; two calls at a time.                                *)
EXTENDS ScriptRuntime

CONSTANTS p1, p2, f1

SmallPlans == {{p1, p2}, {f1, Socket}}
=============================================================================
