----------------------------- MODULE MCServerMeta -----------------------------
(* ServerMeta with one repository of two commits: created after the first   *)
(* look at it.                                                              *)
EXTENDS ServerMeta, TLC

MCRepos == {"p"}
MCKind == [p \in MCRepos |-> 0 :> "gone" @@ 1 :> "config"]
=============================================================================
