--------------------------- MODULE MCRepoUpdateHub ---------------------------
(* RepoUpdateHub on a small instance. *)
EXTENDS RepoUpdateHub
=============================================================================
