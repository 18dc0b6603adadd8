--------------------------- MODULE MCProviderCache ---------------------------
(* ProviderCache with two callers, two tokens and one slot: one file and one *)
(* directory, both there, of which the backend may say what it likes.        *)
EXTENDS ProviderCache

MCFiles == {"index.html"}
MCDirs == {"assets"}
MCPresent == MCFiles \cup MCDirs
=============================================================================
