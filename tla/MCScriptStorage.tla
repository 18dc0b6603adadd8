--------------------------- MODULE MCScriptStorage ---------------------------
(* ScriptStorage with the directories a and d, which may be files as well, and *)
(* a file in each; empty at first, or with a file in each place.               *)
EXTENDS ScriptStorage

CONSTANTS i1, i2, i3, i4, i5, c1, c2, bx, by

MCPaths == {<<"a">>, <<"a", "b">>, <<"d">>, <<"d", "b">>, <<"d", "e">>}
MCTree(a, ab, d, db) ==
    [p \in MCPaths |-> CASE p = <<"a">> -> a [] p = <<"a", "b">> -> ab
                         [] p = <<"d">> -> d [] p = <<"d", "b">> -> db [] p = <<"d", "e">> -> NoEntry]
MCData == [i \in Inodes |-> CASE i = i1 -> <<bx, bx>> [] OTHER -> <<>>]
MCTrees == {[tree |-> MCTree(i1, NoEntry, Dir, i2), data |-> MCData],
            [tree |-> MCTree(NoEntry, NoEntry, NoEntry, NoEntry), data |-> MCData]}

A == <<"a">>
D == <<"", "d", "">>
DB == <<"", "d", "b">>
DE == <<"", "d", "e">>
Root == <<"">>

Plain(kind, path) == [kind |-> kind, path |-> path, dest |-> path, recursive |-> FALSE, force |-> FALSE]
Recursive(kind, path) == [Plain(kind, path) EXCEPT !.recursive = TRUE]
ToPath(kind, path, dest) == [Plain(kind, path) EXCEPT !.dest = dest]
Write(path, mkdir, create, truncate) ==
    Plain("write", path) @@ [mkdir |-> mkdir, create |-> create, truncate |-> truncate, body |-> <<by>>]

MCCalls ==
    {Plain("stat", <<".">>), Plain("read", A), Plain("read", D), Plain("unlink", A),
     Plain("unlink", <<"d", "..", "a">>), Plain("unlink", D),
     Plain("mkdir", A), Recursive("mkdir", DB), Plain("mkdir", Root),
     Plain("rm", D), Recursive("rm", D), [Plain("rm", DB) EXCEPT !.force = TRUE],
     ToPath("rename", D, A), ToPath("rename", A, DB), ToPath("copy", A, DB), ToPath("copy", DB, A),
     Plain("readdir", D), Recursive("readdir", Root), Recursive("readdir", D),
     Write(A, FALSE, TRUE, TRUE), Write(A, FALSE, TRUE, FALSE),
     Write(DE, FALSE, TRUE, TRUE), Write(DB, TRUE, TRUE, TRUE), Write(DB, TRUE, FALSE, TRUE)}
=============================================================================
