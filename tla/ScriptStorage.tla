---------------------------- MODULE ScriptStorage ----------------------------
(***************************************************************************)
(* The storage that the scripts of a repository share (pkg/filters/goja/   *)
(* storage.go).  An asynchronous call of a script runs on a goroutine of   *)
(* its own and a synchronous one on its event loop, those of different     *)
(* requests run at the same time, and nothing serialises them: each makes  *)
(* its calls of the store one by one.                                      *)
(*                                                                         *)
(* The store is external: its calls are atomic and behave as those of a    *)
(* file system whose open files outlive their removal, except that nothing *)
(* is renamed onto another entry.  File streams are in ScriptRuntime.      *)
(* Left out: the conversion of values from and to the script, modes and    *)
(* times, and the removal of the root.                                     *)
(***************************************************************************)
EXTENDS Naturals, FiniteSets, SequencesExt

CONSTANTS Clients,  \* goroutines that make calls
          Calls,    \* the calls that a script may make, with their options
          Trees,    \* what the storage may hold at first
          Paths,    \* the paths below the root, as sequences of names
          Inodes,   \* files, enough for all that are linked or open at once
          Blocks,   \* what files are made of
          MaxCalls, \* bound on the calls made
          Dir, NoEntry, NoFile, NoCall, Invalid

Names == UNION {ToSet(p) : p \in Paths}

\* What is there is in a directory, as is every directory above it.
Rooted(t) ==
    \A p, q \in Paths : t[p] # NoEntry /\ IsStrictPrefix(q, p) => t[q] = Dir

ASSUME StorageAssumption ==
    /\ Paths \subseteq Seq(Names) \ {<<>>}
    /\ \A p \in Paths : \A n \in 1 .. Len(p) : SubSeq(p, 1, n) \in Paths
    /\ \A t \in Trees :
           /\ t.tree \in [Paths -> Inodes \cup {Dir, NoEntry}] /\ Rooted(t.tree)
           /\ \A p, q \in Paths : t.tree[p] = t.tree[q] /\ t.tree[p] \in Inodes => p = q
           /\ t.data \in [Inodes -> Seq(Blocks)]
    /\ Dir # NoEntry /\ {Dir, NoEntry, NoFile} \cap (Inodes \cup Seq(Blocks)) = {}
    /\ Invalid \notin Paths \cup {<<>>}
    /\ MaxCalls \in Nat

VARIABLES
    tree,  \* what each path is: nothing, a directory or a file
    data,  \* the contents of each file, a sequence of blocks
    made,  \* how many calls were made
    call   \* the call of each goroutine and how far it is

storageVars == <<tree, data, made, call>>

Idle ==
    [op |-> NoCall, pc |-> "over", err |-> "ok",
     in |-> NoFile, out |-> NoFile, buf |-> <<>>,         \* its open files, what it has read
     list |-> {}, todo |-> {},                            \* entries listed, directories to read
     before |-> NoEntry, disturbed |-> FALSE,             \* history: the storage at its start
     ever |-> {}, always |-> {}]                          \* history: what a listing could see

StorageInit ==
    /\ \E t \in Trees : tree = t.tree /\ data = t.data
    /\ made = 0
    /\ call = [c \in Clients |-> Idle]
-----------------------------------------------------------------------------
(* The calls of the store: external.  A tree maps paths to entries, which are *)
(* NoEntry, Dir and what stands for a file.                                   *)

Entry(t, p) == IF p = <<>> THEN Dir ELSE t[p]
IsFile(x) == x \notin {NoEntry, Dir}
Above(p) == {q \in Paths : IsStrictPrefix(q, p)}
Below(p) == {q \in Paths : IsPrefix(p, q)}

Stat(t, p) ==
    IF Entry(t, p) # NoEntry THEN "ok"
    ELSE IF \E q \in Above(p) : IsFile(t[q]) THEN "notDir" ELSE "notExist"

Children(t, p) == {q \in Paths : Front(q) = p /\ t[q] # NoEntry}
ReadDir(t, p) == IF IsFile(Entry(t, p)) THEN "notDir" ELSE Stat(t, p)

\* Whether an entry can be made at p.
Room(t, p) == IF Entry(t, Front(p)) = Dir THEN "ok" ELSE ReadDir(t, Front(p))

Result(err, t) == [err |-> err, tree |-> IF err = "ok" THEN t.new ELSE t.old]
Put(t, S, x) == [old |-> t, new |-> [q \in Paths |-> IF q \in S THEN x ELSE t[q]]]

MkdirAll(t, p) ==
    LET S == {q \in Paths : IsPrefix(q, p)}
    IN Result(IF \E q \in S : IsFile(t[q]) THEN "notDir" ELSE "ok", Put(t, S, Dir))
Mkdir(t, p) == Result(IF Entry(t, p) # NoEntry THEN "exist" ELSE Room(t, p), Put(t, {p}, Dir))
RemoveEntry(t, p) ==
    Result(IF Children(t, p) # {} THEN "notEmpty" ELSE Stat(t, p), Put(t, {p}, NoEntry))
RemoveAll(t, p) == Result("ok", Put(t, Below(p), NoEntry))
Rename(t, p, q) ==
    LET From(x) == p \o SubSeq(x, Len(q) + 1, Len(x))
    IN Result(IF Stat(t, p) # "ok" THEN Stat(t, p)
              ELSE IF IsStrictPrefix(p, q) THEN "invalid"
              ELSE IF p # q /\ t[q] # NoEntry THEN "exist" ELSE Room(t, q),
              [old |-> t,
               new |-> [x \in Paths |->
                   IF x \in Below(q) THEN (IF From(x) \in Paths THEN t[From(x)] ELSE NoEntry)
                   ELSE IF x \in Below(p) THEN NoEntry ELSE t[x]]])

\* OpenFile with O_WRONLY; x is the file that it makes.
OpenFile(t, p, create, x) ==
    IF t[p] = Dir THEN Result("isDir", Put(t, {}, x))
    ELSE IF IsFile(t[p]) THEN Result("ok", Put(t, {}, x))
    ELSE Result(IF ~create THEN Stat(t, p) ELSE Room(t, p), Put(t, {p}, x))

\* A file of which the first blocks are written.
Overwrite(old, body) == body \o SubSeq(old, Len(body) + 1, Len(old))
-----------------------------------------------------------------------------
(* storagePath, of the names between the slashes *)

Trim(raw) ==
    LET front == IF Head(raw) = "" /\ Len(raw) > 1 THEN Tail(raw) ELSE raw
    IN IF Last(front) = "" /\ Len(front) > 1 THEN Front(front) ELSE front

storagePath(raw, allowRoot) ==
    IF raw \in {<<"">>, <<".">>} \/ Trim(raw) = <<"">> THEN IF allowRoot THEN <<>> ELSE Invalid
    ELSE IF ToSet(Trim(raw)) \cap {"", ".", ".."} # {} THEN Invalid ELSE Trim(raw)

AllowsRoot(kind) == kind \in {"stat", "readdir", "mkdir", "rm"}

Kinds == {"stat", "read", "readdir", "mkdir", "rm", "unlink", "rename", "copy", "write"}

\* The paths are all those that calls name.
ASSUME CallAssumption ==
    \A k \in Calls :
        /\ {"kind", "path", "dest"} \subseteq DOMAIN k /\ k.kind \in Kinds
        /\ storagePath(k.path, AllowsRoot(k.kind)) \in
               Paths \cup {Invalid} \cup (IF AllowsRoot(k.kind) THEN {<<>>} ELSE {})
        /\ k.kind \in {"copy", "rename"} => storagePath(k.dest, FALSE) \in Paths \cup {Invalid}
        /\ k.kind = "write" => "body" \in DOMAIN k /\ k.body \in Seq(Blocks)
-----------------------------------------------------------------------------
(* A call *)

View == [p \in Paths |-> IF tree[p] \in Inodes THEN data[tree[p]] ELSE tree[p]]

Entries(t) == {<<p, t[p] = Dir>> : p \in {q \in Paths : t[q] # NoEntry}}

Active(c) == call[c].pc # "over"

\* A listing under way may see what is in the tree t.
Sees(k, t) == [k EXCEPT !.ever = @ \cup Entries(t), !.always = @ \cap Entries(t)]

\* The step that makes k of c's call and leaves the tree t.
Goes(c, k, t) ==
    /\ tree' = t
    /\ call' = [x \in Clients |-> IF x = c THEN Sees(k, t)
                                  ELSE IF Active(x) THEN Sees(call[x], t) ELSE call[x]]

GoesTo(c, pc, t) == Goes(c, [call[c] EXCEPT !.pc = pc], t)
Ends(c, err, t) == Goes(c, [call[c] EXCEPT !.pc = "over", !.err = err], t)

Changes(op) == op.kind \notin {"stat", "read", "readdir"}

MakesParents(op) == \/ op.kind = "write" /\ op.mkdir
                    \/ op.kind = "mkdir" /\ op.recursive

\* The paths that an operation is about, and those of which it may change the entry.
About(op) == UNION {Below(p) \cup Above(p) : p \in {op.path, op.dest}}
Touched(op) ==
    IF ~Changes(op) THEN {}
    ELSE Below(op.dest) \cup (IF op.kind = "copy" THEN {} ELSE Below(op.path))
                       \cup (IF MakesParents(op) THEN Above(op.path) ELSE {})

\* One operation changes what the other one is about.  One that was disturbed may
\* change anything: its open file may have another name by now.
Disturbs(op, disturbed, other) ==
    Changes(op) /\ (disturbed \/ Touched(op) \cap About(other) # {})

FirstStep(op) ==
    CASE op.kind = "write" -> IF op.mkdir /\ Len(op.path) > 1 THEN "mkdir" ELSE "create"
      [] op.kind \in {"read", "copy"} -> "open"
      [] op.kind = "unlink" -> "stat"
      [] op.kind = "readdir" /\ op.recursive -> "stat"
      [] OTHER -> "call"

\* The arguments are checked before anything runs.
Begin(c) ==
    /\ ~Active(c) /\ made < MaxCalls
    /\ made' = made + 1
    /\ \E k \in Calls :
           LET op == [k EXCEPT !.path = storagePath(@, AllowsRoot(k.kind)),
                               !.dest = storagePath(@, k.kind # "copy" /\ k.kind # "rename")]
               valid == Invalid \notin {op.path, op.dest}
               others == {x \in Clients \ {c} : valid /\ Active(x)}
               disturbed == \E x \in others : Disturbs(call[x].op, call[x].disturbed, op)
               disturbs(x) == x \in others /\ Disturbs(op, disturbed, call[x].op)
           IN call' = [x \in Clients |->
                  IF x # c THEN [call[x] EXCEPT !.disturbed = @ \/ disturbs(x)]
                  ELSE IF ~valid THEN [Idle EXCEPT !.err = "invalid"]
                  ELSE IF op.kind = "mkdir" /\ op.path = <<>> THEN Idle
                  ELSE [Idle EXCEPT !.op = op, !.pc = FirstStep(op), !.before = View,
                                    !.disturbed = disturbed,
                                    !.ever = Entries(tree), !.always = Entries(tree)]]
    /\ UNCHANGED <<tree, data>>

\* What makes one call of the store and reports its result; force forgives an
\* entry that is missing.
SingleCall(c) ==
    LET op == call[c].op
        same == Put(tree, {}, NoEntry)
        res == CASE op.kind = "stat" -> Result(Stat(tree, op.path), same)
                 [] op.kind = "readdir" -> Result(ReadDir(tree, op.path), same)
                 [] op.kind = "mkdir" -> IF op.recursive THEN MkdirAll(tree, op.path)
                                         ELSE Mkdir(tree, op.path)
                 [] op.kind = "rm" -> IF op.recursive THEN RemoveAll(tree, op.path)
                                      ELSE RemoveEntry(tree, op.path)
                 [] op.kind = "rename" -> Rename(tree, op.path, op.dest)
        listed == IF op.kind = "readdir" THEN {<<q, tree[q] = Dir>> : q \in Children(tree, op.path)}
                  ELSE {}
        forgiven == op.kind = "rm" /\ op.force /\ res.err = "notExist"
    IN /\ call[c].pc = "call"
       /\ Goes(c, [call[c] EXCEPT !.pc = "over", !.list = listed,
                                  !.err = IF forgiven THEN "ok" ELSE res.err], res.tree)
       /\ UNCHANGED <<data, made>>

\* storageUnlink looks at the entry before it removes it; aferoWalk looks at the root.
StatFirst(c) ==
    LET op == call[c].op
        err == Stat(tree, op.path)
        isDir == Entry(tree, op.path) = Dir
    IN /\ call[c].pc = "stat"
       /\ IF err # "ok" THEN Ends(c, err, tree)
          ELSE IF op.kind = "unlink"
          THEN IF isDir THEN Ends(c, "invalid", tree) ELSE GoesTo(c, "remove", tree)
          ELSE IF isDir THEN Goes(c, [call[c] EXCEPT !.pc = "walk", !.todo = {op.path}], tree)
          ELSE Ends(c, "ok", tree)
       /\ UNCHANGED <<data, made>>

RemoveStep(c) ==
    LET res == RemoveEntry(tree, call[c].op.path) IN
    /\ call[c].pc = "remove"
    /\ Ends(c, res.err, res.tree)
    /\ UNCHANGED <<data, made>>

\* Mutant: a child is named without the directory that it is in.
ChildName(dir, name) == <<name>>

ChildPath(dir, name) == Append(dir, name)

\* aferoWalkInner reads the next directory, in any order: what it finds goes into the
\* result, the directories among it are still to be read, as the entry tells them.
WalkStep(c) ==
    \E dir \in call[c].todo :
        LET err == ReadDir(tree, dir)
            found == {<<ChildPath(dir, Last(q)), tree[q] = Dir>> : q \in Children(tree, dir)}
            todo == (call[c].todo \ {dir}) \cup {e[1] : e \in {x \in found : x[2]}}
        IN /\ call[c].pc = "walk"
           /\ IF err # "ok" THEN Ends(c, err, tree)
              ELSE Goes(c, [call[c] EXCEPT !.list = @ \cup found, !.todo = todo,
                                           !.pc = IF todo = {} THEN "over" ELSE "walk"], tree)
           /\ UNCHANGED <<data, made>>

\* storageWriteFile: the parent.
MkdirStep(c) ==
    LET res == MkdirAll(tree, Front(call[c].op.path)) IN
    /\ call[c].pc = "mkdir"
    /\ IF res.err # "ok" THEN Ends(c, res.err, tree) ELSE GoesTo(c, "create", res.tree)
    /\ UNCHANGED <<data, made>>

\* Opening a directory works, and then it cannot be read.
OpenStep(c) ==
    LET op == call[c].op
        err == Stat(tree, op.path)
    IN /\ call[c].pc = "open"
       /\ IF err # "ok" THEN Ends(c, err, tree)
          ELSE Goes(c, [call[c] EXCEPT !.in = tree[op.path],
                                       !.pc = IF op.kind = "copy" THEN "create" ELSE "read"], tree)
       /\ UNCHANGED <<data, made>>

InUse == {tree[p] : p \in Paths} \cup {call[c].in : c \in Clients} \cup {call[c].out : c \in Clients}

\* Mutant: O_TRUNC is left out.
NeverTruncates(op) == FALSE

Truncates(op) == op.kind = "copy" \/ op.truncate

\* OpenFile of the target, which may make or truncate it.
CreateStep(c) ==
    LET op == call[c].op
        target == IF op.kind = "copy" THEN op.dest ELSE op.path
        fresh == CHOOSE i \in Inodes : i \notin InUse
        res == OpenFile(tree, target, op.kind = "copy" \/ op.create, fresh)
        file == res.tree[target]
    IN /\ call[c].pc = "create" /\ ~(Inodes \subseteq InUse)
       /\ IF res.err # "ok" THEN Ends(c, res.err, res.tree) /\ data' = data
          ELSE /\ Goes(c, [call[c] EXCEPT !.out = file,
                              !.pc = IF op.kind = "copy" THEN "read" ELSE "write",
                              !.buf = IF op.kind = "copy" THEN <<>> ELSE op.body], res.tree)
               /\ data' = [data EXCEPT ![file] =
                              IF file = fresh \/ Truncates(op) THEN <<>> ELSE @]
       /\ UNCHANGED made

ReadStep(c) ==
    LET op == call[c].op
        file == call[c].in
    IN /\ call[c].pc = "read"
       /\ IF file = Dir THEN Ends(c, "isDir", tree)
          ELSE Goes(c, [call[c] EXCEPT !.buf = data[file], !.in = NoFile,
                                       !.pc = IF op.kind = "copy" THEN "write" ELSE "over"], tree)
       /\ UNCHANGED <<data, made>>

WriteStep(c) ==
    /\ call[c].pc = "write"
    /\ data' = [data EXCEPT ![call[c].out] = Overwrite(@, call[c].buf)]
    /\ Goes(c, [call[c] EXCEPT !.pc = "over", !.out = NoFile, !.buf = <<>>], tree)
    /\ UNCHANGED made

\* A call of the store fails, which ends the operation.
StoreFails(c) ==
    /\ Active(c)
    /\ Goes(c, [call[c] EXCEPT !.pc = "over", !.err = "io", !.in = NoFile, !.out = NoFile], tree)
    /\ UNCHANGED <<data, made>>

StorageNext ==
    \E c \in Clients :
        \/ Begin(c) \/ SingleCall(c) \/ StatFirst(c) \/ RemoveStep(c) \/ WalkStep(c)
        \/ MkdirStep(c) \/ OpenStep(c) \/ CreateStep(c) \/ ReadStep(c) \/ WriteStep(c)
        \/ StoreFails(c)

StorageSpec == StorageInit /\ [][StorageNext]_storageVars
-----------------------------------------------------------------------------
(* What the operations of several steps promise, in one step, of a view *)

Outcome(err, view) == [err |-> err, view |-> view]
AsOutcome(res) == Outcome(res.err, res.tree)

Promised(op, v) ==
    LET p == op.path IN
    CASE op.kind = "read" -> Outcome(IF Entry(v, p) = Dir THEN "isDir" ELSE Stat(v, p), v)
      [] op.kind = "unlink" ->
            IF Entry(v, p) = Dir THEN Outcome("invalid", v) ELSE AsOutcome(RemoveEntry(v, p))
      [] op.kind = "copy" ->
            IF Stat(v, p) # "ok" THEN Outcome(Stat(v, p), v)
            ELSE LET target == AsOutcome(OpenFile(v, op.dest, TRUE, <<>>))
                 IN IF target.err = "ok" THEN Outcome("ok", [target.view EXCEPT ![op.dest] = v[p]])
                    ELSE target
      [] op.kind = "write" ->
            LET dirs == IF op.mkdir THEN MkdirAll(v, Front(p)) ELSE [err |-> "ok", tree |-> v]
                file == OpenFile(dirs.tree, p, op.create, <<>>)
            IN IF dirs.err # "ok" THEN AsOutcome(dirs)
               ELSE IF file.err # "ok" THEN AsOutcome(file)
               ELSE Outcome("ok", [file.tree EXCEPT ![p] =
                        IF op.truncate THEN op.body ELSE Overwrite(@, op.body)])

\* A step that ends an operation of several leaves what it promises.
EndsAsPromised(c) ==
    LET k == call[c] IN
    /\ Active(c) /\ call'[c].pc = "over" /\ ~k.disturbed
    /\ k.op.kind \in {"read", "unlink", "copy", "write"}
    /\ call'[c].err # "io"
    /\ k.op.kind = "copy" => k.op.path # k.op.dest /\ k.before[k.op.path] # Dir
    => LET p == Promised(k.op, k.before) IN
       /\ call'[c].err = p.err
       /\ \A q \in About(k.op) : View'[q] = p.view[q]
       /\ k.op.kind = "read" /\ p.err = "ok" => call'[c].buf = p.view[k.op.path]

\* Whatever else happens in the storage, an operation that nobody disturbs, by
\* changing what it is about, does at once what it promises, or an error of the store
\* has left a part undone.  It is not so for a copy of a file onto itself, which
\* empties it, and of a directory, which empties the target and fails
\* (storage.go:724-737).
UndisturbedIsAtomic == [][\A c \in Clients : EndsAsPromised(c)]_storageVars

Under(S, op) ==
    {e \in S : IF op.recursive THEN IsStrictPrefix(op.path, e[1]) ELSE Front(e[1]) = op.path}

\* A listing, also one that reads directory after directory while others change
\* them, names what was there the whole time, and nothing that never was: under the
\* path and as the kind of entry that it was (storage.go:656-696, :807-831).
ListingIsFair ==
    \A c \in Clients :
        LET k == call[c] IN
        k.op # NoCall /\ k.pc = "over" /\ k.err = "ok" /\ k.op.kind = "readdir"
            => /\ Under(k.always, k.op) \subseteq k.list
               /\ k.list \subseteq Under(k.ever, k.op)
=============================================================================
