------------------------------ MODULE WasiPath ------------------------------
(***************************************************************************)
(* path_get of posix.c (libc-wasi): how a path of the application is       *)
(* resolved component by component under one of its directories, with a    *)
(* stack of directories and a stack of the paths of the symbolic links met *)
(* on the way.  The bytes of a path are abstracted to its components and   *)
(* its slashes.  A file system is a function from nodes to nodes' kinds    *)
(* and entries; openat and readlinkat of the host are external.            *)
(***************************************************************************)
EXTENDS Integers, Sequences, FiniteSets

CONSTANTS
  MaxFds,         \* size of fds (128)
  MaxPaths,       \* size of paths (32)
  MaxExpansions   \* limit of the expansions of symbolic links (128)

ASSUME LimitAssumption == {MaxFds, MaxPaths, MaxExpansions} \subseteq Nat \ {0}

\* abs: starts with a slash; slash: ends with one.
Path(abs, names, slash) == [abs |-> abs, names |-> names, slash |-> slash]
None == "none"

\* openat(.., O_DIRECTORY | O_NOFOLLOW) and readlinkat
Entry(fs, dir, name) == IF name \in DOMAIN fs[dir].sub THEN fs[dir].sub[name] ELSE None
IsDir(fs, n) == n # None /\ fs[n].kind = "dir"
IsLink(fs, n) == n # None /\ fs[n].kind = "link"

\* A lookup: fds[1] is the directory of the caller; st is "run", "ok" or the error.
StartLookup(dir, path, follow, needs_final) ==
  [fds |-> <<dir>>, paths |-> <<path>>, exp |-> 0, st |-> "run", file |-> None,
   follow |-> follow, final |-> needs_final, slash |-> FALSE]
Failed(l, error) == [l EXCEPT !.st = error, !.fds = <<l.fds[1]>>, !.paths = <<>>]

Cur(l) == l.paths[Len(l.paths)]
Here(l) == l.fds[Len(l.fds)]

\* The end of the loop: what is left of the path is empty.
NextPath(l) ==
  IF Cur(l).names # <<>> THEN l
  ELSE IF Len(l.paths) = 1 THEN [l EXCEPT !.st = "ok", !.file = ".", !.paths = <<>>]
  ELSE [l EXCEPT !.paths = SubSeq(@, 1, Len(@) - 1)]

MutForgetsRest(l, target, slashes) ==
  LET n == Len(l.paths) IN
  IF l.exp + 1 = MaxExpansions THEN Failed(l, "ELOOP")
  ELSE [l EXCEPT !.exp = @ + 1, !.paths[n] = [target EXCEPT !.slash = @ \/ slashes]]
\* The link takes the place of a path that is finished, else it is stacked.
push_symlink(l, target, slashes) ==
  LET link == [target EXCEPT !.slash = @ \/ slashes]
      n == Len(l.paths)
  IN IF l.exp + 1 = MaxExpansions THEN Failed(l, "ELOOP")
     ELSE IF Cur(l).names = <<>> THEN [l EXCEPT !.exp = @ + 1, !.paths[n] = link]
     ELSE IF n = MaxPaths THEN Failed(l, "ELOOP")
     ELSE [l EXCEPT !.exp = @ + 1, !.paths = Append(@, link)]

\* Another way to read "..": the host's own directory entry.
MutParentOfHost(l, fs) ==
  LET up == {d \in DOMAIN fs : \E x \in DOMAIN fs[d].sub : fs[d].sub[x] = Here(l)} IN
  IF up = {} THEN Failed(l, "ENOENT")
  ELSE NextPath([l EXCEPT !.fds = Append(@, CHOOSE d \in up : TRUE)])
\* ".." is answered from the stack of directories.
Parent(l, fs) ==
  IF Len(l.fds) = 1 THEN Failed(l, "ENOTCAPABLE")
  ELSE NextPath([l EXCEPT !.fds = SubSeq(@, 1, Len(@) - 1)])

\* A component that must be a directory.
Enter(l, fs, name, slashes) ==
  LET n == Entry(fs, Here(l), name) IN
  IF IsDir(fs, n)
  THEN IF Len(l.fds) = MaxFds THEN Failed(l, "ENAMETOOLONG")
       ELSE NextPath([l EXCEPT !.fds = Append(@, n)])
  ELSE IF IsLink(fs, n) THEN push_symlink(l, fs[n].target, slashes)
  ELSE Failed(l, IF n = None THEN "ENOENT" ELSE "ENOTDIR")

\* The last component; its name is left to the caller, with the slash that followed it.
Final(l, fs, name, slashes) ==
  LET n == Entry(fs, Here(l), name) IN
  IF (slashes \/ l.follow) /\ IsLink(fs, n) THEN push_symlink(l, fs[n].target, slashes)
  ELSE [l EXCEPT !.st = "ok", !.file = name, !.slash = slashes, !.paths = <<>>]

\* One turn of the loop.
LookupStep(l, fs) ==
  LET p == Cur(l)
      name == Head(p.names)
      rest == Tail(p.names)
      slashes == rest # <<>> \/ p.slash
      at == [l EXCEPT !.paths[Len(l.paths)] = [p EXCEPT !.names = rest]]
  IN IF p.abs THEN Failed(l, "ENOTCAPABLE")
     ELSE IF p.names = <<>> THEN Failed(l, "ENOENT")
     ELSE IF name = "." THEN NextPath(at)
     ELSE IF name = ".." THEN Parent(at, fs)
     ELSE IF Len(l.paths) > 1 \/ rest # <<>> \/ (slashes /\ ~l.final)
     THEN Enter(at, fs, name, slashes)
     ELSE Final(at, fs, name, slashes)

----------------------------------------------------------------------------
(* What a path means: the walk of POSIX that may not leave the directory.  *)
(* up is the chain of directories from the one of the caller down.         *)

Meaning(fs, dir, path, follow, fuel) ==
  LET walk[up \in Seq(STRING), names \in Seq(STRING), n \in Nat] ==
        LET here == up[Len(up)]
            node == Entry(fs, here, Head(names))
            rest == Tail(names)
            last == rest = <<>>
        IN IF n = 0 THEN <<"loop">>
           ELSE IF names = <<>> THEN <<"at", here>>
           ELSE IF Head(names) = "." THEN walk[up, rest, n - 1]
           ELSE IF Head(names) = ".."
           THEN IF Len(up) = 1 THEN <<"escape">> ELSE walk[SubSeq(up, 1, Len(up) - 1), rest, n - 1]
           ELSE IF IsLink(fs, node) /\ (~last \/ follow \/ path.slash)
           THEN IF fs[node].target.abs THEN <<"escape">>
                ELSE walk[up, fs[node].target.names \o rest, n - 1]
           ELSE IF last THEN (IF node = None THEN <<"absent">> ELSE <<"at", node>>)
           ELSE IF IsDir(fs, node) THEN walk[Append(up, node), rest, n - 1]
           ELSE IF node = None THEN <<"absent">> ELSE <<"notdir">>
  IN IF path.abs THEN <<"escape">>
     ELSE IF path.names = <<>> THEN <<"absent">>
     ELSE walk[<<dir>>, path.names, fuel]
=============================================================================
