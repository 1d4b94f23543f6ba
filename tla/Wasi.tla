-------------------------------- MODULE Wasi --------------------------------
(***************************************************************************)
(* The file descriptors of an application (libc-wasi, posix.c): the table  *)
(* of descriptors with its rights, the reference counted objects behind    *)
(* it, the file descriptors of the host behind those, and the operations   *)
(* that several threads of an instance call at the same time.  An          *)
(* operation is cut where it drops a lock or makes a system call.  Data    *)
(* that is read and written, times and error numbers are left out, and so  *)
(* are the assertions, which a release build drops.                        *)
(***************************************************************************)
EXTENDS WasiPath, SequencesExt

CONSTANTS
  Threads,
  FileSystems,   \* the trees that may be found under the directory "root", by name
  Below,         \* the nodes under "root"
  Paths,         \* the paths that the application uses
  NewPaths,      \* those among them that it links or renames to
  OpenFlags,     \* the sets of flags it opens files with
  Wants,         \* [base, inh]: the rights it asks for
  TableSize,     \* bound of the table
  MaxObjects,    \* bound of the objects, and of the descriptors of the host
  MaxCalls,      \* bound of the calls
  MaxPathCalls,  \* bound of the calls with a path among them
  MaxChanges,    \* bound of the changes of the file system by others
  Draws,         \* number of free slots among which a new descriptor is drawn
  Word           \* 2^64, scaled down: used is a size_t

ASSUME WasiAssumption ==
  /\ {TableSize, MaxObjects, MaxCalls, MaxPathCalls, Draws, Word} \subseteq Nat \ {0}
  /\ MaxObjects >= 5 /\ IsFiniteSet(Threads)
  /\ \A f \in DOMAIN FileSystems : FileSystems[f]["root"].kind = "dir"
\* No directory under "root" has an entry for what is not; "a" is the one of Init, and
\* "new" a file that is created.
ASSUME BelowAssumption ==
  /\ {"root", "a", "new"} \subseteq Below
  /\ \A f \in DOMAIN FileSystems : \A d \in Below :
       \A x \in DOMAIN FileSystems[f][d].sub : FileSystems[f][d].sub[x] \in Below

VARIABLES
  entries,  \* fd_table.entries: [obj, base, inh] of each slot in use
  size, used,
  objs,     \* fd_object: [ref, num, node, dirh]; ref 0 once freed
  host,     \* the host's descriptors: the node behind each, or None
  th,       \* what each thread is doing
  tree,     \* the name of the file system that is found
  calls, pcalls, changes,  \* number of calls, of calls with a path, of changes
  leaked    \* history: leases that a return left behind
fs == FileSystems[tree]
table == <<entries, size, used>>
vars == <<entries, size, used, objs, host, th, tree, calls, pcalls, changes, leaked>>

Objects == 1..MaxObjects
HostFds == 0..MaxObjects + 2

REGULAR_FILE_BASE ==
  {"FD_DATASYNC", "FD_READ", "FD_SEEK", "FD_FDSTAT_SET_FLAGS", "FD_SYNC", "FD_TELL", "FD_WRITE",
   "FD_ADVISE", "FD_ALLOCATE", "FD_FILESTAT_GET", "FD_FILESTAT_SET_SIZE",
   "FD_FILESTAT_SET_TIMES", "POLL_FD_READWRITE"}
DIRECTORY_BASE ==
  {"FD_FDSTAT_SET_FLAGS", "FD_SYNC", "FD_ADVISE", "PATH_CREATE_DIRECTORY", "PATH_CREATE_FILE",
   "PATH_LINK_SOURCE", "PATH_LINK_TARGET", "PATH_OPEN", "FD_READDIR", "PATH_READLINK",
   "PATH_RENAME_SOURCE", "PATH_RENAME_TARGET", "PATH_FILESTAT_GET", "PATH_FILESTAT_SET_SIZE",
   "PATH_FILESTAT_SET_TIMES", "FD_FILESTAT_GET", "FD_FILESTAT_SET_TIMES", "PATH_SYMLINK",
   "PATH_UNLINK_FILE", "PATH_REMOVE_DIRECTORY", "POLL_FD_READWRITE"}
TTY_BASE == {"FD_READ", "FD_FDSTAT_SET_FLAGS", "FD_WRITE", "FD_FILESTAT_GET", "POLL_FD_READWRITE"}
SOCKET_BASE == TTY_BASE \cup {"SOCK_SHUTDOWN"}
RIGHTS_ALL == REGULAR_FILE_BASE \cup DIRECTORY_BASE \cup SOCKET_BASE

\* fd_determine_type_rights: a descriptor opened for reading only does not write, one
\* opened for writing only does not read.
TypeRights(node, rd, wr) ==
  LET denied == IF ~wr THEN {"FD_WRITE"} ELSE IF ~rd THEN {"FD_READ"} ELSE {}
      type == IF node = "tty" THEN [base |-> TTY_BASE, inh |-> {}]
              ELSE IF node = "socket" THEN [base |-> SOCKET_BASE, inh |-> RIGHTS_ALL]
              ELSE IF IsDir(fs, node)
              THEN [base |-> DIRECTORY_BASE, inh |-> DIRECTORY_BASE \cup REGULAR_FILE_BASE]
              ELSE [base |-> REGULAR_FILE_BASE, inh |-> {}]
  IN [base |-> type.base \ denied, inh |-> type.inh]

\* fd_table_grow: the size is doubled until the table can take one more.
Grown(min, incr) ==
  LET big(n) == n > min /\ n >= (2 * ((used + incr) % Word)) % Word
      sizes == {n \in {2^k : k \in 0..8} : n >= size /\ big(n)}
  IN IF big(size) THEN size ELSE IF sizes = {} THEN Word ELSE Min(sizes)

NoWant == [base |-> {}, inh |-> {}]
NoLookup == StartLookup("root", Path(FALSE, <<>>, FALSE), FALSE, FALSE)
\* held: leases [obj, fd] still to be put back; opened: descriptors of a lookup;
\* nfd: a descriptor just opened, -1 for none; want: the rights asked for; may: history,
\* what the directory could pass on when asked; path and stale: history of a lookup.
Idle == [pc |-> "idle", op |-> "fd", held |-> <<>>, l |-> NoLookup, opened |-> <<>>, nfd |-> -1,
         want |-> NoWant, may |-> {}, path |-> Path(FALSE, <<>>, FALSE), stale |-> FALSE]

NewEntry(obj, rights) == [obj |-> obj, base |-> rights.base, inh |-> rights.inh]

\* The state after wasm_runtime_init_wasi (descriptors 0 to 2, the last one a
\* pipe to write to, and one directory, which is preopened) and a first path_open of "a".
Preopened == {3}
FirstNode(n) == CASE n \in 0..1 -> "tty" [] n = 2 -> "socket" [] n = 3 -> "root" [] n = 4 -> "a"
                   [] OTHER -> None
Init ==
  /\ tree \in DOMAIN FileSystems
  /\ entries = [s \in 0..4 |-> NewEntry(s + 1, TypeRights(FirstNode(s), s # 2, s < 3))]
  /\ size = 16 /\ used = 5
  /\ objs = [o \in Objects |-> [ref |-> IF o <= 5 THEN 1 ELSE 0, num |-> IF o <= 5 THEN o - 1 ELSE 0,
                                node |-> FirstNode(o - 1), dirh |-> FALSE]]
  /\ host = [h \in HostFds |-> FirstNode(h)]
  /\ th = [t \in Threads |-> Idle]
  /\ calls = 0 /\ pcalls = 0 /\ changes = 0 /\ leaked = <<>>

----------------------------------------------------------------------------
(* Objects and the descriptors of the host.                                *)

\* fd_table_get_entry
Granted(fd, base, inh) ==
  fd \in DOMAIN entries /\ base \subseteq entries[fd].base /\ inh \subseteq entries[fd].inh

Detached(f, s) == [x \in DOMAIN f \ {s} |-> f[x]]

FreeHost(h) == Min({x \in HostFds : h[x] = None})
HostOpen(h, node) == [h EXCEPT ![FreeHost(h)] = node]
\* CLOSE_NON_STD_FD
HostClose(h, n) == IF n > 2 THEN [h EXCEPT ![n] = None] ELSE h

MutReleaseCloses(O, H, o) ==
  <<[O EXCEPT ![o].ref = @ - 1], HostClose(H, O[o].num)>>
\* fd_object_release: the last reference closes the descriptor, or the directory
\* handle that owns it.  The state is a pair of objects and host descriptors.
fd_object_release(O, H, o) ==
  IF O[o].ref = 1 THEN <<[O EXCEPT ![o].ref = 0, ![o].dirh = FALSE], HostClose(H, O[o].num)>>
  ELSE <<[O EXCEPT ![o].ref = @ - 1], H>>

Apply(pair) == objs' = pair[1] /\ host' = pair[2]
Lease(o) == [obj |-> o, fd |-> objs[o].num]

MutPutKeepsFd(O, H, lease) == fd_object_release(O, H, lease.obj)
\* path_put; a lease on the descriptor of the object itself closes nothing.
path_put(O, H, lease) ==
  fd_object_release(O, IF lease.fd # O[lease.obj].num THEN [H EXCEPT ![lease.fd] = None] ELSE H,
                    lease.obj)

Ready(t) == th[t].pc = "idle" /\ calls < MaxCalls
Begin(t, r) == th' = [th EXCEPT ![t] = r] /\ calls' = calls + 1 /\ UNCHANGED pcalls
BeginPath == calls' = calls + 1 /\ pcalls' = pcalls + 1
Continues == UNCHANGED <<calls, pcalls>>
Same == UNCHANGED <<tree, changes, leaked>>

----------------------------------------------------------------------------
(* Operations on one descriptor: fd_object_get, a system call while the    *)
(* object is held, fd_object_release.                                      *)

fd_object_get(t, fd, right, pc) ==
  /\ Granted(fd, {right}, {})
  /\ objs' = [objs EXCEPT ![entries[fd].obj].ref = @ + 1]
  /\ Begin(t, [Idle EXCEPT !.pc = pc, !.held = <<Lease(entries[fd].obj)>>])
  /\ UNCHANGED <<table, host>> /\ Same

fd_datasync(t, fd) == fd_object_get(t, fd, "FD_DATASYNC", "use")
fd_pread(t, fd) == fd_object_get(t, fd, "FD_READ", "use")
fd_pwrite(t, fd) == fd_object_get(t, fd, "FD_WRITE", "use")
fd_read(t, fd) == fd_object_get(t, fd, "FD_READ", "use")
fd_seek(t, fd) == fd_object_get(t, fd, "FD_TELL", "use")
fd_tell(t, fd) == fd_object_get(t, fd, "FD_TELL", "use")
fd_fdstat_set_flags(t, fd) == fd_object_get(t, fd, "FD_FDSTAT_SET_FLAGS", "use")
fd_sync(t, fd) == fd_object_get(t, fd, "FD_SYNC", "use")
fd_write(t, fd) == fd_object_get(t, fd, "FD_WRITE", "use")
fd_advise(t, fd) == fd_object_get(t, fd, "FD_ADVISE", "use")
fd_allocate(t, fd) == fd_object_get(t, fd, "FD_ALLOCATE", "use")
fd_filestat_get(t, fd) == fd_object_get(t, fd, "FD_FILESTAT_GET", "use")
fd_filestat_set_size(t, fd) == fd_object_get(t, fd, "FD_FILESTAT_SET_SIZE", "use")
fd_filestat_set_times(t, fd) == fd_object_get(t, fd, "FD_FILESTAT_SET_TIMES", "use")
sock_recv(t, fd) == fd_object_get(t, fd, "FD_READ", "use")
sock_send(t, fd) == fd_object_get(t, fd, "FD_WRITE", "use")
sock_shutdown(t, fd) == fd_object_get(t, fd, "SOCK_SHUTDOWN", "use")
FdOperation(t, fd) ==
  \/ fd_datasync(t, fd) \/ fd_pread(t, fd) \/ fd_pwrite(t, fd) \/ fd_read(t, fd) \/ fd_seek(t, fd)
  \/ fd_tell(t, fd) \/ fd_fdstat_set_flags(t, fd) \/ fd_sync(t, fd) \/ fd_write(t, fd)
  \/ fd_advise(t, fd) \/ fd_allocate(t, fd) \/ fd_filestat_get(t, fd)
  \/ fd_filestat_set_size(t, fd) \/ fd_filestat_set_times(t, fd)
  \/ sock_recv(t, fd) \/ sock_send(t, fd) \/ sock_shutdown(t, fd)

\* fd_readdir takes the lock of the directory; its first call makes the handle,
\* which may fail.
fd_readdir(t, fd) == fd_object_get(t, fd, "FD_READDIR", "lock")
ReaddirLock(t) ==
  LET o == th[t].held[1].obj IN
  /\ th[t].pc = "lock"
  /\ \A u \in Threads : th[u].pc = "read" => th[u].held[1].obj # o
  /\ \/ th' = [th EXCEPT ![t].pc = "read"] /\ objs' = [objs EXCEPT ![o].dirh = TRUE]
     \/ ~objs[o].dirh /\ th' = [th EXCEPT ![t].pc = "use"] /\ UNCHANGED objs
  /\ UNCHANGED <<table, host>> /\ Continues /\ Same

\* poll_oneoff, of two subscriptions, holds the objects of all that are not refused.
Subscribed(fd) ==
  IF Granted(fd, {"POLL_FD_READWRITE"}, {}) THEN <<Lease(entries[fd].obj)>> ELSE <<>>
poll_oneoff(t, fd, fd2) ==
  LET held == Subscribed(fd) \o Subscribed(fd2)
      refs(o) == Cardinality({i \in DOMAIN held : held[i].obj = o})
  IN /\ held # <<>>
     /\ objs' = [o \in Objects |-> [objs[o] EXCEPT !.ref = @ + refs(o)]]
     /\ Begin(t, [Idle EXCEPT !.pc = "use", !.held = held])
     /\ UNCHANGED <<table, host>> /\ Same

\* After the system call, whatever it returned.
AfterPut(r) ==
  IF Len(r.held) > 1 THEN [r EXCEPT !.held = Tail(@)]
  ELSE IF r.nfd >= 0 THEN [r EXCEPT !.held = <<>>, !.pc = "insert"] ELSE Idle
Release(t) ==
  /\ th[t].pc \in {"use", "read"}
  /\ Apply(path_put(objs, host, Head(th[t].held)))
  /\ th' = [th EXCEPT ![t] = AfterPut(@)]
  /\ UNCHANGED <<table>> /\ Continues /\ Same

----------------------------------------------------------------------------
(* Operations on the table.                                                *)

\* fd_close detaches under the lock and releases after it.
fd_close(t, fd) ==
  /\ fd \notin Preopened /\ Granted(fd, {}, {})
  /\ entries' = Detached(entries, fd)
  /\ used' = (used - 1) % Word
  /\ Begin(t, [Idle EXCEPT !.pc = "use", !.held = <<Lease(entries[fd].obj)>>])
  /\ UNCHANGED <<size, objs, host>> /\ Same

MutRenumberUncounted(t, from, to) ==
  /\ {from, to} \cap Preopened = {} /\ Granted(from, {}, {}) /\ Granted(to, {}, {})
  /\ from # to
  /\ entries' = Detached([entries EXCEPT ![to] = entries[from]], from)
  /\ Apply(LET p == fd_object_release(objs, host, entries[to].obj)
           IN fd_object_release(p[1], p[2], entries[from].obj))
  /\ used' = (used - 2) % Word
  /\ Begin(t, Idle) /\ UNCHANGED size /\ Same
\* fd_renumber: to is detached, given the object of from and released, from is
\* detached and released, and used is lowered once more.  Of a descriptor to
\* itself, the entry is NULL when its object is acquired.
fd_renumber(t, from, to) ==
  LET o == entries[from].obj
      p == fd_object_release([objs EXCEPT ![o].ref = @ + 1], host, entries[to].obj)
  IN /\ {from, to} \cap Preopened = {}
     /\ Granted(from, {}, {}) /\ Granted(to, {}, {})
     /\ IF from = to
        THEN Begin(t, [Idle EXCEPT !.pc = "crashed"]) /\ UNCHANGED <<entries, used, objs, host>>
        ELSE /\ entries' = Detached([entries EXCEPT ![to] = entries[from]], from)
             /\ Apply(fd_object_release(p[1], p[2], o))
             /\ used' = (used - 2) % Word
             /\ Begin(t, Idle)
     /\ UNCHANGED size /\ Same

fd_fdstat_set_rights(t, fd, r) ==
  /\ Granted(fd, r.base, r.inh)
  /\ entries' = [entries EXCEPT ![fd] = [@ EXCEPT !.base = r.base, !.inh = r.inh]]
  /\ Begin(t, Idle)
  /\ UNCHANGED <<size, used, objs, host>> /\ Same

----------------------------------------------------------------------------
(* Operations on paths: path_get, a system call, path_put.                 *)

\* The directory is held during the whole operation.
path_get(t, r, fd, path, follow, final, base, inh) ==
  /\ Granted(fd, base, inh)
  /\ objs' = [objs EXCEPT ![entries[fd].obj].ref = @ + 1]
  /\ th' = [th EXCEPT ![t] =
       [r EXCEPT !.pc = "lookup", !.held = Append(@, Lease(entries[fd].obj)), !.path = path,
                 !.l = StartLookup(objs[entries[fd].obj].node, path, follow, final),
                 !.opened = <<>>, !.stale = FALSE]]
  /\ UNCHANGED <<table, host>> /\ Same
PathCall(t, op, fd, path, follow, final, right) ==
  /\ BeginPath
  /\ path_get(t, [Idle EXCEPT !.op = op], fd, path, follow, final, {right}, {})

path_create_directory(t, fd, p) == PathCall(t, "one", fd, p, FALSE, TRUE, "PATH_CREATE_DIRECTORY")
path_readlink(t, fd, p) == PathCall(t, "one", fd, p, FALSE, FALSE, "PATH_READLINK")
path_filestat_get(t, fd, p, follow) ==
  PathCall(t, "one", fd, p, follow, FALSE, "PATH_FILESTAT_GET")
path_filestat_set_times(t, fd, p, follow) ==
  PathCall(t, "one", fd, p, follow, FALSE, "PATH_FILESTAT_SET_TIMES")
path_unlink_file(t, fd, p) == PathCall(t, "one", fd, p, FALSE, TRUE, "PATH_UNLINK_FILE")
path_remove_directory(t, fd, p) == PathCall(t, "one", fd, p, FALSE, TRUE, "PATH_REMOVE_DIRECTORY")
path_symlink(t, fd, p) == PathCall(t, "symlink", fd, p, FALSE, TRUE, "PATH_SYMLINK")
path_link(t, fd, p, follow) == PathCall(t, "link", fd, p, follow, FALSE, "PATH_LINK_SOURCE")
path_rename(t, fd, p) == PathCall(t, "rename", fd, p, FALSE, TRUE, "PATH_RENAME_SOURCE")
\* path_open: the mode of the open follows from the rights that are asked for.
WRITING == {"FD_DATASYNC", "FD_WRITE", "FD_ALLOCATE", "FD_FILESTAT_SET_SIZE"}
Reads(want) == want.base \cap {"FD_READ", "FD_READDIR"} # {}
Writes(want) == want.base \cap WRITING # {}
\* What is asked of the directory depends on the flags, too.
NeededBase(flags) ==
  {"PATH_OPEN"} \cup (IF "CREAT" \in flags THEN {"PATH_CREATE_FILE"} ELSE {})
  \cup (IF "TRUNC" \in flags THEN {"PATH_FILESTAT_SET_SIZE"} ELSE {})
NeededInheriting(flags, want) ==
  want.base \cup want.inh \cup (IF "DSYNC" \in flags THEN {"FD_DATASYNC"} ELSE {})
  \cup (IF {"SYNC", "RSYNC"} \cap flags # {} THEN {"FD_SYNC"} ELSE {})
  \cup (IF Writes(want) /\ {"APPEND", "TRUNC"} \cap flags = {} THEN {"FD_SEEK"} ELSE {})
Opening(fd, want) == [Idle EXCEPT !.op = "open", !.want = want, !.may = entries[fd].inh]
MutNoInheritCheck(t, fd, p, follow, flags, want) ==
  /\ BeginPath
  /\ path_get(t, Opening(fd, want), fd, p, follow, "CREAT" \in flags, NeededBase(flags), {})
path_open(t, fd, p, follow, flags, want) ==
  /\ BeginPath
  /\ path_get(t, Opening(fd, want), fd, p, follow, "CREAT" \in flags, NeededBase(flags),
              NeededInheriting(flags, want))
PathOperation(t, fd, p, b) ==
  \/ path_create_directory(t, fd, p) \/ path_readlink(t, fd, p) \/ path_filestat_get(t, fd, p, b)
  \/ path_filestat_set_times(t, fd, p, b) \/ path_unlink_file(t, fd, p)
  \/ path_remove_directory(t, fd, p) \/ path_symlink(t, fd, p) \/ path_link(t, fd, p, b)
  \/ path_rename(t, fd, p)

\* The directories opened of a lookup l; at its end only the last one is kept, and
\* becomes the one of the lease.
CloseAll(H, ns) == [n \in HostFds |-> IF n \in ns THEN None ELSE H[n]]
Walk(t, l, opened, H) ==
  LET r == th[t]
      k == Len(opened)
      i == Len(r.held)
  IN IF l.st = "ok"
     THEN /\ th' = [th EXCEPT ![t] = [r EXCEPT !.l = l, !.opened = <<>>, !.pc = "found",
                                               !.held[i].fd = IF k = 0 THEN @ ELSE opened[k]]]
          /\ host' = CloseAll(H, Range(opened) \ (IF k = 0 THEN {} ELSE {opened[k]}))
     ELSE /\ th' = [th EXCEPT ![t] = [r EXCEPT !.l = l, !.opened = opened,
                                               !.pc = IF l.st = "run" THEN "lookup" ELSE "lost"]]
          /\ host' = H
\* The descriptors of the directories follow the stack of the lookup.
Resolve(t) ==
  LET r == th[t]
      step == LookupStep(r.l, fs)
      down == Len(step.fds) > Len(r.l.fds)
      full == down /\ \A n \in HostFds : host[n] # None
      l == IF full THEN Failed(r.l, "ENFILE") ELSE step
      opened == IF down /\ ~full THEN Append(r.opened, FreeHost(host))
                ELSE SubSeq(r.opened, 1, Len(l.fds) - 1)
      H == IF down /\ ~full THEN HostOpen(host, Here(l))
           ELSE CloseAll(host, Range(r.opened) \ Range(opened))
  IN /\ r.pc = "lookup" /\ r.l.st = "run"
     /\ Walk(t, l, opened, H)
     /\ UNCHANGED <<table, objs>> /\ Continues /\ Same

Done(r) == [r EXCEPT !.pc = "use", !.l = NoLookup, !.path = Idle.path, !.stale = FALSE]
\* A failed lookup puts back its own directory, and that of the first path.
Lost(t) ==
  /\ th[t].pc = "lost" /\ th' = [th EXCEPT ![t] = Done(@)]
  /\ UNCHANGED <<table, objs, host>> /\ Continues /\ Same

\* The second path of path_link and path_rename.
SecondPath(t, fd, p) ==
  LET right == IF th[t].op = "link" THEN "PATH_LINK_TARGET" ELSE "PATH_RENAME_TARGET" IN
  /\ th[t].pc = "found" /\ th[t].op \in {"link", "rename"} /\ Len(th[t].held) = 1
  /\ \/ path_get(t, th[t], fd, p, FALSE, TRUE, {right}, {})
     \/ /\ ~Granted(fd, {right}, {})
        /\ th' = [th EXCEPT ![t] = Done(@)] /\ UNCHANGED <<table, objs, host>> /\ Same
  /\ Continues

\* The system call on the directory and the name that were found.
Paired(r) == Len(r.held) = IF r.op \in {"link", "rename"} THEN 2 ELSE 1
SystemCall(t) ==
  /\ th[t].pc = "found" /\ Paired(th[t]) /\ th[t].op # "open"
  /\ th' = [th EXCEPT ![t] = Done(@)]
  /\ UNCHANGED <<table, objs, host>> /\ Continues /\ Same

\* path_link and path_symlink: validate_path refuses, and the leases stay.
ValidateRefuses(t) ==
  /\ th[t].pc = "found" /\ Paired(th[t]) /\ th[t].op \in {"link", "symlink"}
  /\ leaked' = leaked \o th[t].held
  /\ th' = [th EXCEPT ![t] = Idle]
  /\ UNCHANGED <<table, objs, host, tree, changes>> /\ Continues

\* path_open: the file is opened without following a link, or created; the host may
\* refuse.  No file is created under a name whose slash was retained, nor a directory
\* opened with the flag to create it.
Target(r) == IF r.l.file = "." THEN Here(r.l) ELSE Entry(fs, Here(r.l), r.l.file)
Opens(r) ==
  LET n == Target(r) IN
  IF r.l.slash THEN None
  ELSE IF n = None THEN IF r.l.final THEN "new" ELSE None
  ELSE IF IsLink(fs, n) \/ (IsDir(fs, n) /\ (Writes(r.want) \/ r.l.final)) THEN None ELSE n
Openat(t) ==
  LET n == Opens(th[t]) IN
  /\ th[t].pc = "found" /\ th[t].op = "open"
  /\ \/ /\ n # None /\ \E h \in HostFds : host[h] = None
        /\ th' = [th EXCEPT ![t] = [Done(@) EXCEPT !.nfd = FreeHost(host)]]
        /\ host' = HostOpen(host, n)
     \/ th' = [th EXCEPT ![t] = Done(@)] /\ UNCHANGED host
  /\ UNCHANGED <<table, objs>> /\ Continues /\ Same

\* The rights of the new descriptor: those asked for and all of its type, cut to
\* what the type has.
NewRights(node, want) ==
  LET max == TypeRights(node, Reads(want), Writes(want))
  IN [base |-> (want.base \cup max.base) \cap max.base, inh |-> want.inh \cap max.inh]
\* fd_determine_type_rights and fd_object_new may fail, and the file is closed;
\* fd_table_insert draws a free slot.
fd_table_insert(t) ==
  LET r == th[t]
      node == host[r.nfd]
      grown == Grown(0, 1)
      free == (0..grown - 1) \ DOMAIN entries
      o == Min({x \in Objects : objs[x].ref = 0})
      rights == NewRights(node, r.want)
  IN /\ r.pc = "insert" /\ th' = [th EXCEPT ![t] = Idle]
     /\ \/ /\ grown <= TableSize /\ \E x \in Objects : objs[x].ref = 0
           /\ \E s \in free :
                /\ Cardinality({f \in free : f < s}) < Draws
                /\ entries' = [x \in DOMAIN entries \cup {s} |->
                                 IF x = s THEN NewEntry(o, rights) ELSE entries[x]]
           /\ size' = grown /\ used' = (used + 1) % Word
           /\ objs' = [objs EXCEPT ![o] = [ref |-> 1, num |-> r.nfd, node |-> node, dirh |-> FALSE]]
           /\ UNCHANGED host
        \/ host' = HostClose(host, r.nfd) /\ UNCHANGED <<table, objs>>
     /\ Continues /\ Same

\* Others change the file system while the application runs.
FsChange ==
  /\ changes < MaxChanges
  /\ tree' \in DOMAIN FileSystems \ {tree} /\ changes' = changes + 1
  /\ th' = [t \in Threads |-> [th[t] EXCEPT !.stale = @ \/ th[t].pc \in {"lookup", "found", "lost"}]]
  /\ UNCHANGED <<table, objs, host, leaked>> /\ Continues

\* The calls of the application, which a thread makes one after the other.
Call(t, fd) ==
  \/ FdOperation(t, fd) \/ fd_readdir(t, fd) \/ fd_close(t, fd)
  \/ \E fd2 \in DOMAIN entries : poll_oneoff(t, fd, fd2) \/ fd_renumber(t, fd, fd2)
  \/ \E r \in Wants : fd_fdstat_set_rights(t, fd, r)
CallWithPath(t, fd) ==
  \E p \in Paths, follow \in BOOLEAN :
    \/ PathOperation(t, fd, p, follow)
    \/ \E f \in OpenFlags, w \in Wants : path_open(t, fd, p, follow, f, w)

Next ==
  \/ FsChange
  \/ \E t \in Threads :
       \/ ReaddirLock(t) \/ Release(t) \/ Resolve(t) \/ Lost(t) \/ SystemCall(t)
       \/ ValidateRefuses(t) \/ Openat(t) \/ fd_table_insert(t)
       \/ \E fd \in DOMAIN entries, p \in NewPaths : SecondPath(t, fd, p)
       \/ Ready(t) /\ \E fd \in DOMAIN entries : Call(t, fd)
       \/ Ready(t) /\ pcalls < MaxPathCalls /\ \E fd \in DOMAIN entries : CallWithPath(t, fd)
Spec == Init /\ [][Next]_vars

----------------------------------------------------------------------------
(* Properties.                                                             *)

Leases == {<<t, i>> : t \in Threads, i \in 1..2}
LeaseAt(x) == th[x[1]].held[x[2]]
Live == {o \in Objects : objs[o].ref > 0}

(* The reference count of a descriptor object (refcount.h) is the number of *)
(* table entries, running operations and abandoned leases that refer to it, *)
(* whatever close and renumber do under a running operation.               *)
RefsMatch ==
  \A o \in Objects : objs[o].ref =
     Cardinality({s \in DOMAIN entries : entries[s].obj = o})
     + Cardinality({x \in Leases : x[2] <= Len(th[x[1]].held) /\ LeaseAt(x).obj = o})
     + Cardinality({i \in DOMAIN leaked : leaked[i].obj = o})

(* The descriptor of the host that an operation works on is open, and still *)
(* the one it was: fd_object_release and path_put close a number only when  *)
(* nobody uses it, so that a number reused by another open never takes its  *)
(* place under a running operation.                                         *)
HeldIsOpen ==
  /\ \A o \in Live : host[objs[o].num] = objs[o].node
  /\ \A t \in Threads :
       /\ \A i \in DOMAIN th[t].held : host[th[t].held[i].fd] # None
       /\ \A i \in DOMAIN th[t].opened : host[th[t].opened[i]] = th[t].l.fds[i + 1]

(* No descriptor of the host is lost: each one above 2 belongs to a live    *)
(* object, to a lookup or a lease, or to a return without path_put, on every *)
(* error path of path_get, path_link, path_rename and path_open.            *)
NothingLost ==
  \A n \in HostFds : n > 2 /\ host[n] # None =>
    \/ \E o \in Live : objs[o].num = n
    \/ \E t \in Threads : \/ n \in Range(th[t].opened) \/ th[t].nfd = n
                         \/ \E i \in DOMAIN th[t].held : th[t].held[i].fd = n
    \/ \E i \in DOMAIN leaked : leaked[i].fd = n

(* A lookup stays under its directory (path_get): whatever symbolic links   *)
(* and ".." it meets and however others move directories meanwhile.         *)
PathConfined ==
  \A t \in Threads : \A i \in DOMAIN th[t].l.fds : th[t].l.fds[i] \in Below

(* When nobody changes the file system, path_get finds what the path means: *)
(* it refuses what would leave the directory and nothing else.              *)
ResolvesAsMeant ==
  \A t \in Threads :
    LET r == th[t]
        m == Meaning(fs, r.l.fds[1], r.path, r.l.follow, MaxExpansions * 4)
    IN r.pc \in {"found", "lost"} /\ ~r.stale =>
         CASE r.l.st = "ok" -> m = (IF Target(r) = None THEN <<"absent">> ELSE <<"at", Target(r)>>)
           [] r.l.st = "ENOTCAPABLE" -> m = <<"escape">>
           [] r.l.st = "ENOENT" -> m = <<"absent">>
           [] r.l.st = "ENOTDIR" -> m[1] = "notdir" \/ (m[1] = "at" /\ ~IsDir(fs, m[2]))
           [] r.l.st = "ELOOP" -> m = <<"loop">>
           [] OTHER -> TRUE

(* The rights of an entry only shrink while it stays open (set_rights, and  *)
(* renumber under a running operation).  What path_open adds inherits       *)
(* nothing that its directory could not pass on when it was asked, has no   *)
(* right that its type lacks, and is not written to unless the directory    *)
(* could pass on a right to write.  Of the other rights of its type it has  *)
(* all, asked for or not.                                                   *)
RightsNeverGrow ==
  [][\A s \in DOMAIN entries' :
       \/ \E f \in DOMAIN entries : /\ entries[f].obj = entries'[s].obj
                                    /\ entries'[s].base \subseteq entries[f].base
                                    /\ entries'[s].inh \subseteq entries[f].inh
       \/ /\ \A f \in DOMAIN entries : entries[f].obj # entries'[s].obj
          /\ \E t \in Threads :
               /\ th[t].pc = "insert"
               /\ entries'[s].inh \subseteq th[t].may
               /\ entries'[s].base \subseteq TypeRights(host[th[t].nfd], TRUE, TRUE).base
               /\ "FD_WRITE" \in entries'[s].base => th[t].may \cap WRITING # {}]_vars
=============================================================================
