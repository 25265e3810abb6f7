--------------------------- MODULE FsRedirection ---------------------------
(***************************************************************************)
(* The fs_redirection module at run time.  The tracer stops every traced   *)
(* process at the entry (pre_syscall) and at the exit of each hooked       *)
(* system call and runs the hook of modules/fs_redirection.c there:        *)
(*                                                                         *)
(*   hook_fileaccess, hook_open, redirect_file_access   path calls         *)
(*   hook_close, hook_dup, hook_fcntl, hook_mount                          *)
(*                                                                         *)
(* A hooked call is three steps: the hook at the entry, the kernel, the    *)
(* hook at the exit.  A hook is one step, for the tracer is one thread;    *)
(* between the steps of one process the other processes run.               *)
(***************************************************************************)
EXTENDS FstabLookup, FormatDetect

CONSTANTS
    Child,      \* traced processes and threads (struct tracy_child)
    Started,    \* the ones traced from the beginning
    Table,      \* descriptor tables
    TableOf,    \* TableOf[c]: threads share the table of their process
    Fd,         \* descriptor numbers
    Node0,      \* Node0[p]: what path p names once all devices are present
    Removable,  \* the paths whose node comes and goes
    Below,      \* Below[i]: the records whose directory lies in that of i
    AsecDir,    \* replacement_device of asec_rec
    Syscalls,   \* the path calls that the processes make
    FsTypes,    \* the file systems that they make
    Names,      \* names of files at the top of a bind directory
    Workload,   \* what else happens: see below
    ErrnoKept,  \* tracy_read_mem leaves the tracer's errno as it was
    MaxClock,   \* bound on the clock, in seconds
    MaxUuid,    \* bound on the number of mkfs runs
    MaxItems    \* bound on the entries of one list for one descriptor

Events == {"clone", "exit", "dup", "dup2", "fcntl", "nullsource",
           "mount", "umount", "nomem", "fast", "setback"}

\* An open file description.  made is auxiliary: a file system was made, or
\* the device erased, through it.
OpenFile == [obj : Obj, wr : BOOLEAN, made : BOOLEAN]

ASSUME FsrAssumption ==
    /\ Started \subseteq Child
    /\ TableOf \in [Child -> Table]
    /\ Fd \subseteq Nat
    /\ Null \notin Nat \cup OpenFile
    /\ NoData \notin Pdata
    /\ Node0 \in [Path -> Obj \cup {Absent}]
    /\ Removable \subseteq Path
    /\ Below \in [RecId -> SUBSET RecId]
    /\ \A i \in RecId : i \notin Below[i]
    /\ AsecDir \in Plain
    /\ Syscalls \subseteq PathCall
    /\ FsTypes \subseteq FsType \cup {"none"}
    /\ Names \subseteq {"visible", "dot"}
    /\ Workload \subseteq Events
    /\ ErrnoKept \in BOOLEAN
    /\ MaxClock \in Nat /\ MaxUuid \in Nat /\ MaxItems \in Nat

VARIABLES
    tracer,    \* "running", "aborted" (TRACY_HOOK_ABORT) or "crashed"
    errno,     \* errno of the tracer is not 0
    live,      \* the children that exist
    memory,    \* memory[c]: mbc->memory, what the copied path names
    tmp,       \* tmp[c]: mbc->tmp
    handled,   \* handled[c]: mbc->handled_by_open
    files,     \* files[c][fd]: the entries of mbc->files with that id
    call,      \* call[c]: the system call of c in flight
    fdt,       \* fdt[t][fd]: kernel descriptor tables
    node,      \* node[p]: what path p names now
    mounted,   \* the bind directories that are mounted
    sb,        \* sb[s]: the super block of stub device s
    dir,       \* dir[i]: the files in the bind directory of record i
    clock,     \* the time of day
    nextUuid   \* the identity of the next file system (auxiliary)

mbc  == <<memory, tmp, handled, files>>
kern == <<fdt, node, mounted>>
disk == <<sb, dir, clock, nextUuid>>
vars == <<tracer, errno, live, mbc, call, kern, disk>>

\* struct fd_info; uuid is auxiliary, the file system of the snapshot.
FdInfo == [filename : Path,
           device   : Stub,
           fs_type  : FsType,
           pdata    : Pdata \cup {NoData},
           uuid     : Nat]

\* A file in a bind directory.  uuid and held are auxiliary: the file system
\* on the stub device when it was written, and whether the descriptor of a
\* mkfs was still open then.
File == [uuid : Nat, name : Names, held : BOOLEAN]

\* A system call in flight: after its entry hook ("pre") or after the kernel
\* ("post").  `to` is the argument the hook has substituted, `hit` the object
\* the kernel has found.
Call == [sc     : PathCall \cup {"close", "dup", "dup2", "mount", "none"},
         phase  : {"user", "pre", "post"},
         path   : Path \cup {Null},
         wr     : BOOLEAN,
         follow : BOOLEAN,
         to     : Obj \cup {Null},
         fd     : Fd \cup {Null},
         newfd  : Fd \cup {Null},
         hit    : Obj \cup {Null},
         ret    : Fd \cup {Null}]

Idle == [sc |-> "none", phase |-> "user", path |-> Null, wr |-> FALSE,
         follow |-> FALSE, to |-> Null, fd |-> Null, newfd |-> Null,
         hit |-> Null, ret |-> Null]

\* The partitions that are their own stub, mounted by env_prepare at boot.
OwnStub == {i \in BindRec : Recs[i].stub = Recs[i].rdev}

BindDir == {Recs[i].repl : i \in BindRec}

\* The file systems that are on the stub devices at first: ep_fstab_init has
\* formatted the loop devices, the source partition has its own (auxiliary).
FirstUuid == 1

NoFiles == [f \in Fd |-> <<>>]

NoFds == [f \in Fd |-> Null]

Init ==
    /\ tracer = "running"
    /\ errno = FALSE
    /\ live = Started
    /\ memory = [c \in Child |-> Null]
    /\ tmp = [c \in Child |-> Null]
    /\ handled = [c \in Child |-> FALSE]
    /\ files = [c \in Child |-> NoFiles]
    /\ call = [c \in Child |-> Idle]
    /\ fdt = [t \in Table |-> NoFds]
    /\ node = Node0
    /\ mounted = {Recs[i].repl : i \in OwnStub}
    /\ sb = [s \in Stub |-> mkfs("ext4", 1, FirstUuid)]
    /\ dir = [i \in RecId |-> {}]
    /\ clock = 2
    /\ nextUuid = 2

-----------------------------------------------------------------------------
(***************************************************************************)
(* Helpers                                                                 *)
(***************************************************************************)
\* The tracer can run an entry hook for c.
Ready(c) == tracer = "running" /\ c \in live /\ call[c] = Idle

\* c is at the exit of system call sc.
AtExit(c, S) ==
    tracer = "running" /\ c \in live /\ call[c].phase = "post"
                       /\ call[c].sc \in S

InKernel(c, S) == call[c].phase = "pre" /\ call[c].sc \in S /\ c \in live
                  /\ tracer = "running"

\* The kernel is done: the object it has found and the descriptor returned.
Returns(c, hit, ret) ==
    call' = [call EXCEPT ![c] = [@ EXCEPT !.phase = "post", !.hit = hit,
                                          !.ret = ret]]

Abort == tracer' = "aborted" /\ UNCHANGED <<errno, live, mbc, call, kern, disk>>

Crash == tracer' = "crashed" /\ UNCHANGED <<errno, live, mbc, call, kern, disk>>

\* The failing stat calls of the hooks leave errno behind.
SetErrno(p) == errno' = (ErrnoKept /\ (errno \/ stat(node, p) = Absent))

\* ll_find returns the first entry of the list with the id; ll_add puts a
\* new entry at one end, which end is the library's business (external).
ll_find(c, fd) == Head(files[c][fd])

Tracked(c, fd) == files[c][fd] # <<>>

ll_add(q, fdi) == {Append(q, fdi), <<fdi>> \o q}

\* make_fdinfo dereferences NULL when the file no longer has a record or
\* its record no stub.
make_fdinfo_safe(name) ==
    get_fstab_rec(node, name) # 0 /\ Recs[get_fstab_rec(node, name)].stub # Null

make_fdinfo(name) ==
    LET s == Recs[get_fstab_rec(node, name)].stub
    IN  [filename |-> name, device |-> s, fs_type |-> fstype(sb[s]),
         pdata |-> fs_pre(sb[s]), uuid |-> sb[s].uuid]

\* Bug: nothing is removed.
format_path_nothing(i) == dir

\* rm -Rf <replacement_device>/*: the shell's * leaves the names that begin
\* with a dot and takes every other one with all that lies below it; the
\* directory of the source partition holds those of the other bind records
\* (multiboot_init.c:166-168).  There is nothing in a replacement that is a
\* device.
format_path(i) ==
    [j \in RecId |-> CASE j = i        -> {f \in dir[j] : f.name = "dot"}
                       [] j \in Below[i] -> {}
                       [] OTHER        -> dir[j]]

-----------------------------------------------------------------------------
(***************************************************************************)
(* hook_fileaccess, hook_open and redirect_file_access                     *)
(***************************************************************************)
\* Bug: the access mode is read the wrong way round.
Watch_reads(sc, wr, r) ==
    IF sc \in OpenCall /\ ~wr /\ r # 0 /\ Recs[r].bind THEN r ELSE 0

\* The record that hook_open puts under format detection, 0 if none.
Watch(sc, wr, r) ==
    IF sc \in OpenCall /\ wr /\ r # 0 /\ Recs[r].bind THEN r ELSE 0

\* The argument that redirect_file_access substitutes, Null if none: a link
\* that the call does not resolve is left alone.
Replacement(path, resolve, r) ==
    IF r = 0 \/ (~resolve /\ IsLink(path)) THEN Null
    ELSE IF Recs[r].bind THEN Recs[r].stub ELSE Recs[r].repl

hook_fileaccess_pre(c, sc, p, wr, nofollow, stray) ==
    LET resolve == resolve_symlinks(sc, nofollow, stray)
        path    == get_patharg(node, p, resolve)
        r       == get_fstab_rec(node, path)
        w       == Watch(sc, wr, r)
        to      == Replacement(path, resolve, r)
    IN  /\ Ready(c)
        /\ ~get_patharg_fails(node, p, resolve, errno)
        /\ \* check_fs_nomount, whose failure is ignored
           \/ w = 0 /\ sb' = sb
           \/ w # 0 /\ sb' = sb
           \/ w # 0 /\ sb' = [sb EXCEPT ![Recs[w].stub] = e2fsck(@, clock)]
        /\ handled' = [handled EXCEPT ![c] = IF w # 0 THEN TRUE ELSE @]
        /\ tmp' = [tmp EXCEPT ![c] = IF w # 0 THEN path ELSE @]
        /\ memory' = [memory EXCEPT ![c] = IF to # Null THEN to ELSE @]
        /\ call' = [call EXCEPT ![c] =
                      [Idle EXCEPT !.sc = sc, !.phase = "pre", !.path = p,
                                   !.wr = wr, !.to = to,
                                   !.follow = KernelFollows(sc, nofollow)]]
        /\ SetErrno(p)
        /\ UNCHANGED <<tracer, live, files, kern, dir, clock, nextUuid>>

\* get_patharg has reported an error.
hook_fileaccess_abort(c, sc, p, nofollow, stray) ==
    /\ Ready(c)
    /\ get_patharg_fails(node, p, resolve_symlinks(sc, nofollow, stray), errno)
    /\ Abort

\* copy_patharg or tracy_modify_syscall_args has failed.
hook_fileaccess_nomem(c, sc, p, nofollow, stray) ==
    LET resolve == resolve_symlinks(sc, nofollow, stray)
        path    == get_patharg(node, p, resolve)
    IN  /\ "nomem" \in Workload
        /\ Ready(c)
        /\ ~get_patharg_fails(node, p, resolve, errno)
        /\ Replacement(path, resolve, get_fstab_rec(node, path)) # Null
        /\ Abort

\* The object a call works on: the argument that the hook has substituted, or
\* what the process means by the one it passed.
Target(k) ==
    IF k.to # Null THEN k.to
    ELSE IF k.follow THEN stat(node, Meant[k.path])
    ELSE IF IsLink(Meant[k.path]) THEN Absent ELSE node[Meant[k.path]]

LowestFree(t, f) ==
    fdt[t][f] = Null /\ \A g \in Fd : g < f => fdt[t][g] # Null

\* open and openat succeed.
KernelOpen(c) ==
    /\ InKernel(c, OpenCall)
    /\ Target(call[c]) # Absent
    /\ \E f \in Fd :
         /\ LowestFree(TableOf[c], f)
         /\ fdt' = [fdt EXCEPT ![TableOf[c]][f] =
                      [obj |-> Target(call[c]), wr |-> call[c].wr,
                       made |-> FALSE]]
         /\ Returns(c, Target(call[c]), f)
    /\ UNCHANGED <<tracer, errno, live, mbc, node, mounted, disk>>

\* The other path calls find their object.
KernelPath(c) ==
    /\ InKernel(c, PathCall \ OpenCall)
    /\ Target(call[c]) # Absent
    /\ Returns(c, Target(call[c]), Null)
    /\ UNCHANGED <<tracer, errno, live, mbc, kern, disk>>

\* The kernel returns an error.
KernelError(c) ==
    /\ InKernel(c, PathCall \cup {"mount"})
    /\ Returns(c, Null, Null)
    /\ UNCHANGED <<tracer, errno, live, mbc, kern, disk>>

\* hook_open registers the descriptor that open has returned.
Registers(c) ==
    call[c].sc \in OpenCall /\ handled[c] /\ tmp[c] # Null
                            /\ call[c].ret # Null

\* Bug: mbc->tmp is not reset.
DropTmp_forgotten(c) == tmp

\* The exit hook of open takes the stored path.
DropTmp(c) ==
    IF call[c].sc \in OpenCall /\ handled[c] THEN [tmp EXCEPT ![c] = Null]
    ELSE tmp

hook_fileaccess_post(c) ==
    /\ AtExit(c, PathCall)
    /\ IF Registers(c)
       THEN /\ make_fdinfo_safe(tmp[c])
            /\ Len(files[c][call[c].ret]) < MaxItems
            /\ \E q \in ll_add(files[c][call[c].ret], make_fdinfo(tmp[c])) :
                  files' = [files EXCEPT ![c][call[c].ret] = q]
       ELSE UNCHANGED files
    /\ tmp' = DropTmp(c)
    /\ handled' = [handled EXCEPT ![c] =
                     IF call[c].sc \in OpenCall THEN FALSE ELSE @]
    /\ memory' = [memory EXCEPT ![c] = Null]
    /\ call' = [call EXCEPT ![c] = Idle]
    /\ UNCHANGED <<tracer, errno, live, kern, disk>>

hook_fileaccess_crash(c) ==
    /\ AtExit(c, PathCall)
    /\ Registers(c)
    /\ ~make_fdinfo_safe(tmp[c])
    /\ Crash

-----------------------------------------------------------------------------
(***************************************************************************)
(* hook_close                                                              *)
(***************************************************************************)
\* Bug: every tracked descriptor counts as formatted.
Formatted_always(c, fd) == get_fstab_rec(node, ll_find(c, fd).filename)

\* The record whose directory is emptied at the close of fd, 0 if none.
Formatted(c, fd) ==
    IF fs_was_format(ll_find(c, fd), sb[ll_find(c, fd).device])
    THEN get_fstab_rec(node, ll_find(c, fd).filename) ELSE 0

\* Bug: the entry stays in the list.
ll_del_forgotten(c, fd) == files

\* ll_del removes the entry that ll_find has found.
ll_del(c, fd) == [files EXCEPT ![c][fd] = Tail(@)]

hook_close_pre(c, fd) ==
    /\ Ready(c)
    /\ IF Tracked(c, fd)
       THEN /\ dir' = IF Formatted(c, fd) \in BindRec
                      THEN format_path(Formatted(c, fd)) ELSE dir
            /\ files' = ll_del(c, fd)
       ELSE UNCHANGED <<dir, files>>
    /\ call' = [call EXCEPT ![c] =
                  [Idle EXCEPT !.sc = "close", !.phase = "pre", !.fd = fd]]
    /\ UNCHANGED <<tracer, errno, live, memory, tmp, handled, kern, sb, clock,
                   nextUuid>>

\* The kernel closes; there is nothing to do at the exit.
KernelClose(c) ==
    /\ InKernel(c, {"close"})
    /\ fdt' = [fdt EXCEPT ![TableOf[c]][call[c].fd] = Null]
    /\ call' = [call EXCEPT ![c] = Idle]
    /\ UNCHANGED <<tracer, errno, live, mbc, node, mounted, disk>>

-----------------------------------------------------------------------------
(***************************************************************************)
(* hook_dup (dup, and dup2 which stands for dup3 too) and hook_fcntl       *)
(***************************************************************************)
hook_dup_pre(c, sc, fd, newfd) ==
    /\ sc \in Workload
    /\ Ready(c)
    /\ tmp' = [tmp EXCEPT ![c] =
                 IF Tracked(c, fd) THEN ll_find(c, fd).filename ELSE @]
    /\ call' = [call EXCEPT ![c] =
                  [Idle EXCEPT !.sc = sc, !.phase = "pre", !.fd = fd,
                               !.newfd = newfd]]
    /\ UNCHANGED <<tracer, errno, live, memory, handled, files, kern, disk>>

\* dup takes the lowest free descriptor, dup2 closes the one it is given.
KernelDup(c) ==
    LET t == TableOf[c]
        k == call[c]
    IN  /\ InKernel(c, {"dup", "dup2"})
        /\ fdt[t][k.fd] # Null
        /\ \E f \in Fd :
             /\ k.sc = "dup" => LowestFree(t, f)
             /\ k.sc = "dup2" => f = k.newfd
             /\ fdt' = [fdt EXCEPT ![t][f] = fdt[t][k.fd]]
             /\ Returns(c, Null, f)
        /\ UNCHANGED <<tracer, errno, live, mbc, node, mounted, disk>>

KernelDupError(c) ==
    /\ InKernel(c, {"dup", "dup2"})
    /\ \/ fdt[TableOf[c]][call[c].fd] = Null
       \/ call[c].sc = "dup" /\ \A f \in Fd : fdt[TableOf[c]][f] # Null
    /\ Returns(c, Null, Null)
    /\ UNCHANGED <<tracer, errno, live, mbc, kern, disk>>

hook_dup_post(c) ==
    LET fd == call[c].ret
    IN  /\ AtExit(c, {"dup", "dup2"})
        /\ IF tmp[c] # Null /\ fd # Null
           THEN /\ make_fdinfo_safe(tmp[c])
                /\ Len(files[c][fd]) < MaxItems
                /\ \E q \in ll_add(files[c][fd], make_fdinfo(tmp[c])) :
                      files' = [files EXCEPT ![c][fd] = q]
           ELSE UNCHANGED files
        /\ tmp' = [tmp EXCEPT ![c] = Null]
        /\ call' = [call EXCEPT ![c] = Idle]
        /\ UNCHANGED <<tracer, errno, live, memory, handled, kern, disk>>

hook_dup_crash(c) ==
    /\ AtExit(c, {"dup", "dup2"})
    /\ tmp[c] # Null /\ call[c].ret # Null /\ ~make_fdinfo_safe(tmp[c])
    /\ Crash

\* Any fcntl on a tracked descriptor ends the tracer; on another one the
\* hook does nothing.
hook_fcntl_abort(c, fd) ==
    /\ "fcntl" \in Workload
    /\ Ready(c)
    /\ Tracked(c, fd)
    /\ Abort

-----------------------------------------------------------------------------
(***************************************************************************)
(* hook_mount                                                              *)
(***************************************************************************)
\* The argument that replaces the source of a mount, Null if none.
MountReplacement(path, asec) ==
    LET r == get_fstab_rec(node, path)
    IN  IF asec THEN AsecDir ELSE IF r = 0 THEN Null ELSE Recs[r].repl

\* A mount of p, on /mnt/secure/asec or on another mount point.  Both path
\* arguments are resolved; the mount point exists.
hook_mount_pre(c, p, asec) ==
    LET path == get_patharg(node, p, TRUE)
        to   == MountReplacement(path, asec)
    IN  /\ "mount" \in Workload
        /\ Ready(c)
        /\ ~(ErrnoKept /\ (errno \/ stat(node, p) = Absent))
        /\ memory' = [memory EXCEPT ![c] = IF to # Null THEN to ELSE @]
        /\ call' = [call EXCEPT ![c] =
                      [Idle EXCEPT !.sc = "mount", !.phase = "pre",
                                   !.path = p, !.follow = TRUE, !.to = to]]
        /\ SetErrno(p)
        /\ UNCHANGED <<tracer, live, tmp, handled, files, kern, disk>>

\* The source is NULL, as in many a remount, or get_patharg reports an error
\* because of errno, or copy_patharg fails.
hook_mount_abort(c, p, asec) ==
    /\ "mount" \in Workload
    /\ Ready(c)
    /\ \/ "nullsource" \in Workload
       \/ ErrnoKept /\ (errno \/ stat(node, p) = Absent)
       \/ "nomem" \in Workload
          /\ MountReplacement(get_patharg(node, p, TRUE), asec) # Null
    /\ Abort

\* The mount of a bind record has become one of a directory (MS_BIND), which
\* the kernel makes whoever has the stub device open.
KernelMount(c) ==
    LET o == Target(call[c])
    IN  /\ InKernel(c, {"mount"})
        /\ o # Absent
        /\ mounted' = mounted \cup ({o} \cap BindDir)
        /\ Returns(c, o, Null)
        /\ UNCHANGED <<tracer, errno, live, mbc, fdt, node, disk>>

\* Bug: the copied path is not freed at the exit.
hook_mount_post_leak(c) ==
    /\ AtExit(c, {"mount"})
    /\ call' = [call EXCEPT ![c] = Idle]
    /\ UNCHANGED <<tracer, errno, live, mbc, kern, disk>>

hook_mount_post(c) ==
    /\ AtExit(c, {"mount"})
    /\ memory' = [memory EXCEPT ![c] = Null]
    /\ call' = [call EXCEPT ![c] = Idle]
    /\ UNCHANGED <<tracer, errno, live, tmp, handled, files, kern, disk>>

-----------------------------------------------------------------------------
(***************************************************************************)
(* Children come and go                                                    *)
(***************************************************************************)
\* clone: tracy calls multiboot_child_create and fsr_tracy_child_create for
\* the new child, whose list of files is empty.
ChildCreate(c, d) ==
    /\ "clone" \in Workload
    /\ Ready(c)
    /\ d \in Child \ live
    /\ \A e \in live : TableOf[e] = TableOf[d] => TableOf[c] = TableOf[d]
    /\ live' = live \cup {d}
    /\ memory' = [memory EXCEPT ![d] = Null]
    /\ tmp' = [tmp EXCEPT ![d] = Null]
    /\ handled' = [handled EXCEPT ![d] = FALSE]
    /\ files' = [files EXCEPT ![d] = NoFiles]
    /\ call' = [call EXCEPT ![d] = Idle]
    /\ fdt' = [fdt EXCEPT ![TableOf[d]] = fdt[TableOf[c]]]
    /\ UNCHANGED <<tracer, errno, node, mounted, disk>>

\* Exit or kill, at any point: fsr_tracy_child_destroy frees the list, with
\* a warning for every entry; the last user of a table closes it.
ChildDestroy(c) ==
    /\ "exit" \in Workload
    /\ tracer = "running"
    /\ c \in live
    /\ live' = live \ {c}
    /\ memory' = [memory EXCEPT ![c] = Null]
    /\ tmp' = [tmp EXCEPT ![c] = Null]
    /\ handled' = [handled EXCEPT ![c] = FALSE]
    /\ files' = [files EXCEPT ![c] = NoFiles]
    /\ call' = [call EXCEPT ![c] = Idle]
    /\ fdt' = IF \E d \in live \ {c} : TableOf[d] = TableOf[c] THEN fdt
              ELSE [fdt EXCEPT ![TableOf[c]] = NoFds]
    /\ UNCHANGED <<tracer, errno, node, mounted, disk>>

-----------------------------------------------------------------------------
(***************************************************************************)
(* The traced processes and the world around them (external)               *)
(***************************************************************************)
\* mkfs, or an erase if fs is "none", through descriptor f.  That the directory
\* which stands for the device is mounted does not keep it from being written.
\* A run of mkfs takes a second unless "fast" is in the workload.
Mkfs(c, f, fs) ==
    LET s == fdt[TableOf[c]][f].obj
    IN  /\ Ready(c)
        /\ fdt[TableOf[c]][f] # Null
        /\ fdt[TableOf[c]][f].wr
        /\ s \in Stub
        /\ fs # "none" => nextUuid <= MaxUuid /\ clock < MaxClock
        /\ sb' = [sb EXCEPT ![s] = IF fs = "none" THEN Blank
                                   ELSE mkfs(fs, clock, nextUuid)]
        /\ nextUuid' = IF fs = "none" THEN nextUuid ELSE nextUuid + 1
        /\ clock' = IF fs = "none" \/ "fast" \in Workload THEN clock
                    ELSE clock + 1
        /\ fdt' = [fdt EXCEPT ![TableOf[c]][f] = [@ EXCEPT !.made = TRUE]]
        /\ UNCHANGED <<tracer, errno, live, mbc, call, node, mounted, dir>>

\* An open file through which stub device s was formatted.
Held(s) ==
    \E t \in Table, f \in Fd :
        fdt[t][f] # Null /\ fdt[t][f].made /\ fdt[t][f].obj = s

\* A process writes a file into a mounted bind directory.
WriteFile(i, name) ==
    /\ tracer = "running"
    /\ Recs[i].repl \in mounted
    /\ dir' = [dir EXCEPT ![i] =
                 @ \cup {[uuid |-> sb[Recs[i].stub].uuid, name |-> name,
                          held |-> Held(Recs[i].stub)]}]
    /\ UNCHANGED <<tracer, errno, live, mbc, call, kern, sb, clock, nextUuid>>

\* A process unmounts a bind directory; nobody writes into it until a mount.
Umount(i) ==
    /\ tracer = "running"
    /\ "umount" \in Workload
    /\ i \notin OwnStub
    /\ Recs[i].repl \in mounted
    /\ mounted' = mounted \ {Recs[i].repl}
    /\ UNCHANGED <<tracer, errno, live, mbc, call, fdt, node, disk>>

Tick ==
    /\ tracer = "running"
    /\ clock < MaxClock
    /\ clock' = clock + 1
    /\ UNCHANGED <<tracer, errno, live, mbc, call, kern, sb, dir, nextUuid>>

SetBack ==
    /\ tracer = "running"
    /\ "setback" \in Workload
    /\ clock > 1
    /\ clock' = clock - 1
    /\ UNCHANGED <<tracer, errno, live, mbc, call, kern, sb, dir, nextUuid>>

\* A device goes away or comes back, and its node with it.
Replug(p) ==
    /\ tracer = "running"
    /\ node' = [node EXCEPT ![p] = IF @ = Absent THEN Node0[p] ELSE Absent]
    /\ UNCHANGED <<tracer, errno, live, mbc, call, fdt, mounted, disk>>

-----------------------------------------------------------------------------
HookPre(c) ==
    \/ \E sc \in Syscalls, p \in Path, nofollow, stray \in BOOLEAN :
          \/ \E wr \in IF sc \in OpenCall THEN BOOLEAN ELSE {FALSE} :
                hook_fileaccess_pre(c, sc, p, wr, nofollow, stray)
          \/ hook_fileaccess_abort(c, sc, p, nofollow, stray)
          \/ hook_fileaccess_nomem(c, sc, p, nofollow, stray)
    \/ \E fd \in Fd :
          \/ hook_close_pre(c, fd)
          \/ hook_dup_pre(c, "dup", fd, Null)
          \/ \E newfd \in Fd : hook_dup_pre(c, "dup2", fd, newfd)
          \/ hook_fcntl_abort(c, fd)
    \/ \E p \in Path, asec \in BOOLEAN :
          hook_mount_pre(c, p, asec) \/ hook_mount_abort(c, p, asec)

Kernel(c) ==
    \/ KernelOpen(c) \/ KernelPath(c) \/ KernelError(c) \/ KernelClose(c)
    \/ KernelDup(c) \/ KernelDupError(c) \/ KernelMount(c)

HookPost(c) ==
    \/ hook_fileaccess_post(c) \/ hook_fileaccess_crash(c)
    \/ hook_dup_post(c) \/ hook_dup_crash(c)
    \/ hook_mount_post(c)

Environment ==
    \/ \E c \in Child, f \in Fd, fs \in FsTypes : Mkfs(c, f, fs)
    \/ \E i \in BindRec, name \in Names : WriteFile(i, name)
    \/ \E i \in BindRec : Umount(i)
    \/ Tick
    \/ SetBack
    \/ \E p \in Removable : Replug(p)

Next ==
    \/ \E c \in Child : HookPre(c) \/ Kernel(c) \/ HookPost(c)
    \/ \E c, d \in Child : ChildCreate(c, d)
    \/ \E c \in Child : ChildDestroy(c)
    \/ Environment

Spec == Init /\ [][Next]_vars

-----------------------------------------------------------------------------
(***************************************************************************)
(* Properties                                                              *)
(***************************************************************************)
\* Type invariant: the state of the tracer, of the kernel and of the disks.
TypeOK ==
    /\ tracer \in {"running", "aborted", "crashed"}
    /\ errno \in BOOLEAN
    /\ live \subseteq Child
    /\ memory \in [Child -> Obj \cup {Null}]
    /\ tmp \in [Child -> Path \cup {Null}]
    /\ handled \in [Child -> BOOLEAN]
    /\ files \in [Child -> [Fd -> Seq(FdInfo)]]
    /\ call \in [Child -> Call]
    /\ fdt \in [Table -> [Fd -> OpenFile \cup {Null}]]
    /\ node \in [Path -> Obj \cup {Absent}]
    /\ mounted \subseteq BindDir
    /\ sb \in [Stub -> Superblock]
    /\ dir \in [RecId -> SUBSET File]
    /\ clock \in Nat
    /\ nextUuid \in Nat

\* The scratch fields of multiboot_child_data (memory, tmp, handled_by_open)
\* are shared by all hooks.  What one of them holds belongs to the system
\* call in flight: the copied path exists exactly while a redirected call
\* runs, and no hook finds a name or a flag that another call left behind.
ScratchBelongsToCall ==
    \A c \in Child :
        /\ memory[c] = call[c].to
        /\ handled[c] => call[c].sc \in OpenCall
        /\ tmp[c] # Null => handled[c] \/ call[c].sc \in {"dup", "dup2"}

\* A is true of every entry of the lists.
ForEachEntry(A(_)) ==
    \A c \in Child, f \in Fd :
        \A k \in 1..Len(files[c][f]) : A(files[c][f][k])

\* A descriptor is never taken for the one of a formatted device while the
\* file system is still the one of the snapshot: fs_was_format must not
\* answer to what e2fsck or another process's open does to the super block.
NoFalseAlarm ==
    ForEachEntry(LAMBDA x : fs_was_format(x, sb[x.device])
                                => sb[x.device].uuid # x.uuid)

\* The converse: once a file system was made or erased, every descriptor
\* that was registered before shows it when it is closed.
DetectsFormat ==
    ForEachEntry(LAMBDA x : sb[x.device].uuid # x.uuid
                                => fs_was_format(x, sb[x.device]))

\* Between two system calls of a process its list holds exactly the
\* descriptors through which it can write to a stub device, once each and
\* under the right device.
TracksWhatIsOpen ==
    \A c \in live, f \in Fd :
        call[c] = Idle =>
            LET o == fdt[TableOf[c]][f]
                Writable == o # Null /\ o.wr /\ o.obj \in Stub
            IN  /\ Tracked(c, f) <=> Writable
                /\ Writable => /\ Len(files[c][f]) = 1
                               /\ ll_find(c, f).device = o.obj

\* The devices that a guest must not reach: those of the records whose
\* replacement is another object.
Protected == {Recs[i].rdev : i \in {j \in RecId : Recs[j].multiboot} \ OwnStub}

\* The names that lead the tracer to the file that the process means, as
\* absolute names do in a process that has the tracer's root.
PlainName == {p \in Path : Meant[p] = p}

\* No hooked system call of a traced process reaches a partition that has a
\* replacement by a name that means the same to the tracer: the name of the
\* record, a link to it or another node of the device.  By a name relative to
\* another directory, with a dirfd or in another root it does.
Isolation ==
    \A c \in Child :
        call[c].phase = "post" /\ call[c].path \in PlainName
            => call[c].hit \notin Protected

\* System calls on regular files and directories are never redirected, again
\* by a name that means the same to the tracer.
PlainFilesKept ==
    \A c \in Child :
        (call[c].sc \in PathCall /\ call[c].path \in PlainName
             /\ stat(node, call[c].path) \in Plain)
            => call[c].to = Null

\* make_fdinfo never meets a file without a record or a record without stub
\* device, although it looks the name up again after the kernel has run.
NoCrash == tracer # "crashed"

\* A file that was written into the present file system of a stub device stays
\* until another file system is made.  Two things else take it away: it was
\* written before the descriptor of mkfs was closed, whose close then comes too
\* late for it; or its directory lies in that of a device which was formatted.
LiveFilesKept ==
    [][\A i \in BindRec : \A f \in dir[i] \ dir'[i] :
          \/ f.uuid # sb[Recs[i].stub].uuid
          \/ f.held
          \/ \E j \in BindRec : /\ i \in Below[j]
                                /\ sb[Recs[j].stub].uuid # FirstUuid]_vars

\* No descriptor can write to stub device s.
Quiet(s) ==
    \A t \in Table, f \in Fd :
        fdt[t][f] # Null /\ fdt[t][f].wr => fdt[t][f].obj # s

\* Once the last descriptor is closed the bind directory shows what the
\* guest made of its device: every file in it was written into the file
\* system that is on the stub device now.
Mirrored ==
    \A i \in BindRec :
        Quiet(Recs[i].stub) =>
            \A f \in dir[i] : f.uuid = sb[Recs[i].stub].uuid

\* The same of the files that were not written between a mkfs and its close,
\* where erasing a device is allowed too: an erase does not show in a
\* descriptor that was opened on a blank device, whatever was made and written
\* in between.
SettledMirrored ==
    \A i \in BindRec :
        Quiet(Recs[i].stub) =>
            \A f \in dir[i] : f.held \/ f.uuid = sb[Recs[i].stub].uuid
=============================================================================
