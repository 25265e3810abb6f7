---------------------------- MODULE FstabLookup ----------------------------
(***************************************************************************)
(* The lookup that decides which system calls of a traced process are      *)
(* redirected: get_patharg (util.c), the info table and hook_fileaccess,   *)
(* fstab_rec_matches and get_fstab_rec (modules/fs_redirection.c), over    *)
(* the records that load_multiboot_fstab and prepare_fstab                 *)
(* (multiboot_init.c) have filled.                                         *)
(*                                                                         *)
(* A file system object is a block device or a plain object (a regular     *)
(* file or a directory).  A path names an object through the table `n`,    *)
(* an argument of the operators, because nodes come and go at run time.    *)
(*                                                                         *)
(* The hooks run in the tracer: they stat and resolve the text of a path   *)
(* argument with the working directory and the root of the tracer, and     *)
(* never look at the dirfd of openat and its like (util.c:216-221,         *)
(* fs_redirection.c:96).  So `n` and Link say what a name leads to for the *)
(* tracer.  The kernel resolves it for the process; Meant[p] is the name   *)
(* by which the tracer would find the same file.  It is p for an absolute  *)
(* name in the same root, and may be any other name where p is relative to *)
(* another directory or the process has another root.                      *)
(***************************************************************************)
EXTENDS Naturals, Sequences

CONSTANTS
    Path,     \* path names a process passes to a system call
    Link,     \* Link[p] is where the symbolic link p leads, p if it is none
    Meant,    \* Meant[p] is the file that the process means by p: see below
    Dev,      \* block devices
    Plain,    \* regular files and directories; their st_rdev is 0
    NoRdev,   \* the st_rdev 0
    Absent,   \* what a path names that does not exist
    Null,     \* the C NULL
    Recs      \* the records in the order in which get_fstab_rec tries them

Obj == Dev \cup Plain

\* struct fstab_rec: blk_device, statbuf.st_rdev, whether get_fstab_rec looks
\* at it at all, replacement_bind, stub_device and replacement_device.
FstabRec == [blk       : Path,
             rdev      : Dev \cup {NoRdev},
             multiboot : BOOLEAN,
             bind      : BOOLEAN,
             stub      : Dev \cup {Null},
             repl      : Obj]

ASSUME PathAssumption ==
    /\ Link \in [Path -> Path]
    /\ \A p \in Path : Link[Link[p]] = Link[p]
    /\ Meant \in [Path -> Path]
    /\ Dev \cap Plain = {}
    /\ NoRdev \notin Dev
    /\ Absent \notin Obj
    /\ Null \notin Obj \cup Path

\* Bind records, and only they, have a stub device (multiboot_init.c:160-191).
ASSUME RecsAssumption ==
    /\ Recs \in Seq(FstabRec)
    /\ \A i \in 1..Len(Recs) :
          /\ Recs[i].bind <=> Recs[i].stub # Null
          /\ Recs[i].bind => Recs[i].repl \in Plain
          /\ ~Recs[i].bind => Recs[i].repl \in Dev

RecId == 1..Len(Recs)

BindRec == {i \in RecId : Recs[i].bind}

\* The stub devices: loop devices, and the source and grub partitions, which
\* are their own stubs.
Stub == {Recs[i].stub : i \in BindRec}

-----------------------------------------------------------------------------
\* stat(2) of the tracer, which follows links; st_rdev is 0 for what is not a
\* device.
stat(n, p) == n[Link[p]]

st_rdev(o) == IF o \in Dev THEN o ELSE NoRdev

\* Bug: only the device number is compared, so a node that is gone (an SD
\* card pulled out) no longer matches its record by name.
fstab_rec_matches_stat_only(n, name, rec) ==
    stat(n, name) # Absent /\ st_rdev(stat(n, name)) = rec.rdev

\* Bug: only the canonical name is compared.
fstab_rec_matches_name_only(n, name, rec) == name = rec.blk

fstab_rec_matches(n, name, rec) ==
    \/ stat(n, name) # Absent /\ st_rdev(stat(n, name)) = rec.rdev
    \/ name = rec.blk

\* Bug: fs_mgr_is_multiboot is not asked.
Matching_all(n, name) ==
    {i \in RecId : fstab_rec_matches(n, name, Recs[i])}

\* The indices of the records that match.
Matching(n, name) ==
    {i \in RecId : Recs[i].multiboot /\ fstab_rec_matches(n, name, Recs[i])}

\* The first record that matches, 0 for NULL.
get_fstab_rec(n, name) ==
    IF Matching(n, name) = {} THEN 0
    ELSE CHOOSE i \in Matching(n, name) :
             \A j \in Matching(n, name) : i <= j

-----------------------------------------------------------------------------
\* A path argument as the hooks see it: with `real` the link is resolved,
\* provided that the path exists for the tracer.
get_patharg(n, p, real) ==
    IF real /\ stat(n, p) # Absent THEN Link[p] ELSE p

\* realpath succeeded, yet an errno left by an earlier call makes the
\* function report an error (`&& !errno`).
get_patharg_fails(n, p, real, errno) ==
    real /\ stat(n, p) # Absent /\ errno

IsLink(p) == Link[p] # p

-----------------------------------------------------------------------------
(***************************************************************************)
(* The info table.  `nofollow` is the flag the process passes where the    *)
(* system call takes one; `stray` is the bit the hook finds in an argument *)
(* that is not that flag: the mode of openat, and the fourth register of   *)
(* faccessat and fchmodat, which take three arguments.                     *)
(***************************************************************************)
OpenCall == {"open", "openat"}

ResolveRow == {"stat", "newstat", "stat64", "chown", "chown16"}

PlainRow == {"lstat", "newlstat", "lstat64", "chmod", "access", "lchown",
             "lchown16", "utime", "utimes", "futimesat"}

FlagRow == {"fchownat", "newfstatat", "fstatat64", "utimensat"}

StrayRow == {"faccessat", "fchmodat"}

PathCall == OpenCall \cup ResolveRow \cup PlainRow \cup FlagRow \cup StrayRow

\* Bug: O_NOFOLLOW of open is not looked at, the row's default is used.
resolve_symlinks_open_row(sc, nofollow, stray) ==
    CASE sc \in OpenCall \cup ResolveRow -> sc # "open"
      [] sc \in PlainRow                 -> FALSE
      [] sc \in FlagRow                  -> ~nofollow
      [] OTHER                           -> ~stray

resolve_symlinks(sc, nofollow, stray) ==
    CASE sc \in ResolveRow            -> TRUE
      [] sc \in PlainRow              -> FALSE
      [] sc \in FlagRow \cup {"open"} -> ~nofollow
      [] OTHER                        -> ~stray

\* What the kernel does with a link in the last component.
KernelFollows(sc, nofollow) ==
    CASE sc \in {"lstat", "newlstat", "lstat64", "lchown", "lchown16"} -> FALSE
      [] sc \in OpenCall \cup FlagRow -> ~nofollow
      [] OTHER -> TRUE
=============================================================================
