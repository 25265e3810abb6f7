--------------------------- MODULE FormatDetect ----------------------------
(***************************************************************************)
(* Detection that a stub device was formatted: lib/fs/fs.c and             *)
(* lib/fs/fstypes/ext2.c.  A snapshot of the super block is taken when a   *)
(* descriptor is registered and compared when it is closed.                *)
(*                                                                         *)
(* Of a super block the model keeps the file system type that blkid finds, *)
(* s_mkfs_time and s_lastcheck.  `uuid` is auxiliary: it tells two file    *)
(* systems apart, which the code has no direct way to do.                  *)
(***************************************************************************)
EXTENDS Naturals

CONSTANT NoData   \* fs_pdata = NULL

FsType == {"ext4", "f2fs"}

Superblock == [fs    : FsType \cup {"none"},
               mkfs  : Nat,
               check : Nat,
               uuid  : Nat]

Blank == [fs |-> "none", mkfs |-> 0, check |-> 0, uuid |-> 0]

\* Bug: no default for a device without a file system.
fstype_unprobed(s) == s.fs

\* get_fstype; a device on which no file system is found counts as ext4
\* (fs.c:19-20, fs_redirection.c:141-142).
fstype(s) == IF s.fs = "none" THEN "ext4" ELSE s.fs

Pdata == [mkfs : Nat, check : Nat]

\* The part of struct fd_info that belongs to the detection.
Snapshot == [fs_type : FsType, pdata : Pdata \cup {NoData}]

ext2_pre(s) == [mkfs |-> s.mkfs, check |-> s.check]

\* Only ext4 has a handler; any other type is left without data.
fs_pre(s) == IF fstype(s) = "ext4" THEN ext2_pre(s) ELSE NoData

\* Bug: a check time that differs counts as a format.
ext2_was_format_check_differs(pre, s) ==
    s.mkfs > pre.mkfs \/ s.check # pre.check

\* Bug: only a check time that went back counts as a format.
ext2_was_format_check_only(pre, s) == s.check < pre.check

\* Bug: the blank device is not told from the formatted one.
ext2_was_format_mkfs_only(pre, s) == s.mkfs > pre.mkfs

ext2_was_format(pre, s) ==
    \/ s.mkfs > pre.mkfs
    \/ s.check < pre.check

fs_was_format(fdi, s) ==
    \/ fdi.fs_type # fstype(s)
    \/ /\ fdi.fs_type = fstype(s)
       /\ fstype(s) = "ext4"
       /\ fdi.pdata # NoData
       /\ ext2_was_format(fdi.pdata, s)

-----------------------------------------------------------------------------
\* e2fsck -fy writes the time of the check; it does nothing where there is
\* no ext4 (external: /multiboot/sbin/e2fsck).
e2fsck(s, now) == IF s.fs = "ext4" THEN [s EXCEPT !.check = now] ELSE s

\* mkfs writes both times and a new identity (external).
mkfs(fs, now, id) == [fs |-> fs, mkfs |-> now, check |-> now, uuid |-> id]
=============================================================================
