------------------------------ MODULE FstabFile ------------------------------
(***************************************************************************)
(* Tables of file systems: reading a file into records and the lookup by   *)
(* mount point (lib/fs_mgr/fs_mgr.c), and writing a record                 *)
(* (modules/fstab_patcher.c).                                              *)
(*                                                                         *)
(* A file is a sequence of rows without its comments, a row a sequence of  *)
(* columns.  A column of options is a sequence of options, one of fs_mgr   *)
(* flags a set; a mount point is the sequence of its components.           *)
(***************************************************************************)
EXTENDS Naturals, Sequences

Defaults == <<"defaults">>

\* Columns of a row: block device, mount point, type, options, flags.
AndroidRow(blk, mnt, fs, opts, flags) == <<blk, mnt, fs, opts, flags>>

\* A row of a TWRP table; what follows the block device is kept unhandled.
TwrpRow(mnt, fs, blk, more) == <<mnt, fs, blk>> \o more

\* The part of struct fstab_rec that the parser fills.
Parsed(blk, mnt, fs, opts, flags, more) ==
    [blk |-> blk, mnt |-> mnt, fs |-> fs, opts |-> opts, flags |-> flags,
     more |-> more]

ParseAndroid(row) == Parsed(row[1], row[2], row[3], row[4], row[5], <<>>)

\* The options and flags of a TWRP record are not read.
ParseTwrp(row) ==
    Parsed(row[3], row[1], row[2], Defaults, {"defaults"},
           SubSeq(row, 4, Len(row)))

Columns(twrp) == IF twrp THEN 3 ELSE 5

\* do_fs_mgr_read_fstab gives a table or NULL: one row that is too short, or
\* no row at all, and there is none.
Readable(file, twrp) ==
    /\ file # <<>>
    /\ \A i \in 1..Len(file) : Len(file[i]) >= Columns(twrp)

do_fs_mgr_read_fstab(file, twrp) ==
    [i \in 1..Len(file) |-> IF twrp THEN ParseTwrp(file[i])
                            ELSE ParseAndroid(file[i])]

-----------------------------------------------------------------------------
\* MF_MULTIBOOT and MF_NOEMULATEDSD are the same bit.
MF_MULTIBOOT == {"multiboot", "noemulatedsd"}

fs_mgr_is_multiboot(rec) == rec.flags \cap MF_MULTIBOOT # {}

\* The root directory is a prefix of no other path: the character after it is
\* not a slash.
Below(mnt, path) ==
    \/ mnt = path
    \/ /\ mnt # <<>> /\ Len(mnt) < Len(path)
       /\ SubSeq(path, 1, Len(mnt)) = mnt

\* The first record whose mount point is `path` or a directory above it, 0 for
\* NULL.
fs_mgr_get_entry_for_mount_point(recs, path) ==
    LET S == {i \in 1..Len(recs) : Below(recs[i].mnt, path)}
    IN  IF S = {} THEN 0 ELSE CHOOSE i \in S : \A j \in S : i <= j

-----------------------------------------------------------------------------
Column(x, empty) == IF x = empty THEN <<>> ELSE <<x>>

\* file_write_fstabrec; a TWRP row leaves out what is "defaults".
file_write_fstabrec(twrp, blk, mnt, fs, opts, flags, more) ==
    IF twrp
    THEN <<mnt, fs, blk>> \o Column(opts, Defaults)
                          \o Column(flags, {"defaults"}) \o more
    ELSE <<blk, mnt, fs, opts, flags>>
=============================================================================
