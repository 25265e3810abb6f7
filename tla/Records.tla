------------------------------- MODULE Records -------------------------------
(***************************************************************************)
(* How setup (multiboot_init.c) comes by the records that decide what is   *)
(* redirected, and by the tables the guest mounts from: the parameters of  *)
(* the command line, the block devices, the multiboot fstab, the guest's   *)
(* fstabs, the translation of their paths, and the lines that              *)
(* fstab_patcher writes.                                                   *)
(*                                                                         *)
(* sysfs and the root directory are read in any order.  What two           *)
(* uninitialised numbers hold is one of Junk.                              *)
(***************************************************************************)
EXTENDS BlockDevices, FstabFile, FiniteSets

CONSTANTS
    Cmdlines,   \* the command lines, as sequences of parameters
    BootModes,  \* BOOTMODE_ANDROID and BOOTMODE_RECOVERY, or one of them
    SysBlock,   \* the devices in /sys/class/block
    MbFiles,    \* the contents of the multiboot fstab
    RootDirs,   \* sets of the files that can hold a table, and what they are
    Content,    \* Content[f]: the fstab of the guest in file f
    Junk,       \* what two uninitialised unsigned numbers can be
    RcJunk,     \* whether the uninitialised rc can look like an error
    MayFail     \* the operations that can fail: "uevent", "write"

\* struct fstab_rec: what the parser has read, and what setup adds.
Rec(parsed, rdev, bind, repl, stub) ==
    [blk |-> parsed.blk, mnt |-> parsed.mnt, fs |-> parsed.fs,
     opts |-> parsed.opts, flags |-> parsed.flags, more |-> parsed.more,
     rdev |-> rdev, bind |-> bind, repl |-> repl, stub |-> stub]

Source == Directory(<<"multiboot", "mnt", "source">>)
Grub   == Directory(<<"multiboot", "mnt", "grub">>)

\* The kernel gives every device its own name and number, and a table is a
\* sequence of rows.
ASSUME SysBlockAssumption ==
    \A d, e \in SysBlock :
        /\ d.devname # Null
        /\ d.devname.kind = "mmc" => d.devname = MmcPath(d.devname.part)
        /\ d.devname = e.devname \/ d.rdev = e.rdev => d = e

ASSUME MbFilesAssumption ==
    \A f \in MbFiles : Len(f) \in Nat /\ \A i \in 1..Len(f) :
                                           LoopPath(256 - i) # Null

IsSequence(s) == Len(s) \in Nat /\ s = [i \in 1..Len(s) |-> s[i]]

\* What scans names a device.
ASSUME CmdlineAssumption ==
    \A c \in Cmdlines :
        /\ IsSequence(c)
        /\ \A i \in 1..Len(c) :
              c[i].key \in {"multiboot.source", "multiboot.grubdir"}
              /\ c[i].scans => c[i].dir # Null /\ MmcPath(c[i].part) # Null

FSTAB_RECOVERY == "recovery.fstab"

\* Of the files that find_fstab reads it is known what is in them: rows, with
\* options where they are rows of Android's.
ASSUME ContentAssumption ==
    /\ \A e \in UNION RootDirs :
          e.name = FSTAB_RECOVERY \/ (e.regular /\ e.fstab) =>
              e.name \in DOMAIN Content \cup {"fstab.goldfish"}
    /\ \A f \in DOMAIN Content :
          /\ IsSequence(Content[f])
          /\ \A k \in 1..Len(Content[f]) :
                /\ IsSequence(Content[f][k])
                /\ Readable(Content[f], FALSE) =>
                      Content[f][k][4] \in Seq(STRING) \ {<<>>}

\* A directory has one file of a name.
ASSUME RootDirsAssumption ==
    \A R \in RootDirs : \A e, f \in R : e.name = f.name => e = f

\* The directory of a mount point in the multiboot tree on the source
\* partition.
Tree(path, mnt) == Directory(Source.dir \o path \o mnt)

VARIABLES
    pc,        \* the stage of setup
    mode,      \* the boot mode
    params,    \* the parameters not yet imported
    md,        \* what import_kernel_nv sets in module_data
    unread,    \* the devices that readdir has not yet returned
    info,      \* the entries of block_info, in the order of readdir
    grubinfo,  \* grub_blockinfo, an index of info, 0 for NULL
    mbfile,    \* the rows of the file that holds the multiboot fstab
    mb,        \* multiboot_fstab
    own,       \* multiboot_device and grub_device, Null before prepare_fstab
    unlisted,  \* the files that find_fstab has not come to
    tables,    \* target_fstabs
    at,        \* the table and the record that patch_fstab has come to
    file       \* the rows of the guest's fstab files now

disk == <<mbfile, file>>
vars == <<pc, mode, params, md, unread, info, grubinfo, mb, own, unlisted,
          tables, at, disk>>

NoParams == [multiboot |-> FALSE, path |-> Null, dev |-> Null,
             grubpath |-> Null, grubdev |-> Null, sndstage |-> FALSE]

NoOwn == [source |-> Null, grub |-> Null]

Init ==
    /\ pc = "cmdline"
    /\ mode \in BootModes
    /\ params \in Cmdlines
    /\ md = NoParams
    /\ unread = SysBlock
    /\ info = <<>>
    /\ grubinfo = 0
    /\ mbfile \in MbFiles
    /\ mb = <<>>
    /\ own = NoOwn
    /\ unlisted \in RootDirs
    /\ tables = <<>>
    /\ at = <<1, 1>>
    /\ file = Content

-----------------------------------------------------------------------------
(***************************************************************************)
(* The command line                                                        *)
(***************************************************************************)
\* Bug: the path is not kept.
SourceSet_no_path(p) ==
    [md EXCEPT !.multiboot = TRUE, !.dev = MmcPath(p.part)]

SourceSet(p) ==
    [md EXCEPT !.multiboot = TRUE, !.path = p.dir, !.dev = MmcPath(p.part)]

\* import_kernel_nv for one parameter.  A value that does not scan changes
\* nothing; the grub branch looks at an rc that nobody has set, and may take
\* back its path before it has set the device.
ImportParam ==
    /\ pc = "cmdline" /\ params # <<>>
    /\ params' = Tail(params)
    /\ LET p == Head(params) IN
       \/ /\ p.key = "multiboot.source" /\ p.scans
          /\ md' = SourceSet(p)
       \/ /\ p.key = "multiboot.grubdir" /\ p.scans
          /\ \/ md' = [md EXCEPT !.grubpath = p.dir,
                                 !.grubdev = MmcPath(p.part)]
             \/ RcJunk /\ md' = [md EXCEPT !.grubpath = Null]
       \/ /\ p.key = "multiboot.2ndstage" /\ p.scans
          /\ md' = [md EXCEPT !.sndstage = p.val # 0]
       \/ /\ ~p.scans
          /\ UNCHANGED md
    /\ UNCHANGED <<pc, mode, unread, info, grubinfo, mb, own, unlisted, tables,
                   at, disk>>

\* A boot without multiboot and without second stage reads no tables.
CmdlineEnds ==
    /\ pc = "cmdline" /\ params = <<>>
    /\ pc' = IF md.multiboot \/ md.sndstage THEN "blocks" ELSE "plain"
    /\ UNCHANGED <<mode, params, md, unread, info, grubinfo, mb, own, unlisted,
                   tables, at, disk>>

-----------------------------------------------------------------------------
(***************************************************************************)
(* Block devices                                                           *)
(***************************************************************************)
\* A round of get_block_devices; a file that cannot be opened is passed over.
ReadUevent(d) ==
    /\ pc = "blocks" /\ d \in unread
    /\ unread' = unread \ {d}
    /\ \/ info' = Append(info, add_uevent_entry(d))
       \/ "uevent" \in MayFail /\ UNCHANGED info
    /\ UNCHANGED <<pc, mode, params, md, grubinfo, mb, own, unlisted, tables,
                   at, disk>>

HasGrub == md.grubpath # Null /\ md.grubdev # Null

\* grub_blockinfo, and ep_early_init of env_prepare, which mounts the grub and
\* the source partition from their nodes; without multiboot.source there is
\* nothing to mount.
EarlyInit ==
    /\ pc = "blocks" /\ unread = {}
    /\ grubinfo' = IF HasGrub
                   THEN get_blockinfo_for_path(info, md.grubdev, Null) ELSE 0
    /\ pc' = IF /\ HasGrub => grubinfo' # 0 /\ md.grubdev \in Nodes(info)
                /\ md.dev \in Nodes(info)
             THEN "mbfstab" ELSE "failed"
    /\ UNCHANGED <<mode, params, md, unread, info, mb, own, unlisted, tables,
                   at, disk>>

-----------------------------------------------------------------------------
(***************************************************************************)
(* Tables                                                                  *)
(***************************************************************************)
BindType == {"ext2", "ext3", "ext4", "f2fs"}

\* make_loop counts the minors down from 255; mknod fails where a device of
\* the kernel has the name.
Loop(i) == LoopPath(256 - i)

\* Bug: all records get the same loop device.
Replaced_one_loop(i, r) ==
    IF r.fs \in BindType
    THEN Rec(r, NoRdev, TRUE, Tree(md.path, r.mnt), Loop(1))
    ELSE Rec(r, NoRdev, FALSE, Loop(1), Null)

\* The replacement of record i, with or without the multiboot flag.
Replaced(i, r) ==
    IF r.fs \in BindType
    THEN Rec(r, NoRdev, TRUE, Tree(md.path, r.mnt), Loop(i))
    ELSE Rec(r, NoRdev, FALSE, Loop(i), Null)

LoadMultibootFstab ==
    /\ pc = "mbfstab"
    /\ \/ /\ Readable(mbfile, FALSE)
          /\ LET recs == do_fs_mgr_read_fstab(mbfile, FALSE)
             IN  /\ mb' = [i \in 1..Len(recs) |-> Replaced(i, recs[i])]
                 /\ pc' = IF \E i \in 1..Len(recs) : Loop(i) \in Nodes(info)
                          THEN "failed" ELSE "fstabs"
       \/ /\ ~Readable(mbfile, FALSE)
          /\ pc' = "failed" /\ UNCHANGED mb
    /\ UNCHANGED <<mode, params, md, unread, info, grubinfo, own, unlisted,
                   tables, at, disk>>

\* find_fstab takes the table of the recovery, and the regular files named
\* fstab.*, the emulator's excepted.
IsFstab(e) ==
    IF e.name = FSTAB_RECOVERY THEN mode = "recovery"
    ELSE e.regular /\ e.fstab /\ e.name # "fstab.goldfish"

\* A round of find_fstab, which begins with the recovery, with add_fstab: a
\* table that is none of Android's is read again as one of TWRP.
AddFstab(e) ==
    /\ pc = "fstabs" /\ e \in unlisted
    /\ (\E r \in unlisted : r.name = FSTAB_RECOVERY) => e.name = FSTAB_RECOVERY
    /\ unlisted' = unlisted \ {e}
    /\ \/ /\ ~IsFstab(e)
          /\ UNCHANGED <<pc, tables>>
       \/ /\ IsFstab(e)
          /\ \E twrp \in BOOLEAN :
                /\ twrp <=> ~Readable(Content[e.name], FALSE)
                /\ Readable(Content[e.name], twrp)
                /\ tables' = Append(tables,
                      [name |-> e.name, twrp |-> twrp,
                       recs |-> do_fs_mgr_read_fstab(Content[e.name], twrp)])
          /\ UNCHANGED pc
       \/ /\ IsFstab(e)
          /\ ~Readable(Content[e.name], FALSE)
          /\ ~Readable(Content[e.name], TRUE)
          /\ pc' = "failed" /\ UNCHANGED tables
    /\ UNCHANGED <<mode, params, md, unread, info, grubinfo, mb, own, at, disk>>

\* translate_fstab_rec: the path of the partition's node, if it has one.
RealPath(path, junk) ==
    LET p == uevent_realpath(info, path, junk) IN IF p = Null THEN path ELSE p

Translated(r, junk) ==
    LET p == RealPath(r.blk, junk)
    IN  [r EXCEPT !.blk = p, !.rdev = uevent_stat(info, p, junk)]

\* The source and grub devices are bind records with themselves as the stub.
OwnRec(dev, mount) ==
    LET p == RealPath(dev, Null)
    IN  Rec(Parsed(p, mount.dir, "", Defaults, {}, <<>>),
            uevent_stat(info, p, Null), TRUE, mount, p)

\* prepare_fstab.
PrepareFstab ==
    /\ pc = "fstabs" /\ unlisted = {}
    /\ own' = [source |-> IF md.path # Null THEN OwnRec(md.dev, Source)
                          ELSE Null,
               grub |-> IF md.grubpath # Null THEN OwnRec(md.grubdev, Grub)
                        ELSE Null]
    /\ \E junk \in Junk :
          /\ mb' = [i \in 1..Len(mb) |-> Translated(mb[i], junk)]
          /\ tables' = [t \in 1..Len(tables) |->
                [tables[t] EXCEPT !.recs =
                    [i \in 1..Len(tables[t].recs) |->
                        [tables[t].recs[i] EXCEPT
                            !.blk = RealPath(@, junk)]]]]
    /\ pc' = IF mode = "recovery" THEN "done" ELSE "patch"
    /\ UNCHANGED <<mode, params, md, unread, info, grubinfo, unlisted, at,
                   disk>>

-----------------------------------------------------------------------------
(***************************************************************************)
(* patch_fstab                                                             *)
(***************************************************************************)
\* The partition is that of the grub files, and busy.
OnGrubDevice(r, junk) ==
    /\ md.sndstage /\ HasGrub
    /\ LET i == get_blockinfo_for_path(info, r.blk, junk)
       IN  i # 0 /\ info[i].rdev = info[grubinfo].rdev

\* The record of the multiboot fstab that stands for a mount point, 0 if none
\* does.
Replacing(r) ==
    LET i == fs_mgr_get_entry_for_mount_point(mb, r.mnt)
    IN  IF i # 0 /\ md.multiboot /\ fs_mgr_is_multiboot(mb[i]) THEN i ELSE 0

System == <<"system">>

\* Bug: /system gets its flags, too.
NeedsRemount_system(r) == Replacing(r) # 0 /\ mb[Replacing(r)].bind

\* Bind mounts take no flags, so that a second row sets them.
NeedsRemount(r) ==
    Replacing(r) # 0 /\ mb[Replacing(r)].bind /\ r.mnt # System

\* Bug: the row of a bind mount keeps its options.
Source_and_options_kept(r, junk) ==
    IF Replacing(r) # 0 THEN <<mb[Replacing(r)].repl, r.opts>>
    ELSE IF OnGrubDevice(r, junk) THEN <<Grub, <<"bind">>>>
    ELSE <<r.blk, r.opts>>

\* Block device and options of the row written for record r.
Source_and_options(r, junk) ==
    LET opts == IF OnGrubDevice(r, junk) THEN <<"bind">> ELSE r.opts
    IN  IF Replacing(r) # 0
        THEN <<mb[Replacing(r)].repl,
               IF mb[Replacing(r)].bind THEN <<"bind">> ELSE opts>>
        ELSE <<IF OnGrubDevice(r, junk) THEN Grub ELSE r.blk, opts>>

\* The rows that patch_fstab writes for record r.
Rows(twrp, r, junk) ==
    LET so == Source_and_options(r, junk)
    IN  <<file_write_fstabrec(twrp, so[1], r.mnt, r.fs, so[2], r.flags,
                              r.more)>>
        \o IF NeedsRemount(r)
           THEN <<file_write_fstabrec(twrp, so[1], r.mnt, r.fs,
                                      <<"remount">> \o r.opts, {"wait"},
                                      r.more)>>
           ELSE <<>>

\* A round of patch_fstab; the file is truncated at the first.  Nobody looks
\* at whether the rows could be written.
PatchRecord ==
    /\ pc = "patch" /\ at[1] <= Len(tables)
    /\ LET t == tables[at[1]]
           old == IF at[2] = 1 THEN <<>> ELSE file[t.name]
       IN  /\ \E junk \in Junk :
                 LET rows == Rows(t.twrp, t.recs[at[2]], junk)
                 IN  \E n \in IF "write" \in MayFail THEN 0..Len(rows)
                              ELSE {Len(rows)} :
                        file' = [file EXCEPT ![t.name] =
                                    old \o SubSeq(rows, 1, n)]
           /\ at' = IF at[2] = Len(t.recs) THEN <<at[1] + 1, 1>>
                    ELSE <<at[1], at[2] + 1>>
    /\ UNCHANGED <<pc, mode, params, md, unread, info, grubinfo, mbfile, mb,
                   own, unlisted, tables>>

PatchEnds ==
    /\ pc = "patch" /\ at[1] > Len(tables)
    /\ pc' = "done"
    /\ UNCHANGED <<mode, params, md, unread, info, grubinfo, mb, own, unlisted,
                   tables, at, disk>>

Next ==
    \/ ImportParam \/ CmdlineEnds
    \/ \E d \in SysBlock : ReadUevent(d)
    \/ EarlyInit
    \/ LoadMultibootFstab
    \/ \E e \in UNION RootDirs : AddFstab(e)
    \/ PrepareFstab \/ PatchRecord \/ PatchEnds

Spec == Init /\ [][Next]_vars
-----------------------------------------------------------------------------
(***************************************************************************)
(* The guest (external): its init reads the tables with a parser of the    *)
(* same kind and mounts row by row.                                        *)
(***************************************************************************)
GuestTable(rows) ==
    IF Readable(rows, FALSE) THEN do_fs_mgr_read_fstab(rows, FALSE) ELSE <<>>

IsRemount(r) == Head(r.opts) = "remount"
IsBind(r) == Head(r.opts) = "bind"

\* A directory can only be bound, and a device only mounted.
Mounts(r) == ~IsRemount(r) /\ (IsBind(r) <=> r.blk.kind = "dir")

\* The row that gives mount point m its file system, 0 if none does.
Top(recs, m) ==
    LET S == {k \in 1..Len(recs) : recs[k].mnt = m /\ Mounts(recs[k])}
    IN  IF S = {} THEN 0 ELSE CHOOSE k \in S : \A j \in S : j <= k

\* The flags of that mount: those of the last row that has set them.
FlagsAt(recs, m) ==
    LET k == Top(recs, m)
        S == {j \in k + 1..Len(recs) : recs[j].mnt = m /\ IsRemount(recs[j])}
    IN  IF S # {} THEN Tail(recs[CHOOSE j \in S : \A i \in S : i <= j].opts)
        ELSE IF IsBind(recs[k]) THEN <<>> ELSE recs[k].opts

SaysRo(opts) == \E o \in 1..Len(opts) : opts[o] = "ro"

\* A remount without MS_BIND sets ro for the file system, not for the mount.
TurnsReadOnly(recs, src) ==
    \E k \in 1..Len(recs) :
        IsRemount(recs[k]) /\ recs[k].blk = src /\ SaysRo(recs[k].opts)

-----------------------------------------------------------------------------
(***************************************************************************)
(* Properties                                                              *)
(***************************************************************************)
\* The devices that a path of a table names, of those sysfs could tell of.
Known == {d \in SysBlock : \E i \in 1..Len(info) : info[i].rdev = d.rdev}

Named(path) ==
    {d \in Known :
        \/ path.kind = "byname" /\ d.partname = path.name /\ d.partname # Null
        \/ path.kind = "mmc" /\ d.devname = path}

\* What the lookups rely on: partitions with a name are those of an MMC and
\* have it for themselves, no other device looks like one of them to the lookup
\* by number, as a partition of a USB disk does, and what the lookup by name
\* compares without having set it is the number of no device.
LookupsTell ==
    /\ \A d, e \in SysBlock :
          /\ d.partname # Null => d.devname.kind = "mmc"
          /\ d.partname = e.partname => d.partname = Null \/ d = e
          /\ d.devname.kind = "mmc" /\ e.devname.kind # "mmc" =>
                d.devname.part # <<0, e.partn>>
    /\ \A d \in SysBlock : add_uevent_entry(d).part \notin Junk

\* Type invariant of setup's tables.
TypeOK ==
    /\ pc \in {"cmdline", "plain", "blocks", "mbfstab", "fstabs", "patch",
               "done", "failed"}
    /\ mode \in BootModes
    /\ md.multiboot \in BOOLEAN /\ md.sndstage \in BOOLEAN
    /\ md.multiboot <=> md.path # Null
    /\ md.multiboot <=> md.dev # Null
    /\ md.grubpath # Null => md.grubdev # Null
    /\ unread \subseteq SysBlock
    /\ \A i \in 1..Len(info) :
          \E d \in SysBlock \ unread : info[i] = add_uevent_entry(d)
    /\ grubinfo \in 0..Len(info)
    /\ unlisted \subseteq UNION RootDirs
    /\ \A t \in 1..Len(tables) : tables[t].name \in DOMAIN Content
    /\ at \in Nat \X Nat

Prepared == pc \in {"patch", "done"}

\* A record protects the partition that its table names, under its node's name
\* and its number, in whatever order sysfs was read.
Protects(path, r) ==
    \A d \in Named(path) : r.blk = d.devname /\ r.rdev = d.rdev

RecordsNamePartitions ==
    Prepared /\ LookupsTell =>
        /\ \A i \in 1..Len(mb) : Protects(mbfile[i][1], mb[i])
        /\ own.source # Null => Protects(md.dev, own.source)
        /\ own.grub # Null => Protects(md.grubdev, own.grub)

\* No loop device serves two records or is one of the kernel's, and stubs are
\* exactly for bind records: what the hooks assume of the records.
LoopOf(r) == IF r.bind THEN r.stub ELSE r.repl

RecordsFit ==
    Prepared =>
        \A i \in 1..Len(mb) :
            /\ mb[i].bind <=> mb[i].stub # Null
            /\ LoopOf(mb[i]).kind = "loop"
            /\ LoopOf(mb[i]) \notin Nodes(info)
            /\ \A j \in 1..Len(mb) : LoopOf(mb[i]) = LoopOf(mb[j]) => i = j

\* The record that the multiboot fstab has for exactly this mount point.
Wanted(m) == {i \in 1..Len(mb) : mb[i].mnt = m /\ "multiboot" \in mb[i].flags}

OnBusyPartition(r) ==
    md.sndstage /\ HasGrub /\ Named(r.blk) \cap Named(md.grubdev) # {}

\* What the guest finds at the mount point of a row of its own table: the
\* replacement, the bootloader's directory in place of a busy partition, or
\* its own partition, with the flags it asks for where the mount has any.
MountedAsAsked(new, r) ==
    LET k == Top(new, r.mnt) IN
    /\ k # 0
    /\ \/ /\ \E i \in Wanted(r.mnt) : new[k].blk = mb[i].repl
          /\ r.mnt # System => FlagsAt(new, r.mnt) = r.opts
       \/ /\ Wanted(r.mnt) = {} /\ OnBusyPartition(r)
          /\ new[k].blk = Grub
       \/ /\ Wanted(r.mnt) = {} /\ ~OnBusyPartition(r)
          /\ \A d \in Named(r.blk) : new[k].blk = d.devname
          /\ FlagsAt(new, r.mnt) = r.opts

\* No row of the table was lost when it was written.
Whole(t) ==
    Len(file[t.name]) =
        Len(t.recs) + Cardinality({i \in 1..Len(t.recs) :
                                      NeedsRemount(t.recs[i])})

\* A guest that mounts from its patched tables gets, for every row of its own
\* tables, the right file system with the right flags.
GuestMountsAsAsked ==
    pc = "done" /\ mode = "android" /\ LookupsTell =>
        \A t \in {t \in 1..Len(tables) : Whole(tables[t])} :
            LET old == GuestTable(Content[tables[t].name])
                new == GuestTable(file[tables[t].name])
            IN  \A i \in 1..Len(old) : MountedAsAsked(new, old[i])

\* Of a path of a table, that it names a partition the bootloader may be on.
NamesGrub(path) ==
    \E c \in Cmdlines : \E i \in 1..Len(c) :
        /\ c[i].key = "multiboot.grubdir" /\ c[i].scans
        /\ \E d \in SysBlock :
              /\ d.devname = MmcPath(c[i].part)
              /\ \/ path.kind = "byname" /\ d.partname = path.name
                 \/ path = d.devname

\* Row i of a multiboot fstab replaces what a row of the guest asks for: it is
\* the only one that stands for that mount point, and has it itself; its flag
\* is not noemulatedsd; and an image is not for the partition of the bootloader.
Clear(F, i, row) ==
    /\ F[i][2] = row[2]
    /\ \A j \in 1..Len(F) : Below(F[j][2], row[2]) => j = i
    /\ "noemulatedsd" \in F[i][5] => "multiboot" \in F[i][5]
    /\ "multiboot" \in F[i][5] /\ F[i][3] \notin BindType => ~NamesGrub(row[1])

\* The tables of a guest mount devices, none by binding or remounting, once at
\* each mount point, and the multiboot fstabs say clearly what stands for it.
GuestsAskClearly ==
    \A f \in {f \in DOMAIN Content : Readable(Content[f], FALSE)} :
        \A k \in 1..Len(Content[f]) :
            LET row == Content[f][k] IN
            /\ row[1].kind # "dir"
            /\ row[1].kind = "mmc" => row[1] = MmcPath(row[1].part)
            /\ Head(row[4]) \notin {"bind", "remount"}
            /\ \A j \in 1..Len(Content[f]) : Content[f][j][2] = row[2] => j = k
            /\ \A F \in MbFiles : Readable(F, FALSE) =>
                  \A i \in 1..Len(F) : Below(F[i][2], row[2]) =>
                                           Clear(F, i, row)

\* A row of Android's columns that sets ro for the file system of a directory.
Harmful(row) ==
    /\ Len(row) >= Columns(FALSE)
    /\ Head(row[4]) = "remount" /\ SaysRo(row[4])
    /\ row[1].kind = "dir"

\* The tables of a guest name devices, not directories, to be remounted, and
\* of what is replaced by a directory only /system is to be read-only.
GuestsWrite ==
    \A f \in DOMAIN Content : \A k \in 1..Len(Content[f]) :
        LET row == Content[f][k] IN
        /\ ~Harmful(row)
        /\ Readable(Content[f], FALSE) =>
              /\ row[1].kind # "dir"
              /\ SaysRo(row[4]) /\ row[2] # System =>
                    \A F \in MbFiles : Readable(F, FALSE) =>
                        \A i \in 1..Len(F) :
                            F[i][3] \in BindType /\ Below(F[i][2], row[2]) =>
                                F[i][5] \cap MF_MULTIBOOT = {}

\* Mounting a read-only partition of the guest does not make the source
\* partition read-only, on which all the others live.
SourceStaysWritable ==
    pc = "done" =>
        \A t \in 1..Len(tables) : \A i \in 1..Len(mb) :
            mb[i].bind =>
                ~TurnsReadOnly(GuestTable(file[tables[t].name]), mb[i].repl)
=============================================================================
