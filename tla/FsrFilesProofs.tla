--------------------------- MODULE FsrFilesProofs ---------------------------
(***************************************************************************)
(* The lists of descriptors and the bind directories, for all values of    *)
(* the constants: every format is noticed, the lists follow the            *)
(* descriptors, and a directory is emptied when its device was formatted   *)
(* and only then.  Each theorem names what it takes for granted of the     *)
(* processes; the README tells what happens without it.                    *)
(***************************************************************************)
EXTENDS FsrLookupProofs

(***************************************************************************)
(* Every format is noticed                                                 *)
(*                                                                         *)
(* A file system is older than the clock, for mkfs takes a second, and so  *)
(* is the mkfs time of a snapshot; a new file system has the present time. *)
(***************************************************************************)
\* mkfs makes ext4, or the device is erased; it takes a second, and the clock
\* is not set back.
Ext4Only ==
    /\ FsTypes \subseteq {"ext4", "none"}
    /\ "fast" \notin Workload /\ "setback" \notin Workload

\* An ext4 file system was made before now and checked at some time.
Dated ==
    /\ clock > 0
    /\ \A s \in Stub :
          sb[s].uuid # 0 => /\ sb[s].fs = "ext4"
                            /\ 0 < sb[s].mkfs /\ sb[s].mkfs < clock
                            /\ 0 < sb[s].check

\* Snapshot x tells its own file system from another one in super block s.
Tells(x, s) ==
    /\ x.fs_type = "ext4" /\ x.pdata # NoData
    /\ x.pdata.mkfs < clock
    /\ x.uuid # 0 => 0 < x.pdata.check
    /\ x.uuid = 0 => x.pdata.mkfs = 0
    /\ s.uuid # x.uuid /\ s.uuid # 0 => x.pdata.mkfs < s.mkfs

EntriesTell ==
    \A c \in Child, f \in Fd :
        \A k \in 1..Len(files[c][f]) :
            Tells(files[c][f][k], sb[files[c][f][k].device])

FormatInv == DetectInv /\ Dated /\ EntriesTell

\* A snapshot that tells another file system from its own shows the format.
LEMMA TellsFormat ==
    ASSUME NEW x \in FdInfo, NEW s \in Superblock, Tells(x, s),
           s.uuid = 0 => s = Blank,
           s.uuid # 0 => s.fs = "ext4",
           s.uuid # x.uuid
    PROVE  fs_was_format(x, s)
<1>1. /\ fstype(s) = "ext4" /\ x.fs_type = "ext4" /\ x.pdata # NoData
      /\ x.pdata \in Pdata
    BY DEF fstype, Blank, Tells, FdInfo
<1>2. CASE s.uuid = 0
    <2>1. s.check = 0 /\ 0 < x.pdata.check
        BY <1>2 DEF Blank, Tells
    <2> QED
        BY <1>1, <2>1 DEF fs_was_format, ext2_was_format
<1>3. CASE s.uuid # 0
    <2>1. x.pdata.mkfs < s.mkfs
        BY <1>3 DEF Tells
    <2> QED
        BY <1>1, <2>1 DEF fs_was_format, ext2_was_format, Pdata, Superblock
<1> QED
    BY <1>2, <1>3

\* A new snapshot tells.
LEMMA NewEntryTells ==
    ASSUME TypeOK, DiskInv, Dated, NEW name \in Path, make_fdinfo_safe(name)
    PROVE  Tells(make_fdinfo(name), sb[make_fdinfo(name).device])
<1> DEFINE s == Recs[get_fstab_rec(node, name)].stub
           x == make_fdinfo(name)
<1>1. /\ x.device = s /\ x.fs_type = fstype(sb[s])
      /\ x.pdata = fs_pre(sb[s]) /\ x.uuid = sb[s].uuid
    BY DEF make_fdinfo
<1>2. s \in Stub
    BY <1>1, MakeFdinfoType
<1>3. sb[s] \in Superblock
    BY <1>2 DEF TypeOK
<1> HIDE DEF s, x
<1>4. /\ sb[s].uuid = 0 => sb[s] = Blank
      /\ clock > 0
      /\ sb[s].uuid # 0 => /\ sb[s].fs = "ext4" /\ sb[s].mkfs < clock
                           /\ 0 < sb[s].check
    BY <1>2 DEF DiskInv, Dated
<1>5. fstype(sb[s]) = "ext4"
    BY <1>4 DEF fstype, Blank
<1>6. /\ x.pdata = [mkfs |-> sb[s].mkfs, check |-> sb[s].check]
      /\ x.fs_type = "ext4"
    BY <1>1, <1>5 DEF fs_pre, ext2_pre
<1>7. x.pdata # NoData
    <2>1. x.pdata \in Pdata
        BY <1>3, <1>6 DEF Pdata, Superblock
    <2> QED
        BY <2>1, FsrAssumption
<1>8. Tells(x, sb[x.device])
    BY <1>1, <1>3, <1>4, <1>6, <1>7 DEF Tells, Blank
<1> QED
    BY <1>8 DEF x

\* One step leaves every file system older than the clock.
LEMMA DatedNext ==
    ASSUME Ext4Only, TypeOK, TypeOK', DiskInv, Dated, DiskStep
    PROVE  Dated'
<1>1. clock \in Nat /\ clock' \in Nat /\ clock <= clock' /\ clock > 0
    BY DEF TypeOK, DiskStep, Dated
<1>2. ASSUME NEW s \in Stub, sb'[s].uuid # 0
      PROVE  /\ sb'[s].fs = "ext4"
             /\ 0 < sb'[s].mkfs /\ sb'[s].mkfs < clock'
             /\ 0 < sb'[s].check
    <2>1. sb[s] \in Superblock
        BY DEF TypeOK
    <2>2. CASE sb'[s] = sb[s]
        BY <1>1, <1>2, <2>1, <2>2 DEF Dated, Superblock
    <2>3. CASE sb'[s] = e2fsck(sb[s], clock)
        BY <1>1, <1>2, <2>1, <2>3 DEF Dated, Superblock, e2fsck
    <2>4. CASE sb'[s] = Blank
        BY <1>2, <2>4 DEF Blank
    <2>5. CASE /\ clock' = clock + 1
               /\ \E fs \in FsTypes \ {"none"} : sb'[s] = mkfs(fs, clock, nextUuid)
        <3>1. PICK fs \in FsTypes \ {"none"} :
                 sb'[s] = mkfs(fs, clock, nextUuid)
            BY <2>5
        <3>2. fs = "ext4"
            BY DEF Ext4Only
        <3>3. /\ sb'[s].fs = "ext4" /\ sb'[s].mkfs = clock
              /\ sb'[s].check = clock
            BY <3>1, <3>2 DEF mkfs
        <3> QED
            BY <1>1, <2>5, <3>3
    <2> QED
        BY <2>2, <2>3, <2>4, <2>5 DEF DiskStep, Ext4Only
<1> QED
    BY <1>1, <1>2 DEF Dated

\* A snapshot that tells still tells after such a step.
LEMMA DiskStepTells ==
    ASSUME Ext4Only, TypeOK, TypeOK', DiskStep,
           NEW x \in FdInfo, Tells(x, sb[x.device])
    PROVE  Tells(x, sb[x.device])'
<1> DEFINE s == sb[x.device]
           t == sb'[x.device]
<1>1. /\ clock \in Nat /\ clock' \in Nat /\ clock <= clock'
      /\ x.device \in Stub /\ s \in Superblock /\ t \in Superblock
      /\ x.pdata \in Pdata
    BY DEF TypeOK, DiskStep, FdInfo, Tells
<1>2. x.pdata.mkfs < clock'
    BY <1>1 DEF Tells, Pdata
<1>3. ASSUME t.uuid # x.uuid, t.uuid # 0 PROVE x.pdata.mkfs < t.mkfs
    <2>1. CASE t = s \/ t = e2fsck(s, clock)
        <3>1. t.uuid = s.uuid /\ t.mkfs = s.mkfs
            BY <1>1, <2>1 DEF e2fsck, Superblock
        <3> QED
            BY <1>3, <3>1 DEF Tells
    <2>2. CASE t = Blank
        BY <1>3, <2>2 DEF Blank
    <2>3. CASE \E fs \in FsTypes : t = mkfs(fs, clock, nextUuid)
        BY <2>3 DEF mkfs, Tells
    <2> QED
        BY <1>1, <2>1, <2>2, <2>3 DEF DiskStep
<1> QED
    BY <1>2, <1>3 DEF Tells

\* One step keeps the snapshots telling.
LEMMA FormatNext ==
    ASSUME Ext4Only
    PROVE  FormatInv /\ [Next]_vars => FormatInv'
<1> SUFFICES ASSUME FormatInv, [Next]_vars PROVE FormatInv'
    OBVIOUS
<1>1. DetectInv'
    BY DetectNext DEF FormatInv, Ext4Only
<1>2. TypeOK /\ TypeOK' /\ DiskInv /\ Dated /\ EntriesTell
    BY <1>1 DEF FormatInv, DetectInv, HookInv
<1>3. DiskStep /\ ListStep
    BY <1>2, NextDisk, NextFiles DEF Ext4Only
<1>4. Dated'
    BY <1>2, <1>3, DatedNext
<1>5. ASSUME NEW c \in Child, NEW f \in Fd, NEW k \in 1..Len(files'[c][f])
      PROVE  Tells(files[c][f][k], sb[files[c][f][k].device])'
    <2> DEFINE x == files'[c][f][k]
    <2>1. CASE \E j \in 1..Len(files[c][f]) : x = files[c][f][j]
        <3>1. x \in FdInfo /\ Tells(x, sb[x.device])
            BY <1>2, <2>1, EntryType DEF EntriesTell
        <3> QED
            BY <1>2, <1>3, <3>1, DiskStepTells DEF Tells
    <2>2. CASE /\ UNCHANGED disk
               /\ tmp[c] \in Path /\ make_fdinfo_safe(tmp[c])
               /\ x = make_fdinfo(tmp[c])
        <3>1. Tells(x, sb[x.device])
            BY <1>2, <2>2, NewEntryTells
        <3> QED
            BY <2>2, <3>1 DEF Tells, disk
    <2> QED
        BY <1>3, <2>1, <2>2 DEF ListStep
<1>6. EntriesTell'
    BY <1>5 DEF EntriesTell
<1> QED
    BY <1>1, <1>4, <1>6 DEF FormatInv

\* The devices hold an ext4 file system of time 1 when the tracer starts.
LEMMA FormatInit == Init => FormatInv
<1> SUFFICES ASSUME Init PROVE FormatInv
    OBVIOUS
<1>1. Dated
    BY DEF Init, Dated, mkfs, FirstUuid
<1>2. EntriesTell
    <2>1. \A c \in Child, f \in Fd : 1..Len(files[c][f]) = {}
        BY DEF Init, NoFiles
    <2> QED
        BY <2>1 DEF EntriesTell
<1> QED
    BY <1>1, <1>2, DetectInit DEF FormatInv

\* What an entry in a list shows of its device.
LEMMA EntryShows ==
    ASSUME FormatInv, NEW c \in Child, NEW f \in Fd,
           NEW k \in 1..Len(files[c][f]),
           sb[files[c][f][k].device].uuid # files[c][f][k].uuid
    PROVE  fs_was_format(files[c][f][k], sb[files[c][f][k].device])
<1> DEFINE x == files[c][f][k]
<1>1. /\ x \in FdInfo /\ x.device \in Stub
      /\ sb[x.device] \in Superblock
    BY EntryType DEF FormatInv, DetectInv, HookInv
<1>2. Tells(x, sb[x.device])
    BY DEF FormatInv, EntriesTell
<1>3. /\ sb[x.device].uuid = 0 => sb[x.device] = Blank
      /\ sb[x.device].uuid # 0 => sb[x.device].fs = "ext4"
    BY <1>1 DEF FormatInv, DetectInv, DiskInv, Dated
<1> HIDE DEF x
<1>4. fs_was_format(x, sb[x.device])
    BY <1>1, <1>2, <1>3, TellsFormat DEF x
<1> QED
    BY <1>4 DEF x

\* Every mkfs and every erase is seen by every descriptor that was registered
\* before it, whatever e2fsck runs and openings come between: for ext4, when
\* two runs of mkfs are a second apart and the clock is not set back.
THEOREM FormatNeverMissed ==
    ASSUME Ext4Only
    PROVE  Spec => []DetectsFormat
<1>1. FormatInv => DetectsFormat
    BY EntryShows DEF DetectsFormat, ForEachEntry
<1> QED
    BY <1>1, FormatInit, FormatNext, PTL DEF Spec

-----------------------------------------------------------------------------
(***************************************************************************)
(* The lists follow the descriptors                                        *)
(***************************************************************************)
\* Every process has a descriptor table of its own and none inherits one.
OwnTables ==
    /\ \A c, d \in Child : TableOf[c] = TableOf[d] => c = d
    /\ "clone" \notin Workload

\* open resolves the links that its hook resolves.
OpenAgrees ==
    \A sc \in Syscalls \cap OpenCall, nofollow, stray \in BOOLEAN :
        resolve_symlinks(sc, nofollow, stray) = KernelFollows(sc, nofollow)

\* A stub device that has a name is the partition of a record which is its own
\* stub, and its node stays; no image is the stub of another record.
StubsNamed ==
    /\ \A p \in Path :
          Node0[p] \in Stub =>
              /\ p \notin Removable
              /\ get_fstab_rec(Node0, p) \in BindRec
              /\ Recs[get_fstab_rec(Node0, p)].stub = Node0[p]
    /\ \A i \in Asked \ BindRec : Recs[i].repl \notin Stub

\* What the lists follow: no process shares a table, dup2 is not used, and the
\* names mean the same to the tracer.
Followed ==
    /\ RecordsFound /\ OneName /\ OwnTables /\ OpenAgrees /\ StubsNamed
    /\ "dup2" \notin Workload
    /\ PlainName = Path

\* The stub device that belongs to a name.
DeviceOf(name) == Recs[get_fstab_rec(Node0, name)].stub

EntriesNamed ==
    \A c \in Child, f \in Fd :
        \A k \in 1..Len(files[c][f]) :
            files[c][f][k].device = DeviceOf(files[c][f][k].filename)

Writable(o) == o # Null /\ o.wr /\ o.obj \in Stub

\* What open file o owes to the list once the name n has been put aside.
Due(n, o) == (n # Null <=> Writable(o)) /\ (n # Null => DeviceOf(n) = o.obj)

\* Open call k will open a stub device for writing only with its name n put
\* aside, unless it fails on a link.
Aims(k, n) ==
    \/ k.to = Null /\ ~k.follow /\ IsLink(k.path)
    \/ n # Null /\ k.wr /\ k.to = DeviceOf(n) /\ k.to # Null
    \/ /\ n = Null
       /\ \/ ~k.wr
          \/ k.to # Null /\ k.to \notin Stub
          \/ k.to = Null /\ Node0[Link[k.path]] \notin Stub

\* The open file that descriptor f of process c stands for.
FileOf(c, f) == fdt[TableOf[c]][f]

\* Descriptor f is between its hook and the kernel.
InFlight(c, f) ==
    \/ call[c].sc = "close" /\ f = call[c].fd
    \/ call[c].sc \in OpenCall \cup {"dup"} /\ call[c].phase = "post"
                                            /\ f = call[c].ret

\* The list of f is exact.
Exact(c, f) ==
    IF Writable(FileOf(c, f))
    THEN Len(files[c][f]) = 1 /\ ll_find(c, f).device = FileOf(c, f).obj
    ELSE files[c][f] = <<>>

\* The call of c keeps the promise of its hook.
Promise(c) ==
    LET k == call[c]
    IN  /\ k.sc # "dup2"
        /\ k.sc \in OpenCall => (handled[c] <=> tmp[c] # Null)
        /\ k.sc \in OpenCall /\ k.phase = "pre" => Aims(k, tmp[c])
        /\ k.sc = "dup" /\ k.phase = "pre" => Due(tmp[c], FileOf(c, k.fd))
        /\ k.sc \in OpenCall \cup {"dup"} /\ k.phase = "post" /\ k.ret # Null
               => Due(tmp[c], FileOf(c, k.ret))

Follows(c) ==
    /\ Promise(c)
    /\ \A f \in Fd : IF InFlight(c, f) THEN files[c][f] = <<>> ELSE Exact(c, f)

TrackInv ==
    /\ HookInv /\ NodesComeAndGo /\ NamesKept /\ EntriesNamed
    /\ \A c \in live : Follows(c)

\* A step of process c leaves the calls, lists and descriptors of the others.
OnlyOf(c) ==
    \A d \in Child \ {c} :
        /\ call'[d] = call[d] /\ tmp'[d] = tmp[d] /\ handled'[d] = handled[d]
        /\ files'[d] = files[d] /\ fdt'[TableOf[d]] = fdt[TableOf[d]]

\* What is under o is under p: the same device, if it can be written at all.
SameFile(o, p) ==
    /\ Writable(p) <=> Writable(o)
    /\ Writable(o) => p.obj = o.obj

\* The types of what the lists follow.
LEMMA FollowTypes ==
    ASSUME HookInv, NEW c \in Child
    PROVE  /\ TableOf[c] \in Table
           /\ \A f \in Fd : /\ FileOf(c, f) \in OpenFile \cup {Null}
                            /\ files[c][f] \in Seq(FdInfo)
                            /\ f # Null
           /\ call[c].ret \in Fd \cup {Null}
           /\ call[c].sc = "dup" => call[c].fd \in Fd
           /\ call[c].sc \in PathCall => call[c].path \in Path
           /\ tmp[c] \in Path \cup {Null}
BY CallTypes, FsrAssumption DEF HookInv, CallHasArguments, FileOf, TypeOK

\* A process whose call, names, lists and devices stay keeps to its list.
LEMMA FollowsFrame ==
    ASSUME HookInv, NEW d \in Child, Follows(d),
           call'[d] = call[d], tmp'[d] = tmp[d], handled'[d] = handled[d],
           files'[d] = files[d],
           \A f \in Fd : SameFile(FileOf(d, f), FileOf(d, f)')
    PROVE  Follows(d)'
<1>1. Promise(d)'
    <2>1. ASSUME NEW f \in Fd, Due(tmp[d], FileOf(d, f))
          PROVE  Due(tmp[d], FileOf(d, f))'
        BY <2>1 DEF Due, SameFile, FileOf, Writable, DeviceOf
    <2>2. /\ call[d].sc = "dup" => call[d].fd \in Fd
          /\ call[d].ret \in Fd \cup {Null}
        BY FollowTypes
    <2> QED
        BY <2>1, <2>2 DEF Follows, Promise, FileOf
<1>2. ASSUME NEW f \in Fd
      PROVE  (IF InFlight(d, f) THEN files[d][f] = <<>> ELSE Exact(d, f))'
    <2>1. InFlight(d, f)' <=> InFlight(d, f)
        BY DEF InFlight
    <2>2. Exact(d, f) => Exact(d, f)'
        BY DEF Exact, SameFile, ll_find
    <2> QED
        BY <2>1, <2>2 DEF Follows
<1> QED
    BY <1>1, <1>2 DEF Follows

\* The others keep to their lists while c moves.
LEMMA OthersFollow ==
    ASSUME TrackInv, NEW c \in Child, OnlyOf(c), live' \subseteq live,
           c \in live' => Follows(c)'
    PROVE  \A d \in live' : Follows(d)'
<1> SUFFICES ASSUME NEW d \in live', d # c PROVE Follows(d)'
    OBVIOUS
<1>1. d \in Child /\ Follows(d)
    BY DEF TrackInv, HookInv, TypeOK
<1>2. \A f \in Fd : SameFile(FileOf(d, f), FileOf(d, f)')
    BY <1>1 DEF OnlyOf, SameFile, FileOf
<1> QED
    BY <1>1, <1>2, FollowsFrame DEF OnlyOf, TrackInv

\* Between two calls the list is exact and nothing is put aside.
LEMMA ReadyFollows ==
    ASSUME TrackInv, NEW c \in Child, Ready(c)
    PROVE  /\ \A f \in Fd : Exact(c, f)
           /\ tmp[c] = Null /\ handled[c] = FALSE /\ c \in live
<1>1. call[c] = Idle /\ c \in live
    BY DEF Ready
<1>2. \A f \in Fd : ~InFlight(c, f)
    BY <1>1, CallNames DEF InFlight, Idle
<1> QED
    BY <1>1, <1>2, IdleScratch DEF TrackInv, HookInv, Follows

\* The first entry of an exact list that is not empty.
LEMMA ExactEntry ==
    ASSUME TrackInv, NEW c \in Child, NEW f \in Fd, Exact(c, f)
    PROVE  /\ Tracked(c, f) <=> Writable(FileOf(c, f))
           /\ Tracked(c, f) =>
                 LET x == ll_find(c, f)
                 IN  /\ x \in FdInfo
                     /\ x.device = FileOf(c, f).obj
                     /\ x.device = DeviceOf(x.filename)
                     /\ Kept(x.filename)
                     /\ Tail(files[c][f]) = <<>>
<1>1. files[c][f] \in Seq(FdInfo)
    BY FollowTypes DEF TrackInv
<1>2. Tracked(c, f) <=> Writable(FileOf(c, f))
    <2>1. Len(<<>>) = 0
        OBVIOUS
    <2>2. files[c][f] = <<>> => Len(files[c][f]) = 0
        BY <2>1
    <2> QED
        BY <2>2 DEF Exact, Tracked
<1>3. ASSUME Tracked(c, f)
      PROVE  /\ ll_find(c, f) \in FdInfo
             /\ ll_find(c, f) = files[c][f][1] /\ 1 \in 1..Len(files[c][f])
             /\ ll_find(c, f).device = FileOf(c, f).obj
             /\ Tail(files[c][f]) = <<>>
    <2>1. /\ ll_find(c, f) \in FdInfo
          /\ ll_find(c, f) = files[c][f][1] /\ 1 \in 1..Len(files[c][f])
        BY <1>3, HeadEntry DEF TrackInv, HookInv
    <2>2. Len(files[c][f]) = 1 /\ ll_find(c, f).device = FileOf(c, f).obj
        BY <1>2, <1>3 DEF Exact
    <2>3. Tail(files[c][f]) = <<>>
        <3>1. files[c][f] # <<>>
            BY <1>3 DEF Tracked
        <3>2. Tail(files[c][f]) \in Seq(FdInfo) /\ Len(Tail(files[c][f])) = 0
            BY <1>1, <2>2, <3>1, HeadTailProperties
        <3> QED
            BY <3>2, EmptySeq
    <2> QED
        BY <2>1, <2>2, <2>3
<1> QED
    BY <1>2, <1>3 DEF TrackInv, EntriesNamed, NamesKept

\* The entry hook of open puts the name aside exactly if the call is going to
\* open a stub device for writing.
LEMMA OpenAims ==
    ASSUME Followed, NodesComeAndGo,
           NEW sc \in Syscalls \cap OpenCall, NEW p \in Path,
           NEW wr \in BOOLEAN, NEW nofollow \in BOOLEAN, NEW stray \in BOOLEAN,
           NEW k, k.path = p, k.wr = wr,
           k.follow = KernelFollows(sc, nofollow),
           NEW path, path = get_patharg(node, p, k.follow),
           NEW r, r = get_fstab_rec(node, path),
           k.to = Replacement(path, k.follow, r),
           NEW n, n = IF Watch(sc, wr, r) # 0 THEN path ELSE Null
    PROVE  Aims(k, n)
<1>1. path \in Path /\ Link[path] = Link[p] /\ path # Null
    BY PathargLeads, PathAssumption
<1>2. r \in {0} \cup RecId /\ Watch(sc, wr, r) = (IF wr /\ r # 0 /\ Recs[r].bind
                                                  THEN r ELSE 0)
    BY LookupResult DEF Watch
<1>3. CASE ~k.follow /\ IsLink(path)
    <2>1. path = p /\ k.to = Null
        BY <1>3 DEF get_patharg, Replacement
    <2> QED
        BY <1>3, <2>1 DEF Aims
<1>4. CASE (k.follow \/ ~IsLink(path)) /\ r = 0
    <2>1. k.to = Null /\ n = Null
        BY <1>2, <1>4 DEF Replacement
    <2>2. ASSUME Node0[Link[p]] \in Stub PROVE FALSE
        <3> DEFINE q == Link[p]
                   i == get_fstab_rec(Node0, q)
        <3>1. q \in Path /\ Link[q] = q
            BY PathAssumption
        <3>2. q \notin Removable /\ i \in BindRec
            BY <2>2, <3>1 DEF Followed, StubsNamed
        <3>3. Absent \notin Stub
            BY StubIsObj
        <3>4. node[q] # Absent
            BY <2>2, <3>1, <3>2, <3>3 DEF NodesComeAndGo
        <3>5. path = q
            BY <1>4, <3>4 DEF get_patharg, stat, IsLink
        <3>6. i \in Matching(Node0, q)
            <4>1. i # 0
                BY <3>2 DEF BindRec, RecId
            <4> QED
                BY <4>1, LookupResult
        <3>7. i \in Asked /\ fstab_rec_matches(Node0, q, Recs[i])
            BY <3>6 DEF Matching, Asked
        <3>8. Node0[q] = Recs[i].rdev
            BY <3>1, <3>7, MatchNames0 DEF Followed
        <3> HIDE DEF i, q
        <3> QED
            BY <1>4, <3>1, <3>2, <3>5, <3>7, <3>8, NotFound DEF Followed
    <2> QED
        BY <2>1, <2>2 DEF Aims
<1>5. CASE (k.follow \/ ~IsLink(path)) /\ r # 0
    <2>1. r \in RecId /\ r \in Asked
        BY <1>1, <1>2, <1>5, FoundNames DEF Followed
    <2>2. r = get_fstab_rec(Node0, path)
        BY <1>1, <1>5, LookupOnce DEF Followed
    <2>3. CASE Recs[r].bind
        <3>1. k.to = Recs[r].stub /\ k.to # Null
            BY <1>5, <2>1, <2>3, RecTypes DEF Replacement
        <3>2. CASE wr
            BY <1>1, <1>2, <1>5, <2>2, <2>3, <3>1, <3>2 DEF Aims, DeviceOf
        <3>3. CASE ~wr
            BY <1>2, <3>3 DEF Aims
        <3> QED
            BY <3>2, <3>3
    <2>4. CASE ~Recs[r].bind
        <3>1. k.to = Recs[r].repl /\ n = Null
            BY <1>2, <1>5, <2>4 DEF Replacement
        <3>2. k.to # Null
            BY <2>1, <3>1, RecTypes, PathAssumption
        <3>3. r \in Asked \ BindRec
            BY <2>1, <2>4 DEF BindRec
        <3>4. k.to \notin Stub
            BY <3>1, <3>3 DEF Followed, StubsNamed
        <3> QED
            BY <3>1, <3>2, <3>4 DEF Aims
    <2> QED
        BY <2>3, <2>4
<1> QED
    BY <1>3, <1>4, <1>5

\* The entry hook of the path calls.
LEMMA FollowFileaccess ==
    ASSUME Followed, TrackInv,
           NEW c \in Child, NEW sc \in Syscalls, NEW p \in Path,
           NEW wr \in BOOLEAN, NEW nofollow \in BOOLEAN, NEW stray \in BOOLEAN,
           hook_fileaccess_pre(c, sc, p, wr, nofollow, stray)
    PROVE  OnlyOf(c) /\ live' = live /\ Follows(c)'
<1> DEFINE resolve == resolve_symlinks(sc, nofollow, stray)
           path    == get_patharg(node, p, resolve)
           r       == get_fstab_rec(node, path)
           w       == Watch(sc, wr, r)
           to      == Replacement(path, resolve, r)
           k       == [Idle EXCEPT !.sc = sc, !.phase = "pre", !.path = p,
                                   !.wr = wr, !.to = to,
                                   !.follow = KernelFollows(sc, nofollow)]
<1>1. /\ handled' = [handled EXCEPT ![c] = IF w # 0 THEN TRUE ELSE @]
      /\ tmp' = [tmp EXCEPT ![c] = IF w # 0 THEN path ELSE @]
      /\ call' = [call EXCEPT ![c] = k]
      /\ UNCHANGED <<live, files, fdt>> /\ Ready(c)
    BY DEF hook_fileaccess_pre, kern
<1>2. /\ k.sc = sc /\ k.phase = "pre" /\ k.path = p /\ k.wr = wr /\ k.to = to
      /\ k.follow = KernelFollows(sc, nofollow)
    BY DEF Idle
<1>3. path \in Path /\ path # Null
    BY PathargType, PathAssumption
<1>4. sc \in OpenCall => resolve = k.follow
    BY <1>2 DEF Followed, OpenAgrees
<1>5. /\ \A f \in Fd : Exact(c, f)
      /\ tmp[c] = Null /\ handled[c] = FALSE
    BY <1>1, ReadyFollows
<1>6. ASSUME sc \in OpenCall
      PROVE  Aims(k, IF w # 0 THEN path ELSE Null)
    <2>1. /\ path = get_patharg(node, p, k.follow)
          /\ to = Replacement(path, k.follow, r)
          /\ r = get_fstab_rec(node, path) /\ w = Watch(sc, wr, r)
        BY <1>4, <1>6
    <2>2. sc \in Syscalls \cap OpenCall
        BY <1>6
    <2>3. NodesComeAndGo
        BY DEF TrackInv
    <2> HIDE DEF resolve, path, r, w, to, k
    <2> QED
        BY <1>2, <2>1, <2>2, <2>3, OpenAims
<1> HIDE DEF resolve, path, w, to, k
<1>7. /\ call'[c] = k
      /\ handled'[c] = (w # 0) /\ tmp'[c] = IF w # 0 THEN path ELSE Null
    BY <1>1, <1>5 DEF TrackInv, HookInv, TypeOK
<1>8. OnlyOf(c)
    BY <1>1 DEF OnlyOf, TrackInv, HookInv, TypeOK
<1>9. sc \in PathCall
    BY FsrAssumption
<1>10. Promise(c)'
    BY <1>2, <1>3, <1>6, <1>7, <1>9, CallNames
    DEF Promise, Aims, DeviceOf
<1>11. \A f \in Fd : ~InFlight(c, f)' /\ Exact(c, f)'
    BY <1>1, <1>2, <1>5, <1>7, <1>9, CallNames DEF InFlight, Exact, FileOf, ll_find
<1> QED
    BY <1>1, <1>8, <1>10, <1>11 DEF Follows

\* The entry hook of close.
LEMMA FollowClose ==
    ASSUME TrackInv, NEW c \in Child, NEW fd \in Fd, hook_close_pre(c, fd)
    PROVE  OnlyOf(c) /\ live' = live /\ Follows(c)'
<1> DEFINE k == [Idle EXCEPT !.sc = "close", !.phase = "pre", !.fd = fd]
<1>1. /\ call' = [call EXCEPT ![c] = k] /\ Ready(c)
      /\ files' = IF Tracked(c, fd) THEN [files EXCEPT ![c][fd] = Tail(@)]
                  ELSE files
      /\ UNCHANGED <<live, tmp, handled, fdt>>
    BY DEF hook_close_pre, ll_del, kern
<1>2. k.sc = "close" /\ k.phase = "pre" /\ k.fd = fd
    BY DEF Idle
<1> HIDE DEF k
<1>3. call'[c] = k /\ OnlyOf(c)
    BY <1>1 DEF OnlyOf, TrackInv, HookInv, TypeOK
<1>4. Promise(c)'
    BY <1>2, <1>3, CallNames DEF Promise
<1>5. \A f \in Fd : InFlight(c, f)' <=> f = fd
    BY <1>2, <1>3, CallNames DEF InFlight
<1>6. \A f \in Fd : Exact(c, f)
    BY <1>1, ReadyFollows
<1>7. files'[c][fd] = <<>>
    <2>1. CASE Tracked(c, fd)
        BY <1>1, <1>6, <2>1, ExactEntry DEF TrackInv, HookInv, TypeOK
    <2>2. CASE ~Tracked(c, fd)
        BY <1>1, <2>2 DEF Tracked
    <2> QED
        BY <2>1, <2>2
<1>8. \A f \in Fd \ {fd} : files'[c][f] = files[c][f]
    BY <1>1 DEF TrackInv, HookInv, TypeOK
<1>9. \A f \in Fd \ {fd} : Exact(c, f)'
    BY <1>1, <1>6, <1>8 DEF Exact, FileOf, ll_find
<1> QED
    BY <1>1, <1>3, <1>4, <1>5, <1>7, <1>9 DEF Follows

\* The entry hook of dup.
LEMMA FollowDup ==
    ASSUME Followed, TrackInv, NEW c \in Child, NEW sc \in {"dup", "dup2"},
           NEW fd \in Fd, NEW newfd \in Fd \cup {Null},
           hook_dup_pre(c, sc, fd, newfd)
    PROVE  OnlyOf(c) /\ live' = live /\ Follows(c)'
<1> DEFINE k == [Idle EXCEPT !.sc = sc, !.phase = "pre", !.fd = fd,
                             !.newfd = newfd]
<1>1. /\ call' = [call EXCEPT ![c] = k] /\ Ready(c)
      /\ tmp' = [tmp EXCEPT ![c] =
                   IF Tracked(c, fd) THEN ll_find(c, fd).filename ELSE @]
      /\ UNCHANGED <<live, handled, files, fdt>>
      /\ sc \in Workload
    BY DEF hook_dup_pre, kern
<1>2. k.sc = "dup" /\ k.phase = "pre" /\ k.fd = fd
    BY <1>1 DEF Idle, Followed
<1> HIDE DEF k
<1>3. call'[c] = k /\ OnlyOf(c)
    BY <1>1 DEF OnlyOf, TrackInv, HookInv, TypeOK
<1>4. (\A f \in Fd : Exact(c, f)) /\ tmp[c] = Null
    BY <1>1, ReadyFollows
<1>5. tmp'[c] = IF Tracked(c, fd) THEN ll_find(c, fd).filename ELSE Null
    BY <1>1, <1>4 DEF TrackInv, HookInv, TypeOK
<1>6. Due(tmp'[c], FileOf(c, fd))
    <2>1. CASE Tracked(c, fd)
        <3>1. ll_find(c, fd).filename # Null
            BY <1>4, <2>1, ExactEntry, PathAssumption DEF FdInfo
        <3> QED
            BY <1>4, <1>5, <2>1, <3>1, ExactEntry DEF Due
    <2>2. CASE ~Tracked(c, fd)
        BY <1>4, <1>5, <2>2, ExactEntry DEF Due
    <2> QED
        BY <2>1, <2>2
<1>7. Promise(c)'
    BY <1>1, <1>2, <1>3, <1>6, CallNames
    DEF Promise, FileOf, Due, Writable, DeviceOf
<1>8. \A f \in Fd : ~InFlight(c, f)' /\ Exact(c, f)'
    BY <1>1, <1>2, <1>3, <1>4, CallNames DEF InFlight, Exact, FileOf, ll_find
<1> QED
    BY <1>1, <1>3, <1>7, <1>8 DEF Follows

\* The entry hooks.
LEMMA FollowPre ==
    ASSUME Followed, TrackInv, NEW c \in Child, HookPre(c)
    PROVE  \A d \in live' : Follows(d)'
<1> SUFFICES \/ UNCHANGED <<live, call, tmp, handled, files, fdt>>
             \/ OnlyOf(c) /\ live' = live /\ Follows(c)'
    <2>1. ASSUME UNCHANGED <<live, call, tmp, handled, files, fdt>>
          PROVE  \A d \in live' : Follows(d)'
        <3>1. \A d \in live : d \in Child /\ Follows(d)
            BY DEF TrackInv, HookInv, TypeOK
        <3>2. \A d \in live, f \in Fd : SameFile(FileOf(d, f), FileOf(d, f)')
            BY <2>1 DEF SameFile, FileOf
        <3> QED
            BY <2>1, <3>1, <3>2, FollowsFrame DEF TrackInv
    <2> QED
        BY <2>1, OthersFollow
<1>1. ASSUME NEW p \in Path, NEW asec \in BOOLEAN, hook_mount_pre(c, p, asec)
      PROVE  OnlyOf(c) /\ live' = live /\ Follows(c)'
    <2> DEFINE to == MountReplacement(get_patharg(node, p, TRUE), asec)
               k  == [Idle EXCEPT !.sc = "mount", !.phase = "pre",
                                  !.path = p, !.follow = TRUE, !.to = to]
    <2>1. /\ call' = [call EXCEPT ![c] = k] /\ Ready(c)
          /\ UNCHANGED <<live, tmp, handled, files, fdt>>
        BY <1>1 DEF hook_mount_pre, kern
    <2>2. k.sc = "mount"
        BY DEF Idle
    <2> HIDE DEF to, k
    <2>3. call'[c] = k /\ OnlyOf(c)
        BY <2>1 DEF OnlyOf, TrackInv, HookInv, TypeOK
    <2>4. Promise(c)'
        BY <2>2, <2>3, CallNames DEF Promise
    <2>5. \A f \in Fd : Exact(c, f)
        BY <2>1, ReadyFollows
    <2>6. \A f \in Fd : ~InFlight(c, f)' /\ Exact(c, f)'
        BY <2>1, <2>2, <2>3, <2>5, CallNames DEF InFlight, Exact, FileOf, ll_find
    <2> QED
        BY <2>1, <2>3, <2>4, <2>6 DEF Follows
<1>2. Abort => UNCHANGED <<live, call, tmp, handled, files, fdt>>
    BY DEF Abort, mbc, kern
<1> QED
    BY <1>1, <1>2, HookPreCases, FollowFileaccess, FollowClose, FollowDup

\* A return of the kernel moves the call of c on.
LEMMA ReturnedCall ==
    ASSUME HookInv, NEW c \in Child, NEW hit, NEW ret, Returns(c, hit, ret)
    PROVE  /\ call'[c].sc = call[c].sc /\ call'[c].phase = "post"
           /\ call'[c].ret = ret /\ call'[c].fd = call[c].fd
           /\ \A d \in Child \ {c} : call'[d] = call[d]
BY DEF Returns, HookInv, TypeOK, Call

\* A descriptor that an open or dup call has made starts with an empty list.
LEMMA FollowNewFd ==
    ASSUME Followed, TrackInv, NEW c \in live, NEW f \in Fd, NEW o, NEW hit,
           call[c].sc \in OpenCall \cup {"dup"}, call[c].phase = "pre",
           FileOf(c, f) = Null, Due(tmp[c], o), o # Null,
           Returns(c, hit, f),
           fdt' = [fdt EXCEPT ![TableOf[c]][f] = o],
           UNCHANGED <<live, tmp, handled, files>>
    PROVE  OnlyOf(c) /\ Follows(c)'
<1>1. c \in Child /\ TableOf[c] \in Table /\ Follows(c) /\ f # Null
    BY FollowTypes DEF TrackInv, HookInv, TypeOK
<1>2. /\ call'[c].sc = call[c].sc /\ call'[c].phase = "post"
      /\ call'[c].ret = f
      /\ \A d \in Child \ {c} : call'[d] = call[d]
    BY <1>1, ReturnedCall DEF TrackInv
<1>3. /\ FileOf(c, f)' = o
      /\ \A g \in Fd \ {f} : FileOf(c, g)' = FileOf(c, g)
    BY <1>1 DEF TrackInv, HookInv, TypeOK, FileOf
<1>4. OnlyOf(c)
    BY <1>1, <1>2 DEF OnlyOf, Followed, OwnTables, TrackInv, HookInv, TypeOK
<1>5. Promise(c)'
    BY <1>1, <1>2, <1>3 DEF Follows, Promise, Due, DeviceOf, Writable
<1>6. \A g \in Fd : InFlight(c, g)' <=> g = f
    BY <1>2, CallNames DEF InFlight
<1>7. \A g \in Fd : Exact(c, g)
    BY <1>1, CallNames DEF Follows, InFlight
<1>8. files'[c][f] = <<>>
    BY <1>7 DEF Exact, Writable
<1>9. \A g \in Fd \ {f} : Exact(c, g)'
    BY <1>3, <1>7 DEF Exact, Writable, ll_find
<1> QED
    BY <1>4, <1>5, <1>6, <1>8, <1>9 DEF Follows

\* A call that returns no descriptor leaves the lists exact.
LEMMA FollowNoFd ==
    ASSUME Followed, TrackInv, NEW c \in live, NEW hit,
           call[c].sc # "close", call[c].phase = "pre",
           Returns(c, hit, Null),
           UNCHANGED <<live, tmp, handled, files, fdt>>
    PROVE  OnlyOf(c) /\ Follows(c)'
<1>1. c \in Child /\ Follows(c) /\ \A f \in Fd : f # Null
    BY FollowTypes DEF TrackInv, HookInv, TypeOK
<1>2. /\ call'[c].sc = call[c].sc /\ call'[c].phase = "post"
      /\ call'[c].ret = Null
      /\ \A d \in Child \ {c} : call'[d] = call[d]
    BY <1>1, ReturnedCall DEF TrackInv
<1>3. OnlyOf(c)
    BY <1>2 DEF OnlyOf
<1>4. Promise(c)'
    BY <1>1, <1>2 DEF Follows, Promise
<1>5. \A f \in Fd : ~InFlight(c, f) /\ ~InFlight(c, f)'
    BY <1>1, <1>2, CallNames DEF InFlight
<1>6. \A f \in Fd : Exact(c, f)'
    BY <1>1, <1>5 DEF Follows, Exact, FileOf, ll_find
<1> QED
    BY <1>3, <1>4, <1>5, <1>6 DEF Follows

\* The kernel opens a stub device for writing only with a name put aside.
LEMMA FollowKernelOpen ==
    ASSUME Followed, TrackInv, NEW c \in Child, KernelOpen(c)
    PROVE  OnlyOf(c) /\ live' = live /\ Follows(c)'
<1> DEFINE k == call[c]
           o == [obj |-> Target(k), wr |-> k.wr, made |-> FALSE]
<1>1. PICK f \in Fd :
         /\ LowestFree(TableOf[c], f)
         /\ fdt' = [fdt EXCEPT ![TableOf[c]][f] = o]
         /\ Returns(c, Target(k), f)
    BY DEF KernelOpen
<1>2. /\ k.sc \in OpenCall /\ k.phase = "pre" /\ c \in live
      /\ Target(k) # Absent
      /\ UNCHANGED <<live, tmp, handled, files>>
    BY DEF KernelOpen, InKernel, mbc
<1>3. FileOf(c, f) = Null
    BY <1>1 DEF LowestFree, FileOf
<1>4. /\ o # Null /\ o.wr = k.wr /\ o.obj = Target(k)
      /\ k.wr \in BOOLEAN /\ k.path \in Path
    <2>1. k \in Call /\ k.sc \in PathCall
        BY <1>2, CallTypes, CallNames DEF TrackInv, HookInv
    <2>2. k.path \in Path
        BY <1>2, <2>1, FollowTypes DEF TrackInv
    <2>3. o \in OpenFile
        BY <1>2, <2>1, <2>2, TargetType DEF Call, OpenFile, TrackInv, HookInv
    <2>4. o # Null
        BY <2>3, FsrAssumption
    <2> QED
        BY <2>1, <2>2, <2>4 DEF Call
<1>5. Due(tmp[c], o)
    <2>0. k.path \in Path /\ Meant[k.path] = k.path
        BY <1>4 DEF Followed, PlainName
    <2>1. Aims(k, tmp[c])
        BY <1>2, CallNames DEF TrackInv, Follows, Promise
    <2>2. ~(k.to = Null /\ ~k.follow /\ IsLink(k.path))
        BY <1>2, <2>0 DEF Target
    <2>3. CASE tmp[c] # Null /\ k.wr /\ k.to = DeviceOf(tmp[c]) /\ k.to # Null
        <3>1. get_fstab_rec(Node0, tmp[c]) \in BindRec
            BY <2>3 DEF TrackInv, NamesKept, Kept
        <3>2. k.to \in Stub
            BY <2>3, <3>1 DEF DeviceOf, Stub
        <3>3. Writable(o) /\ o.obj = DeviceOf(tmp[c])
            BY <1>4, <2>3, <3>2 DEF Writable, Target
        <3> HIDE DEF o
        <3> QED
            BY <2>3, <3>3 DEF Due
    <2>4. CASE /\ tmp[c] = Null
               /\ \/ ~k.wr
                  \/ k.to # Null /\ k.to \notin Stub
                  \/ k.to = Null /\ Node0[Link[k.path]] \notin Stub
        <3>1. k.to = Null => Target(k) = node[Link[k.path]]
            BY <2>2, <1>4, <2>0 DEF Target, stat, IsLink
        <3>2. Link[k.path] \in Path
            BY <1>4, PathAssumption
        <3>3. k.to = Null => Target(k) = Node0[Link[k.path]]
            BY <1>2, <3>1, <3>2 DEF TrackInv, NodesComeAndGo
        <3>4. ~Writable(o)
            BY <1>4, <2>4, <3>3 DEF Writable, Target
        <3> HIDE DEF o
        <3> QED
            BY <2>4, <3>4 DEF Due
    <2> QED
        BY <2>1, <2>2, <2>3, <2>4 DEF Aims
<1> HIDE DEF o
<1> QED
    BY <1>1, <1>2, <1>3, <1>4, <1>5, FollowNewFd

\* The kernel's part of a call.
LEMMA FollowKernel ==
    ASSUME Followed, TrackInv, NEW c \in Child, Kernel(c)
    PROVE  OnlyOf(c) /\ live' = live /\ Follows(c)'
<1>1. /\ c \in live /\ call[c].phase = "pre"
      /\ UNCHANGED <<live, tmp, handled, files>>
    BY DEF Kernel, KernelOpen, KernelPath, KernelError, KernelClose, KernelDup,
           KernelDupError, KernelMount, InKernel, mbc
<1>2. CASE KernelOpen(c)
    BY <1>2, FollowKernelOpen
<1>3. CASE KernelPath(c) \/ KernelError(c) \/ KernelMount(c)
    <2>1. call[c].sc # "close" /\ UNCHANGED fdt
        BY <1>3, CallNames
        DEF KernelPath, KernelError, KernelMount, InKernel, kern
    <2>2. \E hit \in Obj \cup {Null, Absent} : Returns(c, hit, Null)
        <3>1. KernelError(c) => Returns(c, Null, Null)
            BY DEF KernelError
        <3>2. ASSUME KernelPath(c) \/ KernelMount(c)
              PROVE  Returns(c, Target(call[c]), Null)
            BY <3>2 DEF KernelPath, KernelMount
        <3>3. ASSUME KernelPath(c) \/ KernelMount(c)
              PROVE  call[c].path \in Path
            BY <3>3 DEF KernelPath, KernelMount, InKernel, TrackInv, HookInv,
                        CallHasArguments
        <3> QED
            BY <1>3, <3>1, <3>2, <3>3, TargetType DEF TrackInv, HookInv
    <2> QED
        BY <1>1, <2>1, <2>2, FollowNoFd
<1>4. CASE KernelDupError(c)
    <2>1. call[c].sc # "close" /\ UNCHANGED fdt /\ Returns(c, Null, Null)
        BY <1>4 DEF KernelDupError, InKernel, kern
    <2> QED
        BY <1>1, <2>1, FollowNoFd
<1>5. CASE KernelDup(c)
    <2>1. call[c].sc = "dup"
        BY <1>1, <1>5 DEF KernelDup, InKernel, TrackInv, Follows, Promise
    <2>2. PICK f \in Fd :
             /\ FileOf(c, f) = Null
             /\ fdt' = [fdt EXCEPT ![TableOf[c]][f] = FileOf(c, call[c].fd)]
             /\ Returns(c, Null, f)
        BY <1>5, <2>1 DEF KernelDup, LowestFree, FileOf
    <2>3. FileOf(c, call[c].fd) # Null
        BY <1>5 DEF KernelDup, FileOf
    <2>4. Due(tmp[c], FileOf(c, call[c].fd))
        BY <1>1, <2>1 DEF TrackInv, Follows, Promise
    <2> QED
        BY <1>1, <2>1, <2>2, <2>3, <2>4, FollowNewFd
<1>6. CASE KernelClose(c)
    <2>1. /\ call[c].sc = "close"
          /\ call' = [call EXCEPT ![c] = Idle]
          /\ fdt' = [fdt EXCEPT ![TableOf[c]][call[c].fd] = Null]
        BY <1>6 DEF KernelClose, InKernel
    <2>2. /\ call'[c].sc = "none" /\ call'[c].phase = "user"
          /\ \A d \in Child \ {c} : call'[d] = call[d]
        BY <2>1 DEF TrackInv, HookInv, TypeOK, Idle
    <2>3. TableOf[c] \in Table /\ Follows(c)
        BY <1>1, FollowTypes DEF TrackInv
    <2>4. OnlyOf(c)
        BY <1>1, <2>1, <2>2, <2>3
        DEF OnlyOf, Followed, OwnTables, TrackInv, HookInv, TypeOK
    <2>5. Promise(c)' /\ \A f \in Fd : ~InFlight(c, f)'
        BY <2>2, CallNames DEF Promise, InFlight
    <2>6. ASSUME NEW f \in Fd PROVE Exact(c, f)'
        <3>1. CASE f = call[c].fd
            <4>1. files[c][f] = <<>>
                BY <2>1, <2>3, <3>1 DEF Follows, InFlight
            <4>2. FileOf(c, f)' = Null
                BY <2>1, <2>3, <3>1 DEF FileOf, TrackInv, HookInv, TypeOK
            <4> QED
                BY <1>1, <4>1, <4>2 DEF Exact, Writable
        <3>2. CASE f # call[c].fd
            <4>1. Exact(c, f)
                BY <2>1, <2>3, <3>2, CallNames DEF Follows, InFlight
            <4>2. FileOf(c, f)' = FileOf(c, f)
                BY <2>1, <2>3, <3>2 DEF FileOf, TrackInv, HookInv, TypeOK
            <4> QED
                BY <1>1, <4>1, <4>2 DEF Exact, ll_find, Writable
        <3> QED
            BY <3>1, <3>2
    <2> QED
        BY <1>1, <2>4, <2>5, <2>6 DEF Follows
<1> QED
    BY <1>2, <1>3, <1>4, <1>5, <1>6 DEF Kernel

\* An exit hook makes the entry of a new descriptor if the name is put aside.
LEMMA FollowExit ==
    ASSUME Followed, TrackInv, NEW c \in live,
           call[c].sc # "close", call[c].phase = "post",
           call' = [call EXCEPT ![c] = Idle],
           IF /\ call[c].sc \in OpenCall \cup {"dup"}
              /\ tmp[c] # Null /\ call[c].ret # Null
           THEN /\ make_fdinfo_safe(tmp[c])
                /\ \E q \in ll_add(files[c][call[c].ret], make_fdinfo(tmp[c])) :
                      files' = [files EXCEPT ![c][call[c].ret] = q]
           ELSE UNCHANGED files,
           \A d \in Child \ {c} : tmp'[d] = tmp[d] /\ handled'[d] = handled[d],
           UNCHANGED <<live, fdt>>
    PROVE  OnlyOf(c) /\ Follows(c)'
<1>1. /\ c \in Child /\ Follows(c) /\ call[c].ret \in Fd \cup {Null}
      /\ \A f \in Fd : f # Null
    BY FollowTypes DEF TrackInv, HookInv, TypeOK
<1>2. /\ call'[c].sc = "none" /\ call'[c].phase = "user"
      /\ \A d \in Child \ {c} : call'[d] = call[d]
    BY <1>1 DEF TrackInv, HookInv, TypeOK, Idle
<1>3. /\ \A d \in Child \ {c} : files'[d] = files[d]
      /\ \A f \in Fd \ {call[c].ret} : files'[c][f] = files[c][f]
    BY <1>1 DEF TrackInv, HookInv, TypeOK
<1>4. OnlyOf(c)
    BY <1>2, <1>3 DEF OnlyOf
<1>5. Promise(c)' /\ \A f \in Fd : ~InFlight(c, f)'
    BY <1>2, CallNames DEF Promise, InFlight
<1>6. ASSUME NEW f \in Fd PROVE Exact(c, f)'
    <2>1. CASE call[c].sc \in OpenCall \cup {"dup"} /\ f = call[c].ret
        <3>1. Due(tmp[c], FileOf(c, f)) /\ files[c][f] = <<>>
            BY <1>1, <2>1 DEF Follows, Promise, InFlight
        <3>2. CASE tmp[c] # Null
            <4> DEFINE x == make_fdinfo(tmp[c])
            <4>1. make_fdinfo_safe(tmp[c]) /\ f # Null /\ tmp[c] \in Path
                BY <1>1, <2>1, <3>2, FollowTypes DEF TrackInv
            <4>2. files' = [files EXCEPT ![c][f] = <<x>>]
                <5>1. PICK q \in ll_add(<<>>, x) :
                        files' = [files EXCEPT ![c][f] = q]
                    BY <2>1, <3>1, <3>2, <4>1
                <5>2. x \in FdInfo
                    BY <4>1, MakeFdinfoType DEF TrackInv, HookInv
                <5> HIDE DEF x
                <5>3. q = <<x>>
                    BY <5>1, <5>2 DEF ll_add
                <5> QED
                    BY <5>1, <5>3
            <4>3. x.device = DeviceOf(tmp[c])
                <5>1. get_fstab_rec(node, tmp[c]) = get_fstab_rec(Node0, tmp[c])
                    BY <4>1, LookupOnce DEF make_fdinfo_safe, TrackInv, Followed
                <5> QED
                    BY <5>1 DEF make_fdinfo, DeviceOf
            <4> HIDE DEF x
            <4>4. files'[c][f] = <<x>>
                BY <1>1, <4>2 DEF TrackInv, HookInv, TypeOK
            <4>5. Len(files'[c][f]) = 1 /\ Head(files'[c][f]) = x
                BY <4>4
            <4> QED
                BY <3>1, <3>2, <4>3, <4>5 DEF Exact, Due, FileOf, ll_find, Writable
        <3>3. CASE tmp[c] = Null
            BY <3>1, <3>3 DEF Exact, Due, FileOf, Writable
        <3> QED
            BY <3>2, <3>3
    <2>2. CASE ~(call[c].sc \in OpenCall \cup {"dup"} /\ f = call[c].ret)
        <3>1. Exact(c, f)
            BY <1>1, <2>2 DEF Follows, InFlight
        <3>2. files'[c][f] = files[c][f]
            BY <1>3, <2>2
        <3> QED
            BY <3>1, <3>2 DEF Exact, FileOf, ll_find, Writable
    <2> QED
        BY <2>1, <2>2
<1> QED
    BY <1>4, <1>5, <1>6 DEF Follows

\* The exit hooks.
LEMMA FollowPost ==
    ASSUME Followed, TrackInv, NEW c \in Child, HookPost(c),
           ~Crash
    PROVE  OnlyOf(c) /\ live' = live /\ Follows(c)'
<1>1. CASE hook_fileaccess_post(c)
    <2>1. /\ c \in live /\ call[c].phase = "post" /\ call[c].sc \in PathCall
          /\ call' = [call EXCEPT ![c] = Idle]
          /\ UNCHANGED <<live, fdt>>
        BY <1>1 DEF hook_fileaccess_post, AtExit, kern
    <2>2. \A d \in Child \ {c} : tmp'[d] = tmp[d] /\ handled'[d] = handled[d]
        BY <1>1 DEF hook_fileaccess_post, DropTmp, TrackInv, HookInv, TypeOK
    <2>3. Registers(c) <=> /\ call[c].sc \in OpenCall \cup {"dup"}
                           /\ tmp[c] # Null /\ call[c].ret # Null
        BY <2>1, CallNames DEF Registers, TrackInv, Follows, Promise
    <2>4. /\ Registers(c) =>
                /\ make_fdinfo_safe(tmp[c])
                /\ \E q \in ll_add(files[c][call[c].ret], make_fdinfo(tmp[c])) :
                      files' = [files EXCEPT ![c][call[c].ret] = q]
          /\ ~Registers(c) => UNCHANGED files
        BY <1>1 DEF hook_fileaccess_post
    <2>5. call[c].sc # "close"
        BY <2>1, CallNames
    <2> QED
        BY <2>1, <2>2, <2>3, <2>4, <2>5, FollowExit
<1>2. CASE hook_dup_post(c)
    <2>1. /\ c \in live /\ call[c].phase = "post" /\ call[c].sc \in {"dup", "dup2"}
          /\ call' = [call EXCEPT ![c] = Idle]
          /\ UNCHANGED <<live, fdt, handled>>
          /\ tmp' = [tmp EXCEPT ![c] = Null]
        BY <1>2 DEF hook_dup_post, AtExit, kern
    <2>2. \A d \in Child \ {c} : tmp'[d] = tmp[d]
        BY <2>1 DEF TrackInv, HookInv, TypeOK
    <2>3. call[c].sc = "dup"
        BY <2>1 DEF TrackInv, Follows, Promise
    <2>4. IF tmp[c] # Null /\ call[c].ret # Null
          THEN /\ make_fdinfo_safe(tmp[c])
               /\ \E q \in ll_add(files[c][call[c].ret], make_fdinfo(tmp[c])) :
                     files' = [files EXCEPT ![c][call[c].ret] = q]
          ELSE UNCHANGED files
        BY <1>2 DEF hook_dup_post
    <2> QED
        BY <2>1, <2>2, <2>3, <2>4, FollowExit
<1>3. CASE hook_mount_post(c)
    <2>1. /\ c \in live /\ call[c].phase = "post" /\ call[c].sc = "mount"
          /\ call' = [call EXCEPT ![c] = Idle]
          /\ UNCHANGED <<live, fdt, handled, tmp, files>>
        BY <1>3 DEF hook_mount_post, AtExit, kern
    <2> QED
        BY <2>1, FollowExit, CallNames
<1> QED
    BY <1>1, <1>2, <1>3 DEF HookPost, hook_fileaccess_crash, hook_dup_crash

\* When no device is exchanged under a descriptor, every process keeps to its
\* list.
LEMMA FollowOthers ==
    ASSUME Followed, TrackInv,
           UNCHANGED <<call, tmp, handled, files>>, live' \subseteq live,
           \A d \in live, f \in Fd : SameFile(FileOf(d, f), FileOf(d, f)')
    PROVE  \A d \in live' : Follows(d)'
<1>1. \A d \in live : d \in Child /\ Follows(d)
    BY DEF TrackInv, HookInv, TypeOK
<1> QED
    BY <1>1, FollowsFrame DEF TrackInv

\* Mkfs marks the open file and leaves its device and mode.
LEMMA FollowMkfs ==
    ASSUME TrackInv, NEW c \in Child, NEW f \in Fd, NEW fs, Mkfs(c, f, fs)
    PROVE  \A d \in live, g \in Fd : SameFile(FileOf(d, g), FileOf(d, g)')
<1> DEFINE t == TableOf[c]
           o == [fdt[t][f] EXCEPT !.made = TRUE]
<1>1. /\ t \in Table /\ fdt[t][f] \in OpenFile
      /\ fdt' = [fdt EXCEPT ![t][f] = o]
    BY FollowTypes DEF Mkfs, TrackInv, HookInv, TypeOK, FileOf
<1>2. /\ o \in OpenFile
      /\ o.obj = fdt[t][f].obj /\ o.wr = fdt[t][f].wr
    BY <1>1 DEF OpenFile
<1>3. o # Null /\ fdt[t][f] # Null
    BY <1>1, <1>2, FsrAssumption
<1> HIDE DEF o
<1>4. ASSUME NEW s \in Table, NEW g \in Fd
      PROVE  \/ s = t /\ g = f /\ fdt'[s][g] = o
             \/ fdt'[s][g] = fdt[s][g]
    BY <1>1 DEF TrackInv, HookInv, TypeOK
<1>5. \A d \in live : TableOf[d] \in Table
    BY FsrAssumption DEF TrackInv, HookInv, TypeOK
<1> QED
    BY <1>2, <1>3, <1>4, <1>5 DEF SameFile, FileOf, Writable

\* One step keeps the lists.
LEMMA FollowNext ==
    ASSUME Followed, TrackInv, [Next]_vars
    PROVE  \A d \in live' : Follows(d)'
<1>1. \A d \in live : d \in Child /\ Follows(d)
    BY DEF TrackInv, HookInv, TypeOK
<1>2. ASSUME UNCHANGED <<live, call, tmp, handled, files, fdt>>
      PROVE  \A d \in live' : Follows(d)'
    <2>1. \A d \in live, f \in Fd : SameFile(FileOf(d, f), FileOf(d, f)')
        BY <1>2 DEF SameFile, FileOf
    <2> QED
        BY <1>2, <2>1, FollowOthers
<1>3. Crash => UNCHANGED <<live, call, tmp, handled, files, fdt>>
    BY DEF Crash, mbc, kern
<1>4. ASSUME NEW c \in Child, HookPre(c) \/ Kernel(c) \/ HookPost(c)
      PROVE  \A d \in live' : Follows(d)'
    <2>1. CASE HookPre(c)
        BY <2>1, FollowPre
    <2>2. CASE Kernel(c)
        BY <2>2, FollowKernel, OthersFollow
    <2>3. CASE HookPost(c) /\ ~Crash
        BY <2>3, FollowPost, OthersFollow
    <2> QED
        BY <1>2, <1>3, <1>4, <2>1, <2>2, <2>3
<1>5. ASSUME NEW c \in Child, NEW d \in Child, ChildCreate(c, d)
      PROVE  FALSE
    BY <1>5 DEF ChildCreate, Followed, OwnTables
<1>6. ASSUME NEW c \in Child, ChildDestroy(c)
      PROVE  \A d \in live' : Follows(d)'
    <2>1. OnlyOf(c) /\ live' \subseteq live /\ c \notin live'
        BY <1>6, FsrAssumption
        DEF ChildDestroy, OnlyOf, Followed, OwnTables, TrackInv, HookInv, TypeOK
    <2> QED
        BY <2>1, OthersFollow
<1>7. CASE Environment
    <2>1. ASSUME NEW c \in Child, NEW f \in Fd, NEW fs \in FsTypes, Mkfs(c, f, fs)
          PROVE  \A d \in live' : Follows(d)'
        <3>1. UNCHANGED <<live, call, tmp, handled, files>>
            BY <2>1 DEF Mkfs, mbc
        <3>2. \A d \in live, g \in Fd : SameFile(FileOf(d, g), FileOf(d, g)')
            BY <2>1, FollowMkfs
        <3> QED
            BY <3>1, <3>2, FollowOthers
    <2>2. ASSUME NEW i \in BindRec, NEW name \in Names, WriteFile(i, name)
          PROVE  UNCHANGED <<live, call, tmp, handled, files, fdt>>
        BY <2>2 DEF WriteFile, mbc, kern
    <2>3. ASSUME NEW i \in BindRec, Umount(i)
          PROVE  UNCHANGED <<live, call, tmp, handled, files, fdt>>
        BY <2>3 DEF Umount, mbc
    <2>4. ASSUME NEW p \in Removable, Replug(p)
          PROVE  UNCHANGED <<live, call, tmp, handled, files, fdt>>
        BY <2>4 DEF Replug, mbc
    <2>5. Tick \/ SetBack => UNCHANGED <<live, call, tmp, handled, files, fdt>>
        BY DEF Tick, SetBack, mbc, kern
    <2> QED
        BY <1>2, <1>7, <2>1, <2>2, <2>3, <2>4, <2>5 DEF Environment
<1>8. CASE UNCHANGED vars
    BY <1>2, <1>8 DEF vars, mbc, kern
<1> QED
    BY <1>4, <1>5, <1>6, <1>7, <1>8 DEF Next

\* One step keeps the device of an entry with its name.
LEMMA EntriesNamedNext ==
    ASSUME LookupsAgree, TypeOK, EntriesNamed, [Next]_vars
    PROVE  EntriesNamed'
<1> SUFFICES ASSUME NEW c \in Child, NEW f \in Fd,
                    NEW k \in 1..Len(files'[c][f])
             PROVE  files'[c][f][k].device = DeviceOf(files'[c][f][k].filename)
    BY DEF EntriesNamed, DeviceOf
<1>1. ListStep
    BY NextFiles
<1>2. CASE \E j \in 1..Len(files[c][f]) : files'[c][f][k] = files[c][f][j]
    BY <1>2 DEF EntriesNamed
<1>3. CASE /\ tmp[c] \in Path /\ make_fdinfo_safe(tmp[c])
           /\ files'[c][f][k] = make_fdinfo(tmp[c])
    <2>1. get_fstab_rec(node, tmp[c]) = get_fstab_rec(Node0, tmp[c])
        BY <1>3 DEF make_fdinfo_safe, LookupsAgree
    <2> QED
        BY <1>3, <2>1 DEF make_fdinfo, DeviceOf
<1> QED
    BY <1>1, <1>2, <1>3 DEF ListStep

\* The invariant is inductive.
LEMMA TrackNext ==
    ASSUME Followed
    PROVE  TrackInv /\ [Next]_vars => TrackInv'
<1> SUFFICES ASSUME TrackInv, [Next]_vars PROVE TrackInv'
    OBVIOUS
<1>1. LookupsAgree
    BY LookupOnce DEF LookupsAgree, Followed, TrackInv
<1>2. HookInv' /\ NodesComeAndGo'
    BY TypeNext, ScratchNext, NodesNext DEF TrackInv, HookInv
<1>3. NamesKept' /\ EntriesNamed'
    BY <1>1, NamesNext, EntriesNamedNext DEF TrackInv, HookInv
<1>4. \A d \in live' : Follows(d)'
    BY FollowNext
<1> QED
    BY <1>2, <1>3, <1>4 DEF TrackInv

\* Nothing is open when the tracer starts.
LEMMA TrackInit ==
    Init => TrackInv
<1> SUFFICES ASSUME Init PROVE TrackInv
    OBVIOUS
<1>1. HookInv /\ NodesComeAndGo /\ NamesKept
    BY LookupInit, NamesInit
<1>2. EntriesNamed
    <2>1. \A c \in Child, f \in Fd : 1..Len(files[c][f]) = {}
        BY DEF Init, NoFiles
    <2> QED
        BY <2>1 DEF EntriesNamed
<1>3. ASSUME NEW c \in live PROVE Follows(c)
    <2>1. /\ c \in Child /\ call[c].sc = "none" /\ call[c].phase = "user"
          /\ files[c] = NoFiles /\ fdt[TableOf[c]] = NoFds
        BY <1>1, FsrAssumption DEF Init, Idle, HookInv, TypeOK
    <2> QED
        BY <2>1, CallNames
        DEF Follows, Promise, InFlight, Exact, Writable, FileOf, NoFiles, NoFds
<1> QED
    BY <1>1, <1>2, <1>3 DEF TrackInv

\* Between two system calls the list of a process holds exactly the
\* descriptors through which it can write to a stub device, each once and
\* under the device that it is open on.
THEOREM ListsFollowDescriptors ==
    ASSUME Followed
    PROVE  Spec => []TracksWhatIsOpen
<1>1. TrackInv => TracksWhatIsOpen
    <2> SUFFICES ASSUME TrackInv, NEW c \in live, NEW f \in Fd, call[c] = Idle
                 PROVE  /\ Tracked(c, f) <=> Writable(FileOf(c, f))
                        /\ Writable(FileOf(c, f)) =>
                              /\ Len(files[c][f]) = 1
                              /\ ll_find(c, f).device = FileOf(c, f).obj
        BY DEF TracksWhatIsOpen, Writable, FileOf
    <2>1. c \in Child /\ Follows(c)
        BY DEF TrackInv, HookInv, TypeOK
    <2>2. ~InFlight(c, f)
        BY CallNames DEF InFlight, Idle
    <2>3. Exact(c, f)
        BY <2>1, <2>2 DEF Follows
    <2> QED
        BY <2>1, <2>3, ExactEntry DEF Exact
<1>2. TrackInv /\ [Next]_vars => TrackInv'
    BY TrackNext
<1> QED
    BY <1>1, <1>2, TrackInit, PTL DEF Spec

-----------------------------------------------------------------------------
(***************************************************************************)
(* The bind directories                                                    *)
(*                                                                         *)
(* First what one step does to the open files, to the file systems and to  *)
(* the directories.                                                        *)
(***************************************************************************)
\* A descriptor that can write to a stub device and that the list shows.
Pending(c, f) == Writable(FileOf(c, f)) /\ ~InFlight(c, f)

\* An entry hook begins a call, or the tracer is aborted.
LEMMA PreCall ==
    ASSUME NEW c \in Child, HookPre(c)
    PROVE  \/ UNCHANGED <<live, call, fdt>>
           \/ \E k : /\ k.phase = "pre"
                     /\ k.sc = "close" => hook_close_pre(c, k.fd)
                     /\ call' = [call EXCEPT ![c] = k]
                     /\ UNCHANGED <<live, fdt>>
<1> DEFINE Begins ==
             \E k : /\ k.phase = "pre"
                    /\ k.sc = "close" => hook_close_pre(c, k.fd)
                    /\ call' = [call EXCEPT ![c] = k]
                    /\ UNCHANGED <<live, fdt>>
<1>1. ASSUME NEW sc \in Syscalls, NEW p \in Path, NEW wr \in BOOLEAN,
             NEW nofollow \in BOOLEAN, NEW stray \in BOOLEAN,
             hook_fileaccess_pre(c, sc, p, wr, nofollow, stray)
      PROVE  Begins
    <2>1. PICK to : call' = [call EXCEPT ![c] =
                      [Idle EXCEPT !.sc = sc, !.phase = "pre", !.path = p,
                                   !.wr = wr, !.to = to,
                                   !.follow = KernelFollows(sc, nofollow)]]
        BY <1>1 DEF hook_fileaccess_pre
    <2> DEFINE k == [Idle EXCEPT !.sc = sc, !.phase = "pre", !.path = p,
                                 !.wr = wr, !.to = to,
                                 !.follow = KernelFollows(sc, nofollow)]
    <2>2. k.phase = "pre" /\ k.sc # "close" /\ call' = [call EXCEPT ![c] = k]
        BY <2>1, CallNames, FsrAssumption DEF Idle
    <2> HIDE DEF k
    <2> QED
        BY <1>1, <2>2 DEF hook_fileaccess_pre, kern
<1>2. ASSUME NEW fd \in Fd, hook_close_pre(c, fd)
      PROVE  Begins
    <2> DEFINE k == [Idle EXCEPT !.sc = "close", !.phase = "pre", !.fd = fd]
    <2>1. k.phase = "pre" /\ k.fd = fd /\ call' = [call EXCEPT ![c] = k]
        BY <1>2 DEF hook_close_pre, Idle
    <2>2. UNCHANGED <<live, fdt>>
        BY <1>2 DEF hook_close_pre, kern
    <2> HIDE DEF k
    <2> QED
        BY <1>2, <2>1, <2>2
<1>3. ASSUME NEW sc \in {"dup", "dup2"}, NEW fd \in Fd,
             NEW newfd \in Fd \cup {Null}, hook_dup_pre(c, sc, fd, newfd)
      PROVE  Begins
    <2> DEFINE k == [Idle EXCEPT !.sc = sc, !.phase = "pre", !.fd = fd,
                                 !.newfd = newfd]
    <2>1. k.phase = "pre" /\ k.sc # "close" /\ call' = [call EXCEPT ![c] = k]
        BY <1>3 DEF hook_dup_pre, Idle
    <2> HIDE DEF k
    <2> QED
        BY <1>3, <2>1 DEF hook_dup_pre, kern
<1>4. ASSUME NEW p \in Path, NEW asec \in BOOLEAN, hook_mount_pre(c, p, asec)
      PROVE  Begins
    <2>1. PICK to : call' = [call EXCEPT ![c] =
                      [Idle EXCEPT !.sc = "mount", !.phase = "pre",
                                   !.path = p, !.follow = TRUE, !.to = to]]
        BY <1>4 DEF hook_mount_pre
    <2> DEFINE k == [Idle EXCEPT !.sc = "mount", !.phase = "pre",
                                 !.path = p, !.follow = TRUE, !.to = to]
    <2>2. k.phase = "pre" /\ k.sc # "close" /\ call' = [call EXCEPT ![c] = k]
        BY <2>1 DEF Idle
    <2> HIDE DEF k
    <2> QED
        BY <1>4, <2>2 DEF hook_mount_pre, kern
<1>5. Abort => UNCHANGED <<live, call, fdt>>
    BY DEF Abort, kern
<1> HIDE DEF Begins
<1>6. Begins \/ UNCHANGED <<live, call, fdt>>
    BY <1>1, <1>2, <1>3, <1>4, <1>5, HookPreCases
<1> QED
    BY <1>6 DEF Begins

\* Only a close takes an open file from the list of its process; mkfs may
\* mark it.
LEMMA StaysOpen ==
    ASSUME Followed, "exit" \notin Workload, TrackInv, [Next]_vars,
           NEW c \in live, NEW f \in Fd, Pending(c, f), ~hook_close_pre(c, f)
    PROVE  /\ c \in live' /\ Pending(c, f)'
           /\ FileOf(c, f)'.obj = FileOf(c, f).obj
           /\ FileOf(c, f).made => FileOf(c, f)'.made
<1> DEFINE Stays == live' = live /\ FileOf(c, f)' = FileOf(c, f)
                    /\ ~InFlight(c, f)'
<1>1. c \in Child /\ TableOf[c] \in Table /\ FileOf(c, f) # Null /\ f # Null
    BY FollowTypes DEF TrackInv, HookInv, TypeOK, Pending, Writable
<1>2. SUFFICES \/ Stays
               \/ \E d \in Child, g \in Fd, fs \in FsTypes : Mkfs(d, g, fs)
    <2>1. ASSUME NEW d \in Child, NEW g \in Fd, NEW fs \in FsTypes, Mkfs(d, g, fs)
          PROVE  /\ c \in live' /\ Pending(c, f)'
                 /\ FileOf(c, f)'.obj = FileOf(c, f).obj
                 /\ FileOf(c, f).made => FileOf(c, f)'.made
        <3>1. UNCHANGED <<live, call>>
            BY <2>1 DEF Mkfs
        <3>2. SameFile(FileOf(c, f), FileOf(c, f)')
            BY <2>1, FollowMkfs
        <3>3. Pending(c, f)' /\ FileOf(c, f)'.obj = FileOf(c, f).obj
            BY <3>1, <3>2 DEF Pending, SameFile, InFlight
        <3>4. FileOf(c, f).made => FileOf(c, f)'.made
            <4>1. fdt' = [fdt EXCEPT ![TableOf[d]][g] = [@ EXCEPT !.made = TRUE]]
                BY <2>1 DEF Mkfs
            <4>2. /\ fdt[TableOf[c]] \in [Fd -> OpenFile \cup {Null}]
                  /\ fdt[TableOf[c]][f] \in OpenFile
                BY <1>1 DEF FileOf, TrackInv, HookInv, TypeOK
            <4>3. [fdt[TableOf[c]][f] EXCEPT !.made = TRUE].made = TRUE
                BY <4>2 DEF OpenFile
            <4>4. fdt'[TableOf[c]][f] \in
                      {fdt[TableOf[c]][f],
                       [fdt[TableOf[c]][f] EXCEPT !.made = TRUE]}
                BY <1>1, <4>1 DEF TrackInv, HookInv, TypeOK
            <4> QED
                BY <4>3, <4>4 DEF FileOf
        <3> QED
            BY <3>1, <3>3, <3>4
    <2> QED
        BY <2>1 DEF Pending, Writable
<1>3. ASSUME UNCHANGED <<live, call, fdt>> PROVE Stays
    BY <1>3 DEF Pending, InFlight, FileOf
<1>4. ASSUME NEW d \in Child, OnlyOf(d), live' = live, d # c PROVE Stays
    BY <1>1, <1>4 DEF OnlyOf, Pending, InFlight, FileOf
<1>5. ASSUME NEW d \in Child, HookPre(d) PROVE Stays
    <2>1. CASE UNCHANGED <<live, call, fdt>>
        BY <1>3, <2>1
    <2>2. ASSUME NEW k, k.phase = "pre",
                 k.sc = "close" => hook_close_pre(d, k.fd),
                 call' = [call EXCEPT ![d] = k], UNCHANGED <<live, fdt>>
          PROVE  Stays
        <3>2. CASE d = c
            <4>1. call'[c] = k
                BY <1>1, <2>2, <3>2 DEF TrackInv, HookInv, TypeOK
            <4> QED
                BY <2>2, <3>2, <4>1, CallNames DEF InFlight, FileOf
        <3>3. CASE d # c
            <4>1. call'[c] = call[c]
                BY <1>1, <2>2, <3>3 DEF TrackInv, HookInv, TypeOK
            <4> QED
                BY <2>2, <4>1 DEF InFlight, FileOf, Pending
        <3> QED
            BY <3>2, <3>3
    <2> QED
        BY <1>5, <2>1, <2>2, PreCall
<1>6. ASSUME NEW d \in Child, Kernel(d) PROVE Stays
    <2>1. CASE d # c
        BY <1>4, <1>6, <2>1, FollowKernel
    <2>2. ASSUME d = c, NEW g \in Fd, FileOf(c, g) = Null, NEW o, NEW hit,
                 call[c].phase = "pre", call[c].sc # "close",
                 Returns(c, hit, g), live' = live,
                 fdt' = [fdt EXCEPT ![TableOf[c]][g] = o]
          PROVE  Stays
        <3>1. /\ call'[c].sc = call[c].sc /\ call'[c].ret = g /\ g # f
            BY <1>1, <2>2, ReturnedCall DEF TrackInv
        <3>2. FileOf(c, f)' = FileOf(c, f)
            BY <1>1, <2>2, <3>1 DEF FileOf, TrackInv, HookInv, TypeOK
        <3> QED
            BY <2>2, <3>1, <3>2 DEF InFlight
    <2>3. ASSUME d = c, NEW hit, call[c].phase = "pre", call[c].sc # "close",
                 Returns(c, hit, Null), UNCHANGED <<live, fdt>>
          PROVE  Stays
        <3>1. /\ call'[c].sc = call[c].sc /\ call'[c].ret = Null
            BY <1>1, <2>3, ReturnedCall DEF TrackInv
        <3> QED
            BY <1>1, <2>3, <3>1 DEF InFlight, FileOf
    <2>4. CASE d = c /\ KernelOpen(c)
        <3>1. /\ call[c].phase = "pre" /\ call[c].sc # "close" /\ live' = live
            BY <2>4, CallNames DEF KernelOpen, InKernel
        <3>2. \E g \in Fd : \E o :
                 /\ FileOf(c, g) = Null /\ Returns(c, Target(call[c]), g)
                 /\ fdt' = [fdt EXCEPT ![TableOf[c]][g] = o]
            BY <2>4 DEF KernelOpen, LowestFree, FileOf
        <3> QED
            BY <2>2, <2>4, <3>1, <3>2
    <2>5. CASE d = c /\ KernelDup(c)
        <3>1. /\ call[c].phase = "pre" /\ call[c].sc # "close" /\ live' = live
              /\ call[c].sc = "dup"
            <4>1. Follows(c)
                BY <1>1 DEF TrackInv
            <4> QED
                BY <2>5, <4>1 DEF KernelDup, InKernel, Follows, Promise
        <3>2. \E g \in Fd : \E o :
                 /\ FileOf(c, g) = Null /\ Returns(c, Null, g)
                 /\ fdt' = [fdt EXCEPT ![TableOf[c]][g] = o]
            BY <2>5, <3>1 DEF KernelDup, LowestFree, FileOf
        <3> QED
            BY <2>2, <2>5, <3>1, <3>2
    <2>6. CASE d = c /\ (KernelPath(c) \/ KernelError(c) \/ KernelDupError(c)
                                       \/ KernelMount(c))
        <3>1. /\ call[c].phase = "pre" /\ call[c].sc # "close"
              /\ UNCHANGED <<live, fdt>>
            BY <2>6, CallNames DEF KernelPath, KernelError, KernelDupError,
                                   KernelMount, InKernel, kern
        <3>2. \E hit : Returns(c, hit, Null)
            BY <2>6 DEF KernelPath, KernelError, KernelDupError, KernelMount
        <3> QED
            BY <2>3, <2>6, <3>1, <3>2
    <2>7. CASE d = c /\ KernelClose(c)
        <3>1. call[c].fd # f
            BY <2>7 DEF KernelClose, InKernel, Pending, InFlight
        <3>2. FileOf(c, f)' = FileOf(c, f) /\ live' = live
            BY <1>1, <2>7, <3>1 DEF KernelClose, FileOf, TrackInv, HookInv, TypeOK
        <3>3. call'[c].sc = "none"
            BY <1>1, <2>7 DEF KernelClose, TrackInv, HookInv, TypeOK, Idle
        <3> QED
            BY <3>2, <3>3, CallNames DEF InFlight
    <2> QED
        BY <1>6, <2>1, <2>4, <2>5, <2>6, <2>7 DEF Kernel
<1>7. ASSUME NEW d \in Child, HookPost(d) PROVE Stays
    <2>1. ASSUME call' = [call EXCEPT ![d] = Idle], UNCHANGED <<live, fdt>>
          PROVE  Stays
        <3>1. call'[c] = call[c] \/ call'[c].sc = "none"
            BY <1>1, <2>1 DEF TrackInv, HookInv, TypeOK, Idle
        <3> QED
            BY <2>1, <3>1, CallNames DEF InFlight, FileOf, Pending
    <2>2. \/ call' = [call EXCEPT ![d] = Idle] /\ UNCHANGED <<live, fdt>>
          \/ UNCHANGED <<live, call, fdt>>
        BY <1>7 DEF HookPost, hook_fileaccess_post, hook_fileaccess_crash,
                    hook_dup_post, hook_dup_crash, hook_mount_post, Crash, kern
    <2> QED
        BY <1>3, <2>1, <2>2
<1>8. ASSUME NEW d \in Child, NEW e \in Child,
             ChildCreate(d, e) \/ ChildDestroy(d)
      PROVE  FALSE
    BY <1>8 DEF ChildCreate, ChildDestroy, Followed, OwnTables
<1>9. CASE UNCHANGED vars
    BY <1>3, <1>9 DEF vars, kern
<1>10. CASE Environment
    BY <1>3, <1>10 DEF Environment, WriteFile, Umount, Tick, SetBack, Replug, kern
<1> HIDE DEF Stays
<1> QED
    BY <1>5, <1>6, <1>7, <1>8, <1>9, <1>10 DEF Next, Environment

\* The entry of an open file is the one it had, or it is made in this step,
\* at the exit of the call that returned the descriptor.
LEMMA EntryStep ==
    ASSUME TrackInv, TrackInv', [Next]_vars,
           NEW c \in live, c \in live', NEW f \in Fd, Pending(c, f)'
    PROVE  \/ Pending(c, f) /\ ll_find(c, f)' = ll_find(c, f)
           \/ /\ InFlight(c, f) /\ UNCHANGED <<kern, disk>>
              /\ Writable(FileOf(c, f)) /\ FileOf(c, f)' = FileOf(c, f)
              /\ ll_find(c, f)'.uuid = sb[FileOf(c, f).obj].uuid
<1>1. /\ c \in Child /\ Follows(c) /\ Follows(c)'
      /\ files'[c][f] \in Seq(FdInfo) /\ files[c][f] \in Seq(FdInfo)
    BY DEF TrackInv, HookInv, TypeOK
<1>2. Len(files'[c][f]) = 1 /\ Head(files'[c][f]).device = FileOf(c, f)'.obj
    BY <1>1 DEF Follows, Pending, Exact, ll_find
<1>3. 1 \in 1..Len(files'[c][f]) /\ ll_find(c, f)' = files'[c][f][1]
    BY <1>1, <1>2 DEF ll_find
<1>4. ListStep
    BY NextFiles DEF TrackInv, HookInv
<1>5. CASE \E j \in 1..Len(files[c][f]) : files'[c][f][1] = files[c][f][j]
    <2>1. PICK j \in 1..Len(files[c][f]) : files'[c][f][1] = files[c][f][j]
        BY <1>5
    <2>2. files[c][f] # <<>>
        <3>1. Len(files[c][f]) # 0
            BY <1>1, <2>1
        <3>2. Len(<<>>) = 0
            OBVIOUS
        <3> QED
            BY <3>1, <3>2
    <2>3. Pending(c, f) /\ Len(files[c][f]) = 1
        BY <1>1, <2>2 DEF Follows, Pending, Exact
    <2>4. ll_find(c, f) = files[c][f][1] /\ j = 1
        BY <1>1, <2>1, <2>3 DEF ll_find
    <2> QED
        BY <1>3, <2>1, <2>3, <2>4
<1>6. CASE /\ Returned(c, f) /\ UNCHANGED <<kern, disk>>
           /\ tmp[c] \in Path /\ make_fdinfo_safe(tmp[c])
           /\ files'[c][f][1] = make_fdinfo(tmp[c])
    <2>1. InFlight(c, f)
        BY <1>1, <1>6 DEF Returned, InFlight, Follows, Promise
    <2>2. FileOf(c, f)' = FileOf(c, f) /\ Writable(FileOf(c, f))
        BY <1>6 DEF FileOf, kern, Pending
    <2>3. ll_find(c, f)'.uuid = sb[ll_find(c, f)'.device].uuid
        BY <1>3, <1>6 DEF make_fdinfo
    <2>4. ll_find(c, f)'.device = FileOf(c, f).obj
        BY <1>2, <2>2 DEF ll_find
    <2> QED
        BY <1>6, <2>1, <2>2, <2>3, <2>4
<1> QED
    BY <1>1, <1>3, <1>4, <1>5, <1>6 DEF ListStep

\* A process writes into a mounted directory, and a close empties the one of
\* a format; nothing else touches the directories.
LEMMA DirStep ==
    ASSUME TypeOK, [Next]_vars, NEW i \in RecId
    PROVE  /\ \A g \in dir'[i] \ dir[i] :
                 /\ i \in BindRec /\ UNCHANGED <<sb, call, fdt>>
                 /\ g.uuid = sb[Recs[i].stub].uuid
                 /\ g.held <=> Held(Recs[i].stub)
           /\ \/ dir[i] \subseteq dir'[i]
              \/ \E c \in Child, f \in Fd, j \in BindRec :
                    /\ hook_close_pre(c, f)
                    /\ Tracked(c, f) /\ Formatted(c, f) = j
                    /\ i = j \/ i \in Below[j]
<1>1. CASE UNCHANGED dir
    BY <1>1
<1>2. ASSUME NEW c \in Child, NEW f \in Fd, hook_close_pre(c, f)
      PROVE  /\ dir'[i] \subseteq dir[i]
             /\ \/ dir[i] \subseteq dir'[i]
                \/ \E j \in BindRec : /\ Tracked(c, f) /\ Formatted(c, f) = j
                                      /\ i = j \/ i \in Below[j]
    <2> DEFINE j == Formatted(c, f)
    <2>1. CASE UNCHANGED dir
        BY <2>1
    <2>2. CASE /\ Tracked(c, f) /\ j \in BindRec
               /\ dir' = format_path(j)
        <3>1. dir'[i] = CASE i = j        -> {g \in dir[i] : g.name = "dot"}
                          [] i \in Below[j] -> {}
                          [] OTHER        -> dir[i]
            BY <2>2 DEF format_path
        <3> HIDE DEF j
        <3>2. dir'[i] \subseteq dir[i]
            BY <3>1
        <3>3. dir'[i] = dir[i] \/ i = j \/ i \in Below[j]
            BY <3>1
        <3> QED
            BY <2>2, <3>2, <3>3 DEF j
    <2> QED
        BY <1>2, <2>1, <2>2 DEF hook_close_pre
<1>3. ASSUME NEW j \in BindRec, NEW name \in Names, WriteFile(j, name)
      PROVE  /\ dir[i] \subseteq dir'[i]
             /\ \A g \in dir'[i] \ dir[i] :
                   /\ i \in BindRec /\ UNCHANGED <<sb, call, fdt>>
                   /\ g.uuid = sb[Recs[i].stub].uuid
                   /\ g.held <=> Held(Recs[i].stub)
    <2> DEFINE new == [uuid |-> sb[Recs[j].stub].uuid, name |-> name,
                       held |-> Held(Recs[j].stub)]
    <2>1. dir' = [dir EXCEPT ![j] = @ \cup {new}] /\ UNCHANGED <<sb, call, fdt>>
        BY <1>3 DEF WriteFile, kern
    <2>2. /\ new.uuid = sb[Recs[j].stub].uuid
          /\ new.held <=> Held(Recs[j].stub)
        OBVIOUS
    <2> HIDE DEF new
    <2>3. CASE i = j
        BY <2>1, <2>2, <2>3 DEF TypeOK
    <2>4. CASE i # j
        BY <2>1, <2>4 DEF TypeOK
    <2> QED
        BY <2>3, <2>4
<1>4. ASSUME NEW c \in Child, HookPre(c)
      PROVE  UNCHANGED dir \/ \E f \in Fd : hook_close_pre(c, f)
    <2>1. \A sc \in Syscalls, p \in Path, wr, nofollow, stray \in BOOLEAN :
             hook_fileaccess_pre(c, sc, p, wr, nofollow, stray) => UNCHANGED dir
        BY DEF hook_fileaccess_pre
    <2>2. \A sc \in {"dup", "dup2"}, fd \in Fd, newfd \in Fd \cup {Null} :
             hook_dup_pre(c, sc, fd, newfd) => UNCHANGED dir
        BY DEF hook_dup_pre, disk
    <2>3. \A p \in Path, asec \in BOOLEAN :
             hook_mount_pre(c, p, asec) => UNCHANGED dir
        BY DEF hook_mount_pre, disk
    <2>4. Abort => UNCHANGED dir
        BY DEF Abort, disk
    <2> QED
        BY <1>4, <2>1, <2>2, <2>3, <2>4, HookPreCases
<1>5. ASSUME NEW c \in Child, Kernel(c) \/ HookPost(c) PROVE UNCHANGED dir
    BY <1>5
    DEF Kernel, KernelOpen, KernelPath, KernelError, KernelClose, KernelDup,
        KernelDupError, KernelMount, HookPost, hook_fileaccess_post,
        hook_fileaccess_crash, hook_dup_post, hook_dup_crash, hook_mount_post,
        Crash, disk
<1>6. ASSUME NEW c \in Child, NEW d \in Child,
             ChildCreate(c, d) \/ ChildDestroy(c)
      PROVE  UNCHANGED dir
    BY <1>6 DEF ChildCreate, ChildDestroy, disk
<1>7. ASSUME NEW c \in Child, NEW f \in Fd, NEW fs \in FsTypes, Mkfs(c, f, fs)
      PROVE  UNCHANGED dir
    BY <1>7 DEF Mkfs
<1>8. Tick \/ SetBack \/ (\E j \in BindRec : Umount(j))
           \/ (\E p \in Removable : Replug(p)) \/ UNCHANGED vars
      => UNCHANGED dir
    BY DEF Tick, SetBack, Umount, Replug, vars, disk
<1> QED
    BY <1>1, <1>2, <1>3, <1>4, <1>5, <1>6, <1>7, <1>8 DEF Next, Environment

\* Only mkfs, or an erase, replaces a file system.
LEMMA UuidStep ==
    ASSUME TypeOK, [Next]_vars, NEW s \in Stub, sb'[s].uuid # sb[s].uuid
    PROVE  \E c \in Child, f \in Fd, fs \in FsTypes :
               Mkfs(c, f, fs) /\ FileOf(c, f).obj = s
<1>1. sb'[s] # sb[s]
    OBVIOUS
<1>2. ASSUME NEW c \in Child, HookPre(c) PROVE FALSE
    <2>1. ASSUME NEW sc \in Syscalls, NEW p \in Path, NEW wr \in BOOLEAN,
                 NEW nofollow \in BOOLEAN, NEW stray \in BOOLEAN,
                 hook_fileaccess_pre(c, sc, p, wr, nofollow, stray)
          PROVE  FALSE
        <3>1. \/ sb' = sb
              \/ \E w : sb' = [sb EXCEPT ![Recs[w].stub] = e2fsck(@, clock)]
            BY <2>1 DEF hook_fileaccess_pre
        <3>2. sb'[s] = e2fsck(sb[s], clock)
            BY <1>1, <3>1 DEF TypeOK
        <3>3. sb[s] \in Superblock
            BY DEF TypeOK
        <3> QED
            BY <3>2, <3>3 DEF e2fsck, Superblock
    <2>2. ASSUME NEW fd \in Fd, hook_close_pre(c, fd) PROVE FALSE
        BY <1>1, <2>2 DEF hook_close_pre
    <2>3. ASSUME NEW sc \in {"dup", "dup2"}, NEW fd \in Fd,
                 NEW newfd \in Fd \cup {Null}, hook_dup_pre(c, sc, fd, newfd)
          PROVE  FALSE
        BY <1>1, <2>3 DEF hook_dup_pre, disk
    <2>4. ASSUME NEW p \in Path, NEW asec \in BOOLEAN,
                 hook_mount_pre(c, p, asec)
          PROVE  FALSE
        BY <1>1, <2>4 DEF hook_mount_pre, disk
    <2>5. ASSUME Abort PROVE FALSE
        BY <1>1, <2>5 DEF Abort, disk
    <2> QED
        BY <1>2, <2>1, <2>2, <2>3, <2>4, <2>5, HookPreCases
<1>3. ASSUME NEW c \in Child, Kernel(c) \/ HookPost(c) PROVE FALSE
    BY <1>1, <1>3
    DEF Kernel, KernelOpen, KernelPath, KernelError, KernelClose, KernelDup,
        KernelDupError, KernelMount, HookPost, hook_fileaccess_post,
        hook_fileaccess_crash, hook_dup_post, hook_dup_crash, hook_mount_post,
        Crash, disk
<1>4. ASSUME NEW c \in Child, NEW d \in Child,
             ChildCreate(c, d) \/ ChildDestroy(c)
      PROVE  FALSE
    BY <1>1, <1>4 DEF ChildCreate, ChildDestroy, disk
<1>5. ASSUME NEW c \in Child, NEW f \in Fd, NEW fs \in FsTypes, Mkfs(c, f, fs)
      PROVE  FileOf(c, f).obj = s
    BY <1>1, <1>5 DEF Mkfs, FileOf, TypeOK
<1>6. ~(Tick \/ SetBack \/ (\E j \in BindRec : Umount(j))
             \/ (\E j \in BindRec, name \in Names : WriteFile(j, name))
             \/ (\E p \in Removable : Replug(p)) \/ UNCHANGED vars)
    BY <1>1 DEF Tick, SetBack, Umount, WriteFile, Replug, vars, disk
<1> QED
    BY <1>2, <1>3, <1>4, <1>5, <1>6 DEF Next, Environment

\* mkfs works on an open file that the list shows, and marks it; the new file
\* system is none that was there before.
LEMMA MkfsStep ==
    ASSUME TrackInv, NEW c \in Child, NEW f \in Fd, NEW fs, Mkfs(c, f, fs)
    PROVE  /\ c \in live /\ c \in live' /\ Pending(c, f) /\ Pending(c, f)'
           /\ FileOf(c, f)'.obj = FileOf(c, f).obj /\ FileOf(c, f)'.made
           /\ files'[c][f] = files[c][f]
           /\ UNCHANGED <<dir, mounted, live, call>>
           /\ fs # "none" => sb'[FileOf(c, f).obj].uuid = nextUuid
<1> DEFINE o == FileOf(c, f)
<1>1. /\ Ready(c) /\ o # Null /\ o.wr /\ o.obj \in Stub
      /\ fdt' = [fdt EXCEPT ![TableOf[c]][f] = [o EXCEPT !.made = TRUE]]
      /\ UNCHANGED <<live, call, files, dir, mounted>>
    BY DEF Mkfs, FileOf, mbc
<1>2. /\ o \in OpenFile /\ [o EXCEPT !.made = TRUE] \in OpenFile
      /\ TableOf[c] \in Table
    BY <1>1, FollowTypes DEF OpenFile, TrackInv
<1>3. FileOf(c, f)' = [o EXCEPT !.made = TRUE]
    BY <1>1, <1>2 DEF FileOf, TrackInv, HookInv, TypeOK
<1>4. /\ FileOf(c, f)'.obj = o.obj /\ FileOf(c, f)'.made /\ FileOf(c, f)'.wr
      /\ FileOf(c, f)' # Null
    BY <1>1, <1>2, <1>3, FsrAssumption DEF OpenFile
<1>5. ~InFlight(c, f) /\ ~InFlight(c, f)'
    BY <1>1, CallNames DEF InFlight, Ready, Idle
<1>6. Pending(c, f) /\ Pending(c, f)'
    BY <1>1, <1>4, <1>5 DEF Pending, Writable
<1>7. fs # "none" => sb'[o.obj].uuid = nextUuid
    BY <1>1 DEF Mkfs, FileOf, TrackInv, HookInv, TypeOK, mkfs
<1> QED
    BY <1>1, <1>4, <1>6, <1>7 DEF Ready

\* No process is born while the tracer runs.
LEMMA LiveStep ==
    ASSUME "clone" \notin Workload, [Next]_vars
    PROVE  live' \subseteq live
<1>1. ASSUME NEW c \in Child, HookPre(c) PROVE live' = live
    BY <1>1, PreCall
<1>2. ASSUME NEW c \in Child, Kernel(c) \/ HookPost(c) PROVE live' = live
    BY <1>2
    DEF Kernel, KernelOpen, KernelPath, KernelError, KernelClose, KernelDup,
        KernelDupError, KernelMount, HookPost, hook_fileaccess_post,
        hook_fileaccess_crash, hook_dup_post, hook_dup_crash, hook_mount_post,
        Crash
<1>3. ASSUME NEW c \in Child, NEW d \in Child, ChildCreate(c, d) PROVE FALSE
    BY <1>3 DEF ChildCreate
<1>4. ASSUME NEW c \in Child, ChildDestroy(c) PROVE live' \subseteq live
    BY <1>4 DEF ChildDestroy
<1>5. Environment \/ UNCHANGED vars => live' = live
    BY DEF Environment, Mkfs, WriteFile, Umount, Tick, SetBack, Replug, vars
<1> QED
    BY <1>1, <1>2, <1>3, <1>4, <1>5 DEF Next

\* Besides: names a lookup finds again, file systems that show a format, no
\* process that ends with an open file, no hidden names in a directory, and a
\* stub device for each record.
Mirrorable ==
    /\ Followed /\ NodesNamed /\ Ext4Only
    /\ "exit" \notin Workload
    /\ Names \subseteq {"visible"}
    /\ \A i, j \in BindRec : Recs[i].stub = Recs[j].stub => i = j

\* The directory of record i shows the present file system of its device.
Clean(i) == \A g \in dir[i] : g.uuid = sb[Recs[i].stub].uuid

\* The files in it that were not written between a mkfs and its close do.
Settled(i) == \A g \in dir[i] : g.held \/ g.uuid = sb[Recs[i].stub].uuid

\* The entry that a close finds is the one of its device.
LEMMA CloseEntry ==
    ASSUME Mirrorable, TrackInv, NEW c \in Child, NEW f \in Fd,
           hook_close_pre(c, f), Tracked(c, f)
    PROVE  LET x == ll_find(c, f)
           IN  /\ 1 \in 1..Len(files[c][f]) /\ x = files[c][f][1]
               /\ c \in live /\ Pending(c, f)
               /\ get_fstab_rec(node, x.filename) \in BindRec
               /\ x.device = Recs[get_fstab_rec(node, x.filename)].stub
               /\ x.device = FileOf(c, f).obj
<1> DEFINE x == ll_find(c, f)
<1>1. Ready(c)
    BY DEF hook_close_pre
<1>2. Exact(c, f) /\ c \in live
    BY <1>1, ReadyFollows
<1>3. /\ x \in FdInfo /\ x.device = FileOf(c, f).obj
      /\ x.device = DeviceOf(x.filename) /\ Kept(x.filename)
      /\ Writable(FileOf(c, f))
    BY <1>2, ExactEntry
<1>4. ~InFlight(c, f)
    BY <1>1, CallNames DEF InFlight, Ready, Idle
<1>5. get_fstab_rec(node, x.filename) = get_fstab_rec(Node0, x.filename)
    BY <1>3, LookupSteady DEF Mirrorable, Followed, TrackInv, FdInfo
<1>6. 1 \in 1..Len(files[c][f]) /\ x = files[c][f][1]
    BY HeadEntry DEF TrackInv, HookInv
<1> QED
    BY <1>2, <1>3, <1>4, <1>5, <1>6 DEF Pending, Kept, DeviceOf

\* The close after a format empties the directory.
LEMMA CloseEmpties ==
    ASSUME Mirrorable, TrackInv, FormatInv,
           NEW c \in Child, NEW f \in Fd, NEW i \in BindRec,
           hook_close_pre(c, f), Pending(c, f),
           FileOf(c, f).obj = Recs[i].stub,
           ll_find(c, f).uuid # sb[Recs[i].stub].uuid
    PROVE  dir'[i] = {}
<1> DEFINE x == ll_find(c, f)
<1>1. Tracked(c, f)
    BY ReadyFollows, ExactEntry DEF hook_close_pre, Pending
<1>2. /\ 1 \in 1..Len(files[c][f]) /\ x = files[c][f][1]
      /\ get_fstab_rec(node, x.filename) \in BindRec
      /\ x.device = Recs[get_fstab_rec(node, x.filename)].stub
      /\ x.device = Recs[i].stub
    BY <1>1, CloseEntry
<1>3. get_fstab_rec(node, x.filename) = i
    BY <1>2 DEF Mirrorable
<1>4. fs_was_format(x, sb[x.device])
    BY <1>2, EntryShows
<1>5. Formatted(c, f) = i
    BY <1>3, <1>4 DEF Formatted
<1>6. dir' = format_path(i)
    BY <1>1, <1>5 DEF hook_close_pre
<1>7. i \in RecId /\ dir[i] \subseteq File
    BY DEF BindRec, TrackInv, HookInv, TypeOK
<1>8. \A g \in dir[i] : g.name # "dot"
    BY <1>7 DEF File, Mirrorable
<1> QED
    BY <1>6, <1>7, <1>8 DEF format_path, TrackInv, HookInv, TypeOK

\* A directory that shows the present file system goes on doing so.
LEMMA CleanStays ==
    ASSUME TypeOK, [Next]_vars, NEW i \in BindRec, Clean(i),
           sb'[Recs[i].stub].uuid = sb[Recs[i].stub].uuid
    PROVE  Clean(i)'
<1>1. i \in RecId
    BY DEF BindRec
<1>2. \A g \in dir'[i] : g \in dir[i] \/ g.uuid = sb[Recs[i].stub].uuid
    BY <1>1, DirStep
<1> QED
    BY <1>2 DEF Clean

\* The same of the settled files.
LEMMA SettledStays ==
    ASSUME TypeOK, [Next]_vars, NEW i \in BindRec, Settled(i),
           sb'[Recs[i].stub].uuid = sb[Recs[i].stub].uuid
    PROVE  Settled(i)'
<1>1. i \in RecId
    BY DEF BindRec
<1>2. \A g \in dir'[i] : g \in dir[i] \/ g.uuid = sb[Recs[i].stub].uuid
    BY <1>1, DirStep
<1> QED
    BY <1>2 DEF Settled

\* All directories are empty when the tracer starts, and nothing is open.
LEMMA MirrorInit ==
    Init => /\ \A i \in BindRec : Clean(i)
            /\ \A c \in live, f \in Fd : ~Pending(c, f)
<1> SUFFICES ASSUME Init
             PROVE  /\ \A i \in BindRec : Clean(i)
                    /\ \A c \in live, f \in Fd : ~Pending(c, f)
    OBVIOUS
<1>1. \A t \in Table, f \in Fd : fdt[t][f] = Null
    BY DEF Init, NoFds
<1>2. \A i \in BindRec : dir[i] = {}
    BY DEF Init, BindRec
<1>3. \A c \in live : TableOf[c] \in Table
    BY FsrAssumption DEF Init
<1> QED
    BY <1>1, <1>2, <1>3 DEF Clean, Pending, FileOf, Writable

-----------------------------------------------------------------------------
(***************************************************************************)
(* One writer at a time, with erasing                                      *)
(*                                                                         *)
(* A descriptor that was opened while the device was blank does not show   *)
(* an erase.  It need not when it is the only one: then all the files in   *)
(* the directory that were written before the mkfs are of its own          *)
(* snapshot.                                                               *)
(***************************************************************************)
\* No two open files can write to the same stub device.
SingleWriter ==
    \A t, u \in Table, f, g \in Fd :
        Writable(fdt[t][f]) /\ Writable(fdt[u][g])
                            /\ fdt[t][f].obj = fdt[u][g].obj
            => t = u /\ f = g

\* Open file f of process c is the one that works on the device of record i.
WorksOn(c, f, i) == Pending(c, f) /\ FileOf(c, f).obj = Recs[i].stub

\* While a device is open for writing its directory holds files of the
\* snapshot, which is the present file system before mkfs runs.
SnapshotsHold ==
    \A c \in live, f \in Fd, i \in BindRec :
        WorksOn(c, f, i) =>
            /\ \A g \in dir[i] : g.held \/ g.uuid = ll_find(c, f).uuid
            /\ ~FileOf(c, f).made =>
                  ll_find(c, f).uuid = sb[Recs[i].stub].uuid

\* A directory shows the present file system, or mkfs is still to be closed.
CleanOrHeld ==
    \A i \in BindRec :
        Settled(i) \/ \E c \in live, f \in Fd :
                          WorksOn(c, f, i) /\ FileOf(c, f).made

AloneInv ==
    TrackInv /\ FormatInv /\ SnapshotsHold /\ CleanOrHeld

\* Nobody works on a device that nobody can write to.
LEMMA NobodyWorks ==
    ASSUME HookInv, NEW i \in BindRec, Quiet(Recs[i].stub),
           NEW c \in live, NEW f \in Fd
    PROVE  ~WorksOn(c, f, i)
<1>1. TableOf[c] \in Table
    BY FsrAssumption DEF HookInv, TypeOK
<1> QED
    BY <1>1 DEF WorksOn, Pending, Writable, FileOf, Quiet

\* The one writer of a device.
LEMMA OneWriter ==
    ASSUME Followed, TrackInv, SingleWriter,
           NEW c \in live, NEW d \in live, NEW f \in Fd, NEW g \in Fd,
           Writable(FileOf(c, f)), Writable(FileOf(d, g)),
           FileOf(c, f).obj = FileOf(d, g).obj
    PROVE  c = d /\ f = g
<1>1. c \in Child /\ d \in Child /\ TableOf[c] \in Table /\ TableOf[d] \in Table
    BY FsrAssumption DEF TrackInv, HookInv, TypeOK
<1>2. TableOf[c] = TableOf[d] /\ f = g
    BY <1>1 DEF SingleWriter, FileOf
<1> QED
    BY <1>1, <1>2 DEF Followed, OwnTables

\* One step keeps the directory of an open device at its snapshot.
LEMMA SnapshotsNext ==
    ASSUME Mirrorable, AloneInv, SingleWriter, TrackInv', [Next]_vars
    PROVE  SnapshotsHold'
<1> SUFFICES ASSUME NEW c \in live', NEW f \in Fd, NEW i \in BindRec,
                    WorksOn(c, f, i)'
             PROVE  /\ \A g \in dir'[i] : g.held \/ g.uuid = ll_find(c, f)'.uuid
                    /\ ~FileOf(c, f)'.made =>
                          ll_find(c, f)'.uuid = sb'[Recs[i].stub].uuid
    BY DEF SnapshotsHold
<1> DEFINE s == Recs[i].stub
<1>1. /\ c \in live /\ c \in Child /\ i \in RecId /\ s \in Stub
      /\ TrackInv /\ TypeOK /\ Followed /\ "exit" \notin Workload
      /\ Pending(c, f)' /\ FileOf(c, f)'.obj = s
    BY LiveStep, StubOfRec
    DEF Mirrorable, Followed, OwnTables, AloneInv, TrackInv, HookInv, TypeOK,
        WorksOn
<1> HIDE DEF s
<1>2. CASE Pending(c, f) /\ ll_find(c, f)' = ll_find(c, f)
    <2>1. ~hook_close_pre(c, f)
        <3>1. ASSUME hook_close_pre(c, f) PROVE InFlight(c, f)'
            BY <1>1, <3>1 DEF hook_close_pre, InFlight, Idle, TypeOK
        <3> QED
            BY <1>1, <3>1 DEF Pending
    <2>2. FileOf(c, f).obj = s /\ FileOf(c, f).made => FileOf(c, f)'.made
        BY <1>1, <1>2, <2>1, StaysOpen
    <2>3. /\ FileOf(c, f).obj = s
          /\ \A g \in dir[i] : g.held \/ g.uuid = ll_find(c, f).uuid
          /\ ~FileOf(c, f).made => ll_find(c, f).uuid = sb[s].uuid
        BY <1>1, <1>2, <2>1, StaysOpen DEF AloneInv, SnapshotsHold, WorksOn, s
    <2>4. ~Held(s) => ll_find(c, f).uuid = sb[s].uuid
        <3>1. TableOf[c] \in Table /\ FileOf(c, f) # Null
            BY <1>1, <1>2, FsrAssumption DEF Pending, Writable
        <3>2. FileOf(c, f).made => Held(s)
            BY <2>3, <3>1 DEF Held, FileOf
        <3> QED
            BY <2>3, <3>2
    <2>5. \A g \in dir'[i] : g.held \/ g.uuid = ll_find(c, f).uuid
        BY <1>1, <2>3, <2>4, DirStep DEF s
    <2>6. ASSUME ~FileOf(c, f)'.made PROVE ll_find(c, f).uuid = sb'[s].uuid
        <3>1. ~FileOf(c, f).made
            BY <1>1, <1>2, <2>1, <2>6, StaysOpen
        <3>2. ASSUME sb'[s].uuid # sb[s].uuid PROVE FALSE
            <4>1. PICK d \in Child, g \in Fd, fs \in FsTypes :
                      Mkfs(d, g, fs) /\ FileOf(d, g).obj = s
                BY <1>1, <3>2, UuidStep
            <4>2. /\ d \in live /\ Pending(d, g) /\ FileOf(d, g)'.made
                BY <1>1, <4>1, MkfsStep
            <4>3. c = d /\ f = g
                BY <1>1, <1>2, <2>3, <4>1, <4>2, OneWriter DEF Pending
            <4> QED
                BY <2>6, <4>2, <4>3
        <3> QED
            BY <2>3, <3>1, <3>2
    <2> QED
        BY <1>2, <2>5, <2>6 DEF s
<1>3. CASE /\ InFlight(c, f) /\ UNCHANGED <<kern, disk>>
           /\ Writable(FileOf(c, f)) /\ FileOf(c, f)' = FileOf(c, f)
           /\ ll_find(c, f)'.uuid = sb[FileOf(c, f).obj].uuid
    <2>1. UNCHANGED <<sb, dir>> /\ ll_find(c, f)'.uuid = sb[s].uuid
        BY <1>1, <1>3 DEF disk
    <2>2. ASSUME NEW d \in live, NEW g \in Fd, WorksOn(d, g, i) PROVE FALSE
        <3>1. c = d /\ f = g
            BY <1>1, <1>3, <2>2, OneWriter DEF WorksOn, Pending, s
        <3> QED
            BY <1>3, <2>2, <3>1 DEF WorksOn, Pending
    <2>3. Settled(i)
        BY <2>2 DEF AloneInv, CleanOrHeld
    <2> QED
        BY <2>1, <2>3 DEF Settled, s
<1> QED
    BY <1>1, <1>2, <1>3, EntryStep

\* One step keeps the directories clean, or the device held.
LEMMA CleanOrHeldNext ==
    ASSUME Mirrorable, AloneInv, [Next]_vars
    PROVE  CleanOrHeld'
<1> SUFFICES ASSUME NEW i \in BindRec
             PROVE  Settled(i)' \/ \E c \in live', f \in Fd :
                                       WorksOn(c, f, i)' /\ FileOf(c, f)'.made
    BY DEF CleanOrHeld
<1> DEFINE s == Recs[i].stub
<1>1. /\ i \in RecId /\ s \in Stub /\ TrackInv /\ TypeOK /\ FormatInv
      /\ Followed /\ "exit" \notin Workload
    BY StubOfRec DEF Mirrorable, AloneInv, TrackInv, HookInv
<1> HIDE DEF s
<1>2. CASE Settled(i)
    <2>1. CASE sb'[s].uuid = sb[s].uuid
        BY <1>1, <1>2, <2>1, SettledStays DEF s
    <2>2. CASE sb'[s].uuid # sb[s].uuid
        <3>1. PICK c \in Child, f \in Fd, fs \in FsTypes :
                  Mkfs(c, f, fs) /\ FileOf(c, f).obj = s
            BY <1>1, <2>2, UuidStep
        <3>2. /\ c \in live' /\ Pending(c, f)' /\ FileOf(c, f)'.obj = s
              /\ FileOf(c, f)'.made
            BY <1>1, <3>1, MkfsStep
        <3> QED
            BY <3>2 DEF WorksOn, s
    <2> QED
        BY <2>1, <2>2
<1>3. ASSUME NEW c \in live, NEW f \in Fd, WorksOn(c, f, i), FileOf(c, f).made
      PROVE  \/ Settled(i)'
             \/ WorksOn(c, f, i)' /\ FileOf(c, f)'.made /\ c \in live'
    <2>1. CASE ~hook_close_pre(c, f)
        BY <1>1, <1>3, <2>1, StaysOpen DEF WorksOn
    <2>2. CASE hook_close_pre(c, f)
        <3>1. UNCHANGED sb /\ c \in Child
            BY <1>1, <2>2 DEF hook_close_pre, TypeOK
        <3>2. CASE ll_find(c, f).uuid = sb[s].uuid
            <4>1. Settled(i)
                BY <1>3, <3>2 DEF AloneInv, SnapshotsHold, Settled, s
            <4> QED
                BY <1>1, <3>1, <4>1, SettledStays
        <3>3. CASE ll_find(c, f).uuid # sb[s].uuid
            <4>1. dir'[i] = {}
                BY <1>1, <1>3, <2>2, <3>1, <3>3, CloseEmpties DEF WorksOn, s
            <4> QED
                BY <4>1 DEF Settled
        <3> QED
            BY <3>2, <3>3
    <2> QED
        BY <2>1, <2>2
<1> QED
    BY <1>2, <1>3 DEF AloneInv, CleanOrHeld

\* The invariant is inductive as long as there is one writer.
LEMMA AloneNext ==
    ASSUME Mirrorable
    PROVE  AloneInv /\ SingleWriter /\ [Next]_vars => AloneInv'
<1> SUFFICES ASSUME AloneInv, SingleWriter, [Next]_vars PROVE AloneInv'
    OBVIOUS
<1>1. TrackInv' /\ FormatInv'
    BY TrackNext, FormatNext DEF AloneInv, Mirrorable
<1>2. SnapshotsHold' /\ CleanOrHeld'
    BY <1>1, SnapshotsNext, CleanOrHeldNext
<1> QED
    BY <1>1, <1>2 DEF AloneInv

LEMMA AloneInit == Init => AloneInv
BY MirrorInit, TrackInit, FormatInit
DEF AloneInv, SnapshotsHold, CleanOrHeld, WorksOn, Clean, Settled

\* A device that nobody can write to is settled.
LEMMA SettledWhenQuiet ==
    ASSUME HookInv, CleanOrHeld
    PROVE  SettledMirrored
<1> SUFFICES ASSUME NEW i \in BindRec, Quiet(Recs[i].stub) PROVE Settled(i)
    BY DEF SettledMirrored, Settled
<1>1. ASSUME NEW c \in live, NEW f \in Fd, WorksOn(c, f, i) PROVE FALSE
    BY <1>1, NobodyWorks
<1> QED
    BY <1>1 DEF CleanOrHeld

\* When one open file at a time can write to a stub device, a bind directory
\* shows, after the last close, what the guest made of the device, but for
\* the files that were written before the close of a mkfs: file systems made
\* or erased, checked, mounted and written in any order.
THEOREM DirectoriesMirrorDevices ==
    ASSUME Mirrorable
    PROVE  Spec /\ []SingleWriter => []SettledMirrored
<1>1. AloneInv => SettledMirrored
    BY SettledWhenQuiet DEF AloneInv, TrackInv
<1> QED
    BY <1>1, AloneInit, AloneNext, PTL DEF Spec

\* The first file systems are told from the later ones.
FirstKept ==
    /\ FirstUuid < nextUuid
    /\ \A c \in Child, f \in Fd :
          \A k \in 1..Len(files[c][f]) :
              sb[files[c][f][k].device].uuid = FirstUuid
                  => files[c][f][k].uuid = FirstUuid

\* A file system that was replaced does not come back.
LEMMA FirstNext ==
    ASSUME Ext4Only, FormatInv, FormatInv', FirstKept, [Next]_vars
    PROVE  FirstKept'
<1>1. TypeOK /\ TypeOK'
    BY DEF FormatInv, DetectInv, HookInv
<1>2. DiskStep /\ ListStep
    BY <1>1, NextDisk, NextFiles DEF Ext4Only
<1>3. FirstUuid < nextUuid /\ nextUuid <= nextUuid'
    BY <1>2 DEF FirstKept, DiskStep
<1>4. FirstUuid < nextUuid'
    BY <1>1, <1>3 DEF TypeOK, FirstUuid
<1>5. ASSUME NEW s \in Stub, sb'[s].uuid = FirstUuid
      PROVE  sb[s].uuid = FirstUuid
    <2>1. sb[s] \in Superblock /\ nextUuid # FirstUuid
        BY <1>1, <1>3 DEF TypeOK, FirstUuid
    <2>2. CASE sb'[s] = sb[s] \/ sb'[s] = e2fsck(sb[s], clock)
        BY <1>5, <2>1, <2>2 DEF e2fsck, Superblock
    <2>3. CASE sb'[s] = Blank
        BY <1>5, <2>3 DEF Blank, FirstUuid
    <2>4. CASE \E fs \in FsTypes \ {"none"} : sb'[s] = mkfs(fs, clock, nextUuid)
        BY <1>5, <2>1, <2>4 DEF mkfs
    <2> QED
        BY <1>2, <2>2, <2>3, <2>4 DEF DiskStep
<1>6. ASSUME NEW c \in Child, NEW f \in Fd, NEW k \in 1..Len(files'[c][f]),
             sb'[files'[c][f][k].device].uuid = FirstUuid
      PROVE  files'[c][f][k].uuid = FirstUuid
    <2> DEFINE x == files'[c][f][k]
    <2>1. x \in FdInfo
        <3>1. files'[c][f] \in Seq(FdInfo)
            BY <1>1 DEF TypeOK
        <3> QED
            BY <3>1
    <2>2. sb[x.device].uuid = FirstUuid
        BY <1>5, <1>6, <2>1 DEF FdInfo
    <2>3. CASE \E j \in 1..Len(files[c][f]) : x = files[c][f][j]
        BY <2>2, <2>3 DEF FirstKept
    <2>4. CASE x = make_fdinfo(tmp[c])
        BY <2>2, <2>4 DEF make_fdinfo
    <2> QED
        BY <1>2, <2>3, <2>4 DEF ListStep
<1> QED
    BY <1>4, <1>6 DEF FirstKept

\* And a close takes away a file of the present file system only when it was
\* written before the close of mkfs, or when its directory lies in that of
\* another device which was formatted.
THEOREM LiveFilesStay ==
    ASSUME Mirrorable
    PROVE  Spec /\ []SingleWriter => LiveFilesKept
<1> DEFINE Protects == \A i \in BindRec : \A f \in dir[i] \ dir'[i] :
                         \/ f.uuid # sb[Recs[i].stub].uuid
                         \/ f.held
                         \/ \E j \in BindRec :
                               /\ i \in Below[j]
                               /\ sb[Recs[j].stub].uuid # FirstUuid
           Inv == AloneInv /\ FirstKept
<1>1. ASSUME Inv, [Next]_vars PROVE Protects
    <2> SUFFICES ASSUME NEW i \in BindRec, NEW g \in dir[i] \ dir'[i], ~g.held
                 PROVE  \/ g.uuid # sb[Recs[i].stub].uuid
                        \/ \E j \in BindRec : /\ i \in Below[j]
                                               /\ sb[Recs[j].stub].uuid # FirstUuid
        OBVIOUS
    <2>1. i \in RecId /\ TypeOK /\ TrackInv
        BY <1>1 DEF BindRec, AloneInv, TrackInv, HookInv
    <2>2. PICK c \in Child, f \in Fd, j \in BindRec :
              /\ hook_close_pre(c, f) /\ Tracked(c, f) /\ Formatted(c, f) = j
              /\ i = j \/ i \in Below[j]
        BY <1>1, <2>1, DirStep
    <2> DEFINE x == ll_find(c, f)
    <2>3. /\ 1 \in 1..Len(files[c][f]) /\ x = files[c][f][1]
          /\ c \in live /\ Pending(c, f)
          /\ get_fstab_rec(node, x.filename) \in BindRec
          /\ x.device = Recs[get_fstab_rec(node, x.filename)].stub
          /\ x.device = FileOf(c, f).obj
        BY <2>1, <2>2, CloseEntry
    <2>4. fs_was_format(x, sb[x.device]) /\ get_fstab_rec(node, x.filename) = j
        <3>1. 0 \notin BindRec
            BY DEF BindRec, RecId
        <3> QED
            BY <2>2, <3>1 DEF Formatted
    <2>5. sb[x.device].uuid # x.uuid
        <3>1. NoFalseAlarm
            BY <1>1, DetectImplies DEF AloneInv, FormatInv
        <3> QED
            BY <2>3, <2>4, <3>1 DEF NoFalseAlarm, ForEachEntry
    <2>6. CASE i = j
        <3>1. WorksOn(c, f, i)
            BY <2>3, <2>4, <2>6 DEF WorksOn
        <3>2. g \in dir[i] /\ SnapshotsHold
            BY <1>1 DEF AloneInv
        <3> HIDE DEF x
        <3>3. g.uuid = x.uuid
            BY <2>3, <3>1, <3>2 DEF SnapshotsHold, x
        <3> QED
            BY <2>3, <2>4, <2>5, <2>6, <3>3
    <2>7. CASE i \in Below[j]
        <3>1. sb[x.device].uuid = FirstUuid => x.uuid = FirstUuid
            BY <1>1, <2>3 DEF FirstKept
        <3>2. sb[Recs[j].stub].uuid # FirstUuid
            BY <2>3, <2>4, <2>5, <3>1
        <3> QED
            BY <2>2, <2>7, <3>2
    <2> QED
        BY <2>2, <2>6, <2>7
<1>2. Inv /\ SingleWriter /\ [Next]_vars => Inv'
    BY AloneNext, FirstNext DEF AloneInv, Mirrorable
<1>3. Init => Inv
    <2>1. ASSUME Init PROVE FirstKept
        <3>1. \A c \in Child, f \in Fd : 1..Len(files[c][f]) = {}
            BY <2>1 DEF Init, NoFiles
        <3> QED
            BY <2>1, <3>1 DEF FirstKept, FirstUuid, Init
    <2> QED
        BY <2>1, AloneInit
<1> HIDE DEF Protects, Inv
<1>4. Spec /\ []SingleWriter => [][Protects]_vars
    BY <1>1, <1>2, <1>3, PTL DEF Spec
<1> QED
    BY <1>4 DEF LiveFilesKept, Protects

-----------------------------------------------------------------------------
(***************************************************************************)
(* Any number of writers, without erasing                                  *)
(***************************************************************************)
\* A directory shows the present file system, or an open file is left whose
\* close will show the format.
CleanOrShown ==
    \A i \in BindRec :
        Clean(i) \/ \E c \in live, f \in Fd :
                        /\ WorksOn(c, f, i) /\ FileOf(c, f).made
                        /\ ll_find(c, f).uuid # sb[Recs[i].stub].uuid

MirrorInv == TrackInv /\ FormatInv /\ CleanOrShown

\* One step keeps the directories clean, or a close to come.
LEMMA CleanOrShownNext ==
    ASSUME Mirrorable, "none" \notin FsTypes, MirrorInv, TrackInv', [Next]_vars
    PROVE  CleanOrShown'
<1> SUFFICES ASSUME NEW i \in BindRec
             PROVE  Clean(i)' \/ \E c \in live', f \in Fd :
                        /\ WorksOn(c, f, i)' /\ FileOf(c, f)'.made
                        /\ ll_find(c, f)'.uuid # sb'[Recs[i].stub].uuid
    BY DEF CleanOrShown
<1> DEFINE s == Recs[i].stub
<1>1. /\ i \in RecId /\ s \in Stub /\ TrackInv /\ TypeOK /\ FormatInv
      /\ Followed /\ "exit" \notin Workload
    BY StubOfRec DEF Mirrorable, MirrorInv, TrackInv, HookInv
<1>2. \/ sb'[s].uuid = sb[s].uuid
      \/ \E c \in Child, f \in Fd, fs \in FsTypes :
             Mkfs(c, f, fs) /\ FileOf(c, f).obj = s /\ sb'[s].uuid = nextUuid
    <2> HIDE DEF s
    <2>1. ASSUME NEW c \in Child, NEW f \in Fd, NEW fs \in FsTypes,
                 Mkfs(c, f, fs), FileOf(c, f).obj = s
          PROVE  sb'[s].uuid = nextUuid
        <3>1. fs # "none"
            BY <2>1 DEF Mirrorable
        <3> QED
            BY <1>1, <2>1, <3>1, MkfsStep
    <2> QED
        BY <1>1, <2>1, UuidStep
\* The snapshot of an open file is older than the next file system.
<1>3. ASSUME NEW c \in live, NEW f \in Fd, Pending(c, f)
      PROVE  ll_find(c, f).uuid # nextUuid
    <2>1. c \in Child /\ Follows(c)
        BY <1>1 DEF TrackInv, HookInv, TypeOK
    <2>2. Tracked(c, f)
        BY <1>1, <1>3, <2>1, ExactEntry DEF Follows, Pending
    <2>3. /\ 1 \in 1..Len(files[c][f]) /\ ll_find(c, f) = files[c][f][1]
          /\ ll_find(c, f) \in FdInfo
        BY <1>1, <2>1, <2>2, HeadEntry
    <2>4. Fits(ll_find(c, f), sb[ll_find(c, f).device])
        BY <1>1, <2>1, <2>3 DEF FormatInv, DetectInv, EntriesFit
    <2> QED
        BY <1>1, <2>3, <2>4 DEF Fits, FdInfo, TypeOK
<1> HIDE DEF s
<1>4. CASE Clean(i)
    <2>1. CASE sb'[s].uuid = sb[s].uuid
        BY <1>1, <1>4, <2>1, CleanStays DEF s
    <2>2. CASE sb'[s].uuid # sb[s].uuid
        <3>1. PICK c \in Child, f \in Fd, fs \in FsTypes :
                  Mkfs(c, f, fs) /\ FileOf(c, f).obj = s
                                 /\ sb'[s].uuid = nextUuid
            BY <1>2, <2>2
        <3>2. /\ c \in live /\ c \in live' /\ Pending(c, f) /\ Pending(c, f)'
              /\ FileOf(c, f)'.obj = s
              /\ FileOf(c, f)'.made /\ files'[c][f] = files[c][f]
            BY <1>1, <3>1, MkfsStep
        <3>3. ll_find(c, f)'.uuid # sb'[s].uuid
            BY <1>3, <3>1, <3>2 DEF ll_find
        <3> QED
            BY <3>2, <3>3 DEF WorksOn, s
    <2> QED
        BY <2>1, <2>2
<1>5. ASSUME NEW c \in live, NEW f \in Fd, WorksOn(c, f, i), FileOf(c, f).made,
             ll_find(c, f).uuid # sb[s].uuid
      PROVE  Clean(i)' \/ /\ WorksOn(c, f, i)' /\ FileOf(c, f)'.made
                          /\ ll_find(c, f)'.uuid # sb'[s].uuid /\ c \in live'
    <2>1. CASE ~hook_close_pre(c, f)
        <3>1. /\ c \in live' /\ WorksOn(c, f, i)' /\ FileOf(c, f)'.made
              /\ Pending(c, f)'
            BY <1>1, <1>5, <2>1, StaysOpen DEF WorksOn
        <3>2. ll_find(c, f)' = ll_find(c, f)
            BY <1>1, <1>5, <3>1, EntryStep DEF WorksOn, Pending
        <3>3. ll_find(c, f).uuid # nextUuid
            BY <1>3, <1>5 DEF WorksOn
        <3> QED
            BY <1>2, <1>5, <3>1, <3>2, <3>3
    <2>2. CASE hook_close_pre(c, f)
        <3>1. c \in Child
            BY <1>1 DEF TypeOK
        <3>2. dir'[i] = {}
            BY <1>1, <1>5, <2>2, <3>1, CloseEmpties DEF WorksOn, s
        <3> QED
            BY <3>2 DEF Clean
    <2> QED
        BY <2>1, <2>2
<1> QED
    BY <1>4, <1>5 DEF MirrorInv, CleanOrShown, s

\* When no device is erased, a bind directory shows, after the last close,
\* what the guest made of the device, for any number of processes and open
\* files: whoever closes last, the close of the mkfs empties the directory.
THEOREM FormatsMirrorDevices ==
    ASSUME Mirrorable, "none" \notin FsTypes
    PROVE  Spec => []Mirrored
<1>1. MirrorInv /\ [Next]_vars => MirrorInv'
    <2> SUFFICES ASSUME MirrorInv, [Next]_vars PROVE MirrorInv'
        OBVIOUS
    <2>1. TrackInv' /\ FormatInv'
        BY TrackNext, FormatNext DEF MirrorInv, Mirrorable
    <2> QED
        BY <2>1, CleanOrShownNext DEF MirrorInv
<1>2. Init => MirrorInv
    BY MirrorInit, TrackInit, FormatInit DEF MirrorInv, CleanOrShown
<1>3. MirrorInv => Mirrored
    BY NobodyWorks DEF MirrorInv, CleanOrShown, Clean, Mirrored, TrackInv
<1> QED
    BY <1>1, <1>2, <1>3, PTL DEF Spec
=============================================================================
