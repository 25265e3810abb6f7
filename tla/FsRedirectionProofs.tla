------------------------ MODULE FsRedirectionProofs ------------------------
(***************************************************************************)
(* Theorems about FsRedirection, for all values of its constants.          *)
(***************************************************************************)
EXTENDS FsRedirection, TLAPS, SequenceTheorems, WellFoundedInduction

(***************************************************************************)
(* The lookup                                                              *)
(***************************************************************************)
\* A set of record numbers that is not empty has a least element, so that
\* the search of get_fstab_rec has a result.
LEMMA LeastRec ==
    ASSUME NEW S, S \subseteq Nat, S # {}
    PROVE  \E i \in S : \A j \in S : i <= j
<1>1. PICK i \in S : \A j \in S : ~ (<<j, i>> \in OpToRel(<, Nat))
    BY NatLessThanWellFounded, WFMin, Zenon
<1>2. \A j \in S : ~ (j < i)
    BY <1>1 DEF OpToRel
<1> QED
    BY <1>2

\* get_fstab_rec returns NULL or a record that matches.
LEMMA LookupResult ==
    ASSUME NEW n, NEW name
    PROVE  /\ get_fstab_rec(n, name) \in {0} \cup RecId
           /\ get_fstab_rec(n, name) # 0
                => get_fstab_rec(n, name) \in Matching(n, name)
<1>1. Matching(n, name) \subseteq RecId /\ RecId \subseteq Nat
    BY DEF Matching, RecId
<1>2. CASE Matching(n, name) = {}
    BY <1>2 DEF get_fstab_rec
<1>3. CASE Matching(n, name) # {}
    <2>1. \E i \in Matching(n, name) : \A j \in Matching(n, name) : i <= j
        BY <1>1, <1>3, LeastRec
    <2> QED
        BY <1>1, <1>3, <2>1 DEF get_fstab_rec
<1> QED
    BY <1>2, <1>3

-----------------------------------------------------------------------------
(***************************************************************************)
(* Types of the helpers                                                    *)
(***************************************************************************)
\* What the assumptions say of one record.
LEMMA RecTypes ==
    ASSUME NEW i \in RecId
    PROVE  /\ Recs[i] \in FstabRec
           /\ Recs[i].repl \in Obj
           /\ Recs[i].rdev \in Dev \cup {NoRdev}
           /\ Recs[i].stub # Null => i \in BindRec
           /\ Recs[i].bind => Recs[i].stub # Null
           /\ i \in BindRec => Recs[i].stub \in Stub /\ Recs[i].bind
           /\ i \in BindRec => Recs[i].repl \in BindDir
<1>1. Recs[i] \in FstabRec
    BY RecsAssumption, ElementOfSeq DEF RecId
<1>2. Recs[i].bind <=> Recs[i].stub # Null
    BY RecsAssumption DEF RecId
<1> QED
    BY <1>1, <1>2 DEF FstabRec, BindRec, Stub, BindDir

\* Stub devices are objects, and Null is none.
LEMMA StubIsObj ==
    /\ Stub \subseteq Dev
    /\ Stub \subseteq Obj
    /\ Null \notin Obj /\ Null \notin Path /\ Absent \notin Obj
    /\ BindDir \subseteq Obj
<1>1. ASSUME NEW i \in BindRec PROVE Recs[i].stub \in Dev /\ Recs[i].repl \in Obj
    <2>1. i \in RecId /\ Recs[i].bind
        BY DEF BindRec
    <2> QED
        BY <2>1, RecTypes DEF FstabRec
<1> QED
    BY <1>1, PathAssumption DEF Stub, Obj, BindDir

\* get_patharg returns a path.
LEMMA PathargType ==
    ASSUME NEW n, NEW p \in Path, NEW real
    PROVE  get_patharg(n, p, real) \in Path
BY PathAssumption DEF get_patharg

\* Substituted arguments are objects.
LEMMA ReplacementType ==
    ASSUME NEW path, NEW resolve, NEW r \in {0} \cup RecId
    PROVE  Replacement(path, resolve, r) \in Obj \cup {Null}
<1>1. CASE Replacement(path, resolve, r) = Null
    BY <1>1
<1>2. CASE Replacement(path, resolve, r) # Null
    <2>1. r \in RecId
        BY <1>2 DEF Replacement
    <2>2. Recs[r].bind => r \in BindRec
        BY <2>1 DEF BindRec
    <2> QED
        BY <2>1, <2>2, RecTypes, StubIsObj DEF Replacement
<1> QED
    BY <1>1, <1>2

\* What hook_mount substitutes is an object.
LEMMA MountReplacementType ==
    ASSUME NEW path, NEW asec
    PROVE  MountReplacement(path, asec) \in Obj \cup {Null}
BY LookupResult, RecTypes, FsrAssumption DEF MountReplacement, Obj

\* The record that hook_open watches has a stub device.
LEMMA WatchType ==
    ASSUME NEW sc, NEW wr, NEW r \in {0} \cup RecId
    PROVE  Watch(sc, wr, r) # 0 =>
               /\ Watch(sc, wr, r) \in BindRec
               /\ Recs[Watch(sc, wr, r)].stub \in Stub
               /\ sc \in OpenCall
<1>1. SUFFICES ASSUME Watch(sc, wr, r) # 0
              PROVE  r \in RecId /\ Recs[r].bind /\ sc \in OpenCall
                     /\ Watch(sc, wr, r) = r
    BY RecTypes DEF BindRec
<1> QED
    BY <1>1 DEF Watch

\* e2fsck and mkfs leave super blocks.
LEMMA SuperblockTypes ==
    ASSUME NEW s \in Superblock, NEW now \in Nat, NEW id \in Nat
    PROVE  /\ e2fsck(s, now) \in Superblock
           /\ \A fs \in FsType : mkfs(fs, now, id) \in Superblock
           /\ Blank \in Superblock
           /\ fstype(s) \in FsType
           /\ fs_pre(s) \in Pdata \cup {NoData}
BY DEF Superblock, e2fsck, mkfs, Blank, FsType, fstype, fs_pre, ext2_pre, Pdata

\* What make_fdinfo returns when it does not crash.
LEMMA MakeFdinfoType ==
    ASSUME TypeOK, NEW name \in Path, make_fdinfo_safe(name)
    PROVE  /\ make_fdinfo(name) \in FdInfo
           /\ make_fdinfo(name).device \in Stub
<1> DEFINE r == get_fstab_rec(node, name)
           s == Recs[r].stub
<1>1. r \in RecId /\ s # Null
    BY LookupResult DEF make_fdinfo_safe
<1>2. s \in Stub
    BY <1>1, RecTypes
<1>3. sb[s] \in Superblock
    BY <1>2 DEF TypeOK
<1>4. fstype(sb[s]) \in FsType /\ fs_pre(sb[s]) \in Pdata \cup {NoData}
    BY <1>3, SuperblockTypes DEF TypeOK
<1>5. sb[s].uuid \in Nat
    BY <1>3 DEF Superblock
<1> HIDE DEF r, s
<1>6. make_fdinfo(name) = [filename |-> name, device |-> s,
                           fs_type |-> fstype(sb[s]), pdata |-> fs_pre(sb[s]),
                           uuid |-> sb[s].uuid]
    BY DEF make_fdinfo, r, s
<1> QED
    BY <1>2, <1>4, <1>5, <1>6 DEF FdInfo

\* ll_add puts the new entry in the list and keeps the others.
LEMMA AddResult ==
    ASSUME NEW S, NEW q \in Seq(S), NEW x \in S, NEW q2 \in ll_add(q, x)
    PROVE  /\ q2 \in Seq(S)
           /\ Len(q2) = Len(q) + 1
           /\ \A k \in 1..Len(q2) : q2[k] = x \/ \E j \in 1..Len(q) : q2[k] = q[j]
<1>1. CASE q2 = Append(q, x)
    BY <1>1
<1>2. CASE q2 = <<x>> \o q
    <2>1. <<x>> \in Seq(S) /\ Len(<<x>>) = 1 /\ <<x>>[1] = x
        OBVIOUS
    <2>2. /\ q2 \in Seq(S)
          /\ Len(q2) = 1 + Len(q)
          /\ \A k \in 1..Len(q2) :
                q2[k] = IF k <= 1 THEN <<x>>[k] ELSE q[k - 1]
        BY <1>2, <2>1, ConcatProperties
    <2>3. Len(q) \in Nat
        OBVIOUS
    <2> QED
        BY <2>1, <2>2, <2>3
<1> QED
    BY <1>1, <1>2 DEF ll_add

-----------------------------------------------------------------------------
(***************************************************************************)
(* Type correctness                                                        *)
(***************************************************************************)
\* The parts of a call in flight.
LEMMA CallTypes ==
    ASSUME TypeOK, NEW c \in Child
    PROVE  /\ call[c] \in Call
           /\ call[c].to \in Obj \cup {Null}
           /\ call[c].ret \in Fd \cup {Null}
           /\ call[c].fd \in Fd \cup {Null}
           /\ call[c].path \in Path \cup {Null}
           /\ TableOf[c] \in Table
           /\ Idle \in Call
BY FsrAssumption DEF TypeOK, Call, Idle

\* A return of the kernel leaves calls in flight.
LEMMA ReturnsType ==
    ASSUME TypeOK, NEW c \in Child,
           NEW hit \in Obj \cup {Null}, NEW ret \in Fd \cup {Null},
           Returns(c, hit, ret)
    PROVE  call' \in [Child -> Call]
<1>1. [call[c] EXCEPT !.phase = "post", !.hit = hit, !.ret = ret] \in Call
    BY CallTypes DEF Call
<1> QED
    BY <1>1 DEF Returns, TypeOK

\* The types hold when the tracer starts.
LEMMA InitType == Init => TypeOK
<1> SUFFICES ASSUME Init PROVE TypeOK
    OBVIOUS
<1>1. Idle \in Call
    BY DEF Idle, Call
<1>2. mkfs("ext4", 1, FirstUuid) \in Superblock
    BY DEF FirstUuid, mkfs, Superblock, FsType
<1>3. NoFiles \in [Fd -> Seq(FdInfo)]
    BY DEF NoFiles
<1>4. mounted \subseteq BindDir
    BY DEF Init, OwnStub, BindDir
<1> QED
    BY <1>1, <1>2, <1>3, <1>4, FsrAssumption
    DEF Init, TypeOK, NoFds

\* The entry hook of the path calls.
LEMMA FileaccessPreType ==
    ASSUME TypeOK,
           NEW c \in Child, NEW sc \in Syscalls, NEW p \in Path,
           NEW wr \in BOOLEAN, NEW nofollow \in BOOLEAN, NEW stray \in BOOLEAN,
           hook_fileaccess_pre(c, sc, p, wr, nofollow, stray)
    PROVE  TypeOK'
<1> DEFINE resolve == resolve_symlinks(sc, nofollow, stray)
           path    == get_patharg(node, p, resolve)
           r       == get_fstab_rec(node, path)
           w       == Watch(sc, wr, r)
           to      == Replacement(path, resolve, r)
<1>1. path \in Path
    BY PathargType
<1>2. r \in {0} \cup RecId
    BY LookupResult
<1>3. to \in Obj \cup {Null}
    BY <1>2, ReplacementType
<1>4. w # 0 => Recs[w].stub \in Stub
    BY <1>2, WatchType
<1>5. KernelFollows(sc, nofollow) \in BOOLEAN
    BY DEF KernelFollows
<1>6. /\ sb' = sb \/ (w # 0 /\ sb' = [sb EXCEPT ![Recs[w].stub] =
                                             e2fsck(@, clock)])
      /\ handled' = [handled EXCEPT ![c] = IF w # 0 THEN TRUE ELSE @]
      /\ tmp' = [tmp EXCEPT ![c] = IF w # 0 THEN path ELSE @]
      /\ memory' = [memory EXCEPT ![c] = IF to # Null THEN to ELSE @]
      /\ call' = [call EXCEPT ![c] =
                    [Idle EXCEPT !.sc = sc, !.phase = "pre", !.path = p,
                                 !.wr = wr, !.to = to,
                                 !.follow = KernelFollows(sc, nofollow)]]
      /\ SetErrno(p)
      /\ UNCHANGED <<tracer, live, files, kern, dir, clock, nextUuid>>
    BY DEF hook_fileaccess_pre
<1> HIDE DEF resolve, path, r, w, to
<1>7. sb' \in [Stub -> Superblock]
    <2>1. CASE sb' = sb
        BY <2>1 DEF TypeOK
    <2>2. CASE w # 0 /\ sb' = [sb EXCEPT ![Recs[w].stub] = e2fsck(@, clock)]
        <3>1. e2fsck(sb[Recs[w].stub], clock) \in Superblock
            BY <1>4, <2>2, SuperblockTypes DEF TypeOK
        <3> QED
            BY <1>4, <2>2, <3>1 DEF TypeOK
    <2> QED
        BY <1>6, <2>1, <2>2
<1>8. call' \in [Child -> Call]
    <2>1. [Idle EXCEPT !.sc = sc, !.phase = "pre", !.path = p, !.wr = wr,
                       !.to = to, !.follow = KernelFollows(sc, nofollow)]
            \in Call
        BY <1>3, <1>5, FsrAssumption DEF Idle, Call
    <2> QED
        BY <1>6, <2>1 DEF TypeOK
<1>9. errno' \in BOOLEAN
    BY <1>6, FsrAssumption DEF SetErrno, TypeOK
<1>10. /\ handled' \in [Child -> BOOLEAN]
       /\ tmp' \in [Child -> Path \cup {Null}]
       /\ memory' \in [Child -> Obj \cup {Null}]
    BY <1>1, <1>3, <1>6 DEF TypeOK
<1> QED
    BY <1>6, <1>7, <1>8, <1>9, <1>10 DEF TypeOK, kern

\* The arguments of a call in flight: a path call or a mount has a path, and
\* only they have a substituted one; a close or a dup has a descriptor.
CallHasArguments ==
    \A c \in Child :
        /\ call[c].sc \in PathCall \cup {"mount"} => call[c].path \in Path
        /\ call[c].sc \in {"close", "dup", "dup2"} => call[c].fd \in Fd
        /\ call[c].to # Null => call[c].sc \in PathCall \cup {"mount"}

\* What the kernel works on is an object, or absent.
LEMMA TargetType ==
    ASSUME TypeOK, NEW c \in Child, call[c].path \in Path
    PROVE  Target(call[c]) \in Obj \cup {Absent}
BY CallTypes, PathAssumption DEF Target, stat, TypeOK

\* The kernel's part of a call.
LEMMA KernelType ==
    ASSUME TypeOK, CallHasArguments, NEW c \in Child, Kernel(c)
    PROVE  TypeOK'
<1> USE CallTypes
<1>1. CASE KernelOpen(c)
    <2>1. call[c].path \in Path
        BY <1>1 DEF KernelOpen, InKernel, CallHasArguments, PathCall
    <2>2. Target(call[c]) \in Obj
        BY <1>1, <2>1, TargetType DEF KernelOpen
    <2>3. PICK f \in Fd :
            /\ fdt' = [fdt EXCEPT ![TableOf[c]][f] =
                         [obj |-> Target(call[c]), wr |-> call[c].wr,
                          made |-> FALSE]]
            /\ Returns(c, Target(call[c]), f)
        BY <1>1 DEF KernelOpen
    <2>4. [obj |-> Target(call[c]), wr |-> call[c].wr, made |-> FALSE]
            \in OpenFile
        BY <2>2 DEF OpenFile, Call
    <2>5. fdt' \in [Table -> [Fd -> OpenFile \cup {Null}]]
        BY <2>3, <2>4 DEF TypeOK
    <2>6. call' \in [Child -> Call]
        BY <2>2, <2>3, ReturnsType
    <2> QED
        BY <1>1, <2>5, <2>6 DEF KernelOpen, TypeOK, mbc, disk
<1>2. CASE KernelPath(c)
    <2>1. call[c].path \in Path
        BY <1>2 DEF KernelPath, InKernel, CallHasArguments
    <2>2. Target(call[c]) \in Obj
        BY <1>2, <2>1, TargetType DEF KernelPath
    <2>3. call' \in [Child -> Call]
        BY <1>2, <2>2, ReturnsType DEF KernelPath
    <2> QED
        BY <1>2, <2>3 DEF KernelPath, TypeOK, mbc, kern, disk
<1>3. CASE KernelError(c)
    <2>1. call' \in [Child -> Call]
        BY <1>3, ReturnsType DEF KernelError
    <2> QED
        BY <1>3, <2>1 DEF KernelError, TypeOK, mbc, kern, disk
<1>4. CASE KernelClose(c)
    <2>1. call[c].fd \in Fd
        BY <1>4 DEF KernelClose, InKernel, CallHasArguments
    <2> QED
        BY <1>4, <2>1 DEF KernelClose, TypeOK, mbc, disk
<1>5. CASE KernelDup(c)
    <2>1. call[c].fd \in Fd
        BY <1>5 DEF KernelDup, InKernel, CallHasArguments
    <2>2. PICK f \in Fd :
            /\ fdt' = [fdt EXCEPT ![TableOf[c]][f] = fdt[TableOf[c]][call[c].fd]]
            /\ Returns(c, Null, f)
        BY <1>5 DEF KernelDup
    <2>3. fdt' \in [Table -> [Fd -> OpenFile \cup {Null}]]
        BY <2>1, <2>2 DEF TypeOK
    <2>4. call' \in [Child -> Call]
        BY <2>2, ReturnsType
    <2> QED
        BY <1>5, <2>3, <2>4 DEF KernelDup, TypeOK, mbc, disk
<1>6. CASE KernelDupError(c)
    <2>1. call' \in [Child -> Call]
        BY <1>6, ReturnsType DEF KernelDupError
    <2> QED
        BY <1>6, <2>1 DEF KernelDupError, TypeOK, mbc, kern, disk
<1>7. CASE KernelMount(c)
    <2>1. call[c].path \in Path
        BY <1>7 DEF KernelMount, InKernel, CallHasArguments
    <2>2. Target(call[c]) \in Obj
        BY <1>7, <2>1, TargetType DEF KernelMount
    <2>3. call' \in [Child -> Call]
        BY <1>7, <2>2, ReturnsType DEF KernelMount
    <2>4. mounted' \subseteq BindDir
        BY <1>7 DEF KernelMount, TypeOK
    <2> QED
        BY <1>7, <2>3, <2>4 DEF KernelMount, TypeOK, mbc, disk
<1> QED
    BY <1>1, <1>2, <1>3, <1>4, <1>5, <1>6, <1>7 DEF Kernel

\* The exit hooks.
LEMMA PostType ==
    ASSUME TypeOK, NEW c \in Child, HookPost(c)
    PROVE  TypeOK'
<1> USE CallTypes
<1>1. CASE hook_fileaccess_post(c)
    <2>1. files' \in [Child -> [Fd -> Seq(FdInfo)]]
        <3>1. CASE Registers(c)
            <4> DEFINE fd == call[c].ret
            <4>1. fd \in Fd /\ tmp[c] \in Path /\ make_fdinfo_safe(tmp[c])
                BY <1>1, <3>1 DEF hook_fileaccess_post, Registers, TypeOK
            <4>2. make_fdinfo(tmp[c]) \in FdInfo
                BY <4>1, MakeFdinfoType
            <4>3. PICK q \in ll_add(files[c][fd], make_fdinfo(tmp[c])) :
                     files' = [files EXCEPT ![c][fd] = q]
                BY <1>1, <3>1 DEF hook_fileaccess_post
            <4>4. files[c][fd] \in Seq(FdInfo)
                BY <4>1 DEF TypeOK
            <4>5. q \in Seq(FdInfo)
                BY <4>2, <4>3, <4>4, AddResult
            <4> QED
                BY <4>1, <4>3, <4>5 DEF TypeOK
        <3>2. CASE ~Registers(c)
            BY <1>1, <3>2 DEF hook_fileaccess_post, TypeOK
        <3> QED
            BY <3>1, <3>2
    <2>2. tmp' \in [Child -> Path \cup {Null}]
        BY <1>1 DEF hook_fileaccess_post, DropTmp, TypeOK
    <2> QED
        BY <1>1, <2>1, <2>2 DEF hook_fileaccess_post, TypeOK, kern, disk
<1>2. CASE hook_dup_post(c)
    <2>1. files' \in [Child -> [Fd -> Seq(FdInfo)]]
        <3> DEFINE fd == call[c].ret
        <3>1. CASE tmp[c] # Null /\ fd # Null
            <4>1. fd \in Fd /\ tmp[c] \in Path /\ make_fdinfo_safe(tmp[c])
                BY <1>2, <3>1 DEF hook_dup_post, TypeOK
            <4>2. make_fdinfo(tmp[c]) \in FdInfo
                BY <4>1, MakeFdinfoType
            <4>3. PICK q \in ll_add(files[c][fd], make_fdinfo(tmp[c])) :
                     files' = [files EXCEPT ![c][fd] = q]
                BY <1>2, <3>1 DEF hook_dup_post
            <4>4. files[c][fd] \in Seq(FdInfo)
                BY <4>1 DEF TypeOK
            <4>5. q \in Seq(FdInfo)
                BY <4>2, <4>3, <4>4, AddResult
            <4> QED
                BY <4>1, <4>3, <4>5 DEF TypeOK
        <3>2. CASE ~(tmp[c] # Null /\ fd # Null)
            BY <1>2, <3>2 DEF hook_dup_post, TypeOK
        <3> QED
            BY <3>1, <3>2
    <2> QED
        BY <1>2, <2>1 DEF hook_dup_post, TypeOK, kern, disk
<1>3. CASE hook_mount_post(c)
    BY <1>3 DEF hook_mount_post, TypeOK, kern, disk
<1>4. CASE hook_fileaccess_crash(c) \/ hook_dup_crash(c)
    BY <1>4 DEF hook_fileaccess_crash, hook_dup_crash, Crash, TypeOK, mbc,
                kern, disk
<1> QED
    BY <1>1, <1>2, <1>3, <1>4 DEF HookPost

\* Every entry hook takes a call up or ends the tracer.
LEMMA HookPreCases ==
    ASSUME NEW c, HookPre(c)
    PROVE  \/ \E sc \in Syscalls, p \in Path, nofollow, stray, wr \in BOOLEAN :
                 hook_fileaccess_pre(c, sc, p, wr, nofollow, stray)
           \/ \E fd \in Fd : hook_close_pre(c, fd)
           \/ \E sc \in {"dup", "dup2"}, fd \in Fd, newfd \in Fd \cup {Null} :
                 hook_dup_pre(c, sc, fd, newfd)
           \/ \E p \in Path, asec \in BOOLEAN : hook_mount_pre(c, p, asec)
           \/ Abort
<1>1. ASSUME NEW sc \in Syscalls, NEW p \in Path,
             NEW nofollow \in BOOLEAN, NEW stray \in BOOLEAN,
             NEW wr \in IF sc \in OpenCall THEN BOOLEAN ELSE {FALSE},
             hook_fileaccess_pre(c, sc, p, wr, nofollow, stray)
      PROVE  \E s \in Syscalls, q \in Path, n, st, w \in BOOLEAN :
                 hook_fileaccess_pre(c, s, q, w, n, st)
    <2>1. wr \in BOOLEAN
        OBVIOUS
    <2> QED
        BY <1>1, <2>1
<1>2. ASSUME NEW sc \in Syscalls, NEW p \in Path,
             NEW nofollow \in BOOLEAN, NEW stray \in BOOLEAN,
             \/ hook_fileaccess_abort(c, sc, p, nofollow, stray)
             \/ hook_fileaccess_nomem(c, sc, p, nofollow, stray)
      PROVE  Abort
    BY <1>2 DEF hook_fileaccess_abort, hook_fileaccess_nomem
<1>3. ASSUME NEW fd \in Fd, hook_fcntl_abort(c, fd)
      PROVE  Abort
    BY <1>3 DEF hook_fcntl_abort
<1>4. ASSUME NEW p \in Path, NEW asec \in BOOLEAN, hook_mount_abort(c, p, asec)
      PROVE  Abort
    BY <1>4 DEF hook_mount_abort
<1> QED
    BY <1>1, <1>2, <1>3, <1>4, Zenon DEF HookPre

\* The entry hooks.
LEMMA PreType ==
    ASSUME TypeOK, NEW c \in Child, HookPre(c)
    PROVE  TypeOK'
<1>1. ASSUME NEW sc \in Syscalls, NEW p \in Path, NEW wr \in BOOLEAN,
             NEW nofollow \in BOOLEAN, NEW stray \in BOOLEAN,
             hook_fileaccess_pre(c, sc, p, wr, nofollow, stray)
      PROVE  TypeOK'
    BY <1>1, FileaccessPreType
<1>2. ASSUME Abort PROVE TypeOK'
    BY <1>2 DEF Abort, TypeOK, mbc, kern, disk
<1>3. ASSUME NEW fd \in Fd, hook_close_pre(c, fd)
      PROVE  TypeOK'
    <2>1. [Idle EXCEPT !.sc = "close", !.phase = "pre", !.fd = fd] \in Call
        BY DEF Idle, Call
    <2>2. call' \in [Child -> Call]
        BY <1>3, <2>1 DEF hook_close_pre, TypeOK
    <2>3. files' \in [Child -> [Fd -> Seq(FdInfo)]]
        <3>1. CASE Tracked(c, fd)
            <4>1. files[c][fd] \in Seq(FdInfo) /\ files[c][fd] # <<>>
                BY <3>1 DEF TypeOK, Tracked
            <4>2. Tail(files[c][fd]) \in Seq(FdInfo)
                BY <4>1
            <4>3. files' = [files EXCEPT ![c][fd] = Tail(files[c][fd])]
                BY <1>3, <3>1 DEF hook_close_pre, ll_del
            <4> QED
                BY <4>2, <4>3 DEF TypeOK
        <3> QED
            BY <1>3, <3>1 DEF hook_close_pre, TypeOK
    <2>4. dir' \in [RecId -> SUBSET File]
        <3>1. \A i : format_path(i) \in [RecId -> SUBSET File]
            <4> SUFFICES ASSUME NEW i, NEW j \in RecId
                         PROVE  format_path(i)[j] \in SUBSET File
                BY DEF format_path
            <4> QED
                BY DEF format_path, TypeOK
        <3> QED
            BY <1>3, <3>1 DEF hook_close_pre, TypeOK
    <2> QED
        BY <1>3, <2>2, <2>3, <2>4 DEF hook_close_pre, TypeOK, kern
<1>4. ASSUME NEW sc \in {"dup", "dup2"}, NEW fd \in Fd,
             NEW newfd \in Fd \cup {Null}, hook_dup_pre(c, sc, fd, newfd)
      PROVE  TypeOK'
    <2>1. [Idle EXCEPT !.sc = sc, !.phase = "pre", !.fd = fd, !.newfd = newfd]
            \in Call
        BY DEF Idle, Call
    <2>2. call' \in [Child -> Call]
        BY <1>4, <2>1 DEF hook_dup_pre, TypeOK
    <2>3. Tracked(c, fd) => ll_find(c, fd).filename \in Path
        <3>1. files[c][fd] \in Seq(FdInfo)
            BY DEF TypeOK
        <3>2. files[c][fd] # <<>> => Head(files[c][fd]) \in FdInfo
            BY <3>1
        <3> QED
            BY <3>2 DEF Tracked, ll_find, FdInfo
    <2>4. tmp' \in [Child -> Path \cup {Null}]
        BY <1>4, <2>3 DEF hook_dup_pre, TypeOK
    <2> QED
        BY <1>4, <2>2, <2>4 DEF hook_dup_pre, TypeOK, kern, disk
<1>5. ASSUME NEW p \in Path, NEW asec \in BOOLEAN, hook_mount_pre(c, p, asec)
      PROVE  TypeOK'
    <2> DEFINE to == MountReplacement(get_patharg(node, p, TRUE), asec)
    <2>1. to \in Obj \cup {Null}
        BY MountReplacementType
    <2>2. /\ memory' = [memory EXCEPT ![c] = IF to # Null THEN to ELSE @]
          /\ call' = [call EXCEPT ![c] =
                        [Idle EXCEPT !.sc = "mount", !.phase = "pre",
                                     !.path = p, !.follow = TRUE, !.to = to]]
          /\ SetErrno(p)
          /\ UNCHANGED <<tracer, live, tmp, handled, files, kern, disk>>
        BY <1>5 DEF hook_mount_pre
    <2> HIDE DEF to
    <2>3. [Idle EXCEPT !.sc = "mount", !.phase = "pre", !.path = p,
                       !.follow = TRUE, !.to = to] \in Call
        BY <2>1 DEF Idle, Call
    <2>4. call' \in [Child -> Call] /\ memory' \in [Child -> Obj \cup {Null}]
        BY <2>1, <2>2, <2>3 DEF TypeOK
    <2>5. errno' \in BOOLEAN
        BY <2>2, FsrAssumption DEF SetErrno, TypeOK
    <2> QED
        BY <2>2, <2>4, <2>5 DEF TypeOK, kern, disk
<1>6. \/ \E sc \in Syscalls, p \in Path, nofollow, stray, wr \in BOOLEAN :
            hook_fileaccess_pre(c, sc, p, wr, nofollow, stray)
      \/ \E fd \in Fd : hook_close_pre(c, fd)
      \/ \E sc \in {"dup", "dup2"}, fd \in Fd, newfd \in Fd \cup {Null} :
            hook_dup_pre(c, sc, fd, newfd)
      \/ \E p \in Path, asec \in BOOLEAN : hook_mount_pre(c, p, asec)
      \/ Abort
    BY HookPreCases
<1> QED
    BY <1>1, <1>2, <1>3, <1>4, <1>5, <1>6

\* Children and their environment.
LEMMA ChildType ==
    ASSUME TypeOK, NEW c \in Child, NEW d \in Child,
           ChildCreate(c, d) \/ ChildDestroy(c)
    PROVE  TypeOK'
<1>1. Idle \in Call
    BY CallTypes
<1>2. NoFiles \in [Fd -> Seq(FdInfo)]
    BY DEF NoFiles
<1>3. NoFds \in [Fd -> OpenFile \cup {Null}]
    BY DEF NoFds
<1>4. CASE ChildCreate(c, d)
    <2>1. fdt' \in [Table -> [Fd -> OpenFile \cup {Null}]]
        BY <1>4, FsrAssumption DEF ChildCreate, TypeOK
    <2>2. live' \subseteq Child
        BY <1>4 DEF ChildCreate, TypeOK
    <2>3. files' \in [Child -> [Fd -> Seq(FdInfo)]]
        BY <1>2, <1>4 DEF ChildCreate, TypeOK
    <2>4. call' \in [Child -> Call]
        BY <1>1, <1>4 DEF ChildCreate, TypeOK
    <2>5. /\ memory' \in [Child -> Obj \cup {Null}]
          /\ tmp' \in [Child -> Path \cup {Null}]
          /\ handled' \in [Child -> BOOLEAN]
        BY <1>4 DEF ChildCreate, TypeOK
    <2> QED
        BY <1>4, <2>1, <2>2, <2>3, <2>4, <2>5 DEF ChildCreate, TypeOK, disk
<1>5. CASE ChildDestroy(c)
    <2>1. fdt' \in [Table -> [Fd -> OpenFile \cup {Null}]]
        BY <1>3, <1>5, FsrAssumption DEF ChildDestroy, TypeOK
    <2> QED
        BY <1>1, <1>2, <1>5, <2>1 DEF ChildDestroy, TypeOK, disk
<1> QED
    BY <1>4, <1>5

\* The stub device of a bind record has a super block.
LEMMA StubOfRec ==
    ASSUME TypeOK, NEW i \in BindRec
    PROVE  /\ i \in RecId
           /\ Recs[i].stub \in Stub
           /\ sb[Recs[i].stub] \in Superblock
           /\ sb[Recs[i].stub].uuid \in Nat
<1>1. i \in RecId
    BY DEF BindRec
<1>2. Recs[i].stub \in Stub
    BY <1>1, RecTypes
<1> QED
    BY <1>1, <1>2 DEF TypeOK, Superblock

\* The world around the tracer keeps the types.
LEMMA EnvironmentType ==
    ASSUME TypeOK, Environment
    PROVE  TypeOK'
<1>1. ASSUME NEW c \in Child, NEW f \in Fd, NEW fs \in FsTypes, Mkfs(c, f, fs)
      PROVE  TypeOK'
    <2> DEFINE t == TableOf[c]
               s == fdt[t][f].obj
    <2>1. t \in Table /\ fdt[t][f] \in OpenFile /\ s \in Stub
        BY <1>1, FsrAssumption DEF Mkfs, TypeOK
    <2>2. (IF fs = "none" THEN Blank ELSE mkfs(fs, clock, nextUuid))
            \in Superblock
        <3>1. sb[s] \in Superblock
            BY <2>1 DEF TypeOK
        <3> QED
            BY <3>1, SuperblockTypes, FsrAssumption DEF TypeOK
    <2>3. sb' \in [Stub -> Superblock]
        BY <1>1, <2>1, <2>2 DEF Mkfs, TypeOK
    <2>4. fdt' \in [Table -> [Fd -> OpenFile \cup {Null}]]
        <3>1. [fdt[t][f] EXCEPT !.made = TRUE] \in OpenFile
            BY <2>1 DEF OpenFile
        <3>2. fdt' = [fdt EXCEPT ![t][f] = [fdt[t][f] EXCEPT !.made = TRUE]]
            BY <1>1 DEF Mkfs
        <3> QED
            BY <2>1, <3>1, <3>2 DEF TypeOK
    <2>5. clock' \in Nat /\ nextUuid' \in Nat
        BY <1>1 DEF Mkfs, TypeOK
    <2> QED
        BY <1>1, <2>3, <2>4, <2>5 DEF Mkfs, TypeOK, mbc
<1>2. ASSUME NEW i \in BindRec, NEW name \in Names, WriteFile(i, name)
      PROVE  TypeOK'
    <2>1. [uuid |-> sb[Recs[i].stub].uuid, name |-> name,
           held |-> Held(Recs[i].stub)] \in File
        BY StubOfRec DEF File, Held
    <2>2. dir' \in [RecId -> SUBSET File]
        BY <1>2, <2>1, StubOfRec DEF WriteFile, TypeOK
    <2> QED
        BY <1>2, <2>2 DEF WriteFile, TypeOK, mbc, kern
<1>3. ASSUME NEW i \in BindRec, Umount(i)
      PROVE  TypeOK'
    BY <1>3 DEF Umount, TypeOK, mbc, disk
<1>4. CASE Tick
    BY <1>4 DEF Tick, TypeOK, mbc, kern
<1>5. CASE SetBack
    BY <1>5 DEF SetBack, TypeOK, mbc, kern
<1>6. ASSUME NEW p \in Removable, Replug(p)
      PROVE  TypeOK'
    BY <1>6, FsrAssumption DEF Replug, TypeOK, mbc, disk
<1> QED
    BY <1>1, <1>2, <1>3, <1>4, <1>5, <1>6 DEF Environment

\* One step keeps the types.
LEMMA TypeNext ==
    TypeOK /\ CallHasArguments /\ [Next]_vars => TypeOK'
<1> SUFFICES ASSUME TypeOK, CallHasArguments, [Next]_vars
             PROVE  TypeOK'
    OBVIOUS
<1>1. ASSUME NEW c \in Child, HookPre(c) \/ Kernel(c) \/ HookPost(c)
      PROVE  TypeOK'
    BY <1>1, PreType, KernelType, PostType
<1>2. ASSUME NEW c \in Child, NEW d \in Child,
             ChildCreate(c, d) \/ ChildDestroy(c)
      PROVE  TypeOK'
    BY <1>2, ChildType
<1>3. CASE Environment
    BY <1>3, EnvironmentType
<1>4. CASE UNCHANGED vars
    BY <1>4 DEF vars, mbc, kern, disk, TypeOK
<1> QED
    BY <1>1, <1>2, <1>3, <1>4 DEF Next

-----------------------------------------------------------------------------
(***************************************************************************)
(* The scratch fields                                                      *)
(***************************************************************************)
\* The path calls are none of the other calls.
LEMMA CallNames ==
    /\ OpenCall \subseteq PathCall
    /\ \A n \in {"none", "close", "dup", "dup2", "mount"} :
          n \notin PathCall /\ n \notin OpenCall
BY DEF PathCall, OpenCall, ResolveRow, PlainRow, FlagRow, StrayRow

\* The scratch fields are empty when the tracer starts.
LEMMA ScratchInit == Init => ScratchBelongsToCall /\ CallHasArguments
BY CallNames DEF Init, ScratchBelongsToCall, CallHasArguments, Idle

\* A process that makes no call has empty scratch fields.
LEMMA IdleScratch ==
    ASSUME TypeOK, ScratchBelongsToCall, NEW c \in Child, call[c] = Idle
    PROVE  memory[c] = Null /\ handled[c] = FALSE /\ tmp[c] = Null
<1>1. call[c].sc = "none" /\ call[c].to = Null
    BY DEF Idle
<1>2. handled[c] = FALSE
    BY <1>1, CallNames DEF ScratchBelongsToCall, TypeOK
<1> QED
    BY <1>1, <1>2 DEF ScratchBelongsToCall

\* A step that leaves the calls and the scratch fields alone keeps both.
LEMMA ScratchUnchanged ==
    ASSUME ScratchBelongsToCall, CallHasArguments,
           UNCHANGED <<memory, tmp, handled, call>>
    PROVE  ScratchBelongsToCall' /\ CallHasArguments'
BY DEF ScratchBelongsToCall, CallHasArguments

\* The kernel moves the call on and keeps its arguments.
LEMMA ScratchReturns ==
    ASSUME TypeOK, ScratchBelongsToCall, CallHasArguments,
           NEW c \in Child, NEW hit, NEW ret, Returns(c, hit, ret),
           UNCHANGED mbc
    PROVE  ScratchBelongsToCall' /\ CallHasArguments'
<1>1. \A d \in Child : /\ call'[d].sc = call[d].sc
                        /\ call'[d].to = call[d].to
                        /\ call'[d].path = call[d].path
                        /\ call'[d].fd = call[d].fd
    BY DEF Returns, TypeOK, Call
<1> QED
    BY <1>1 DEF ScratchBelongsToCall, CallHasArguments, mbc

\* A call that ends leaves nothing behind.
LEMMA ScratchIdle ==
    ASSUME TypeOK, ScratchBelongsToCall, CallHasArguments, NEW c \in Child,
           call' = [call EXCEPT ![c] = Idle],
           memory' = [memory EXCEPT ![c] = Null],
           tmp' = [tmp EXCEPT ![c] = Null],
           handled' = [handled EXCEPT ![c] = FALSE]
    PROVE  ScratchBelongsToCall' /\ CallHasArguments'
<1>1. /\ call'[c] = Idle /\ memory'[c] = Null
      /\ tmp'[c] = Null /\ handled'[c] = FALSE
    BY DEF TypeOK
<1>2. \A d \in Child \ {c} : /\ call'[d] = call[d] /\ memory'[d] = memory[d]
                              /\ tmp'[d] = tmp[d] /\ handled'[d] = handled[d]
    BY DEF TypeOK
<1> QED
    BY <1>1, <1>2, CallNames DEF ScratchBelongsToCall, CallHasArguments, Idle

\* An entry hook fills the scratch fields for its own call.
LEMMA ScratchPre ==
    ASSUME TypeOK, ScratchBelongsToCall, CallHasArguments,
           NEW c \in Child, HookPre(c)
    PROVE  ScratchBelongsToCall' /\ CallHasArguments'
<1>1. ASSUME NEW sc \in Syscalls, NEW p \in Path, NEW wr \in BOOLEAN,
             NEW nofollow \in BOOLEAN, NEW stray \in BOOLEAN,
             hook_fileaccess_pre(c, sc, p, wr, nofollow, stray)
      PROVE  ScratchBelongsToCall' /\ CallHasArguments'
    <2> DEFINE resolve == resolve_symlinks(sc, nofollow, stray)
               path    == get_patharg(node, p, resolve)
               r       == get_fstab_rec(node, path)
               w       == Watch(sc, wr, r)
               to      == Replacement(path, resolve, r)
    <2>1. call[c] = Idle
        BY <1>1 DEF hook_fileaccess_pre, Ready
    <2>2. memory[c] = Null /\ handled[c] = FALSE /\ tmp[c] = Null
        BY <2>1, IdleScratch DEF TypeOK
    <2>3. r \in {0} \cup RecId
        BY LookupResult
    <2>4. w # 0 => sc \in OpenCall
        BY <2>3, WatchType
    <2>5. /\ handled' = [handled EXCEPT ![c] = IF w # 0 THEN TRUE ELSE @]
          /\ tmp' = [tmp EXCEPT ![c] = IF w # 0 THEN path ELSE @]
          /\ memory' = [memory EXCEPT ![c] = IF to # Null THEN to ELSE @]
          /\ call' = [call EXCEPT ![c] =
                        [Idle EXCEPT !.sc = sc, !.phase = "pre", !.path = p,
                                     !.wr = wr, !.to = to,
                                     !.follow = KernelFollows(sc, nofollow)]]
        BY <1>1 DEF hook_fileaccess_pre
    <2> HIDE DEF resolve, path, r, w, to
    <2>6. /\ memory'[c] = to
          /\ call'[c].to = to /\ call'[c].sc = sc /\ call'[c].path = p
        BY <2>2, <2>5 DEF TypeOK, Idle
    <2>9. /\ handled'[c] => sc \in OpenCall
          /\ tmp'[c] # Null => handled'[c]
        BY <2>2, <2>4, <2>5 DEF TypeOK
    <2>7. \A d \in Child \ {c} :
              /\ call'[d] = call[d] /\ memory'[d] = memory[d]
              /\ tmp'[d] = tmp[d] /\ handled'[d] = handled[d]
        BY <2>5 DEF TypeOK
    <2>8. sc \in PathCall
        BY FsrAssumption
    <2>10. ScratchBelongsToCall'
        BY <2>6, <2>7, <2>9 DEF ScratchBelongsToCall
    <2>11. CallHasArguments'
        BY <2>6, <2>7, <2>8, CallNames DEF CallHasArguments
    <2> QED
        BY <2>10, <2>11
<1>2. ASSUME NEW fd \in Fd, hook_close_pre(c, fd)
      PROVE  ScratchBelongsToCall' /\ CallHasArguments'
    <2>1. memory[c] = Null /\ handled[c] = FALSE /\ tmp[c] = Null
        BY <1>2, IdleScratch DEF hook_close_pre, Ready, TypeOK
    <2>2. call'[c].sc = "close" /\ call'[c].to = Null /\ call'[c].fd = fd
        BY <1>2 DEF hook_close_pre, TypeOK, Idle
    <2>3. \A d \in Child \ {c} : call'[d] = call[d]
        BY <1>2 DEF hook_close_pre, TypeOK
    <2>4. UNCHANGED <<memory, tmp, handled>>
        BY <1>2 DEF hook_close_pre
    <2> QED
        BY <2>1, <2>2, <2>3, <2>4, CallNames
        DEF ScratchBelongsToCall, CallHasArguments
<1>3. ASSUME NEW sc \in {"dup", "dup2"}, NEW fd \in Fd,
             NEW newfd \in Fd \cup {Null}, hook_dup_pre(c, sc, fd, newfd)
      PROVE  ScratchBelongsToCall' /\ CallHasArguments'
    <2>1. memory[c] = Null /\ handled[c] = FALSE
        BY <1>3, IdleScratch DEF hook_dup_pre, Ready, TypeOK
    <2>2. /\ call'[c].sc = sc /\ call'[c].to = Null
          /\ call'[c].fd = fd
        BY <1>3 DEF hook_dup_pre, TypeOK, Idle
    <2>3. \A d \in Child \ {c} : call'[d] = call[d] /\ tmp'[d] = tmp[d]
        BY <1>3 DEF hook_dup_pre, TypeOK
    <2>4. UNCHANGED <<memory, handled>>
        BY <1>3 DEF hook_dup_pre
    <2> QED
        BY <1>3, <2>1, <2>2, <2>3, <2>4, CallNames
        DEF ScratchBelongsToCall, CallHasArguments
<1>4. ASSUME NEW p \in Path, NEW asec \in BOOLEAN, hook_mount_pre(c, p, asec)
      PROVE  ScratchBelongsToCall' /\ CallHasArguments'
    <2> DEFINE to == MountReplacement(get_patharg(node, p, TRUE), asec)
    <2>1. memory[c] = Null /\ handled[c] = FALSE /\ tmp[c] = Null
        BY <1>4, IdleScratch DEF hook_mount_pre, Ready, TypeOK
    <2>2. /\ memory' = [memory EXCEPT ![c] = IF to # Null THEN to ELSE @]
          /\ call' = [call EXCEPT ![c] =
                        [Idle EXCEPT !.sc = "mount", !.phase = "pre",
                                     !.path = p, !.follow = TRUE, !.to = to]]
          /\ UNCHANGED <<tmp, handled>>
        BY <1>4 DEF hook_mount_pre
    <2> HIDE DEF to
    <2>3. /\ memory'[c] = to
          /\ call'[c].sc = "mount" /\ call'[c].to = to /\ call'[c].path = p
        BY <2>1, <2>2 DEF TypeOK, Idle
    <2>4. \A d \in Child \ {c} : call'[d] = call[d] /\ memory'[d] = memory[d]
        BY <2>2 DEF TypeOK
    <2> QED
        BY <2>1, <2>2, <2>3, <2>4, CallNames
        DEF ScratchBelongsToCall, CallHasArguments
<1>5. ASSUME Abort PROVE ScratchBelongsToCall' /\ CallHasArguments'
    BY <1>5, ScratchUnchanged DEF Abort, mbc
<1> QED
    BY <1>1, <1>2, <1>3, <1>4, <1>5, HookPreCases

\* The kernel does not touch the scratch fields.
LEMMA ScratchKernel ==
    ASSUME TypeOK, ScratchBelongsToCall, CallHasArguments,
           NEW c \in Child, Kernel(c)
    PROVE  ScratchBelongsToCall' /\ CallHasArguments'
<1>1. CASE \E hit, ret : Returns(c, hit, ret) /\ UNCHANGED mbc
    BY <1>1, ScratchReturns
<1>2. CASE KernelClose(c)
    <2>1. call[c].sc = "close"
        BY <1>2 DEF KernelClose, InKernel
    <2>2. handled[c] = FALSE /\ tmp[c] = Null
        BY <2>1, CallNames DEF ScratchBelongsToCall, TypeOK
    <2>3. memory[c] = Null
        BY <2>1, CallNames DEF ScratchBelongsToCall, CallHasArguments
    <2>4. /\ memory' = [memory EXCEPT ![c] = Null]
          /\ tmp' = [tmp EXCEPT ![c] = Null]
          /\ handled' = [handled EXCEPT ![c] = FALSE]
        BY <1>2, <2>2, <2>3 DEF KernelClose, mbc, TypeOK
    <2> QED
        BY <1>2, <2>4, ScratchIdle DEF KernelClose
<1> QED
    BY <1>1, <1>2
    DEF Kernel, KernelOpen, KernelPath, KernelError, KernelDup,
        KernelDupError, KernelMount

\* An exit hook empties the scratch fields of its call.
LEMMA ScratchPost ==
    ASSUME TypeOK, ScratchBelongsToCall, CallHasArguments,
           NEW c \in Child, HookPost(c)
    PROVE  ScratchBelongsToCall' /\ CallHasArguments'
<1>1. CASE hook_fileaccess_post(c)
    <2>1. call[c].sc \in PathCall
        BY <1>1 DEF hook_fileaccess_post, AtExit
    <2>2. handled' = [handled EXCEPT ![c] = FALSE]
        BY <1>1 DEF hook_fileaccess_post, ScratchBelongsToCall, TypeOK
    <2>3. tmp' = [tmp EXCEPT ![c] = Null]
        BY <1>1, <2>1, CallNames
        DEF hook_fileaccess_post, DropTmp, ScratchBelongsToCall, TypeOK
    <2> QED
        BY <1>1, <2>2, <2>3, ScratchIdle DEF hook_fileaccess_post
<1>2. CASE hook_dup_post(c)
    <2>1. call[c].sc \in {"dup", "dup2"}
        BY <1>2 DEF hook_dup_post, AtExit
    <2>2. handled[c] = FALSE /\ memory[c] = Null
        BY <2>1, CallNames DEF ScratchBelongsToCall, CallHasArguments, TypeOK
    <2>3. /\ memory' = [memory EXCEPT ![c] = Null]
          /\ handled' = [handled EXCEPT ![c] = FALSE]
        BY <1>2, <2>2 DEF hook_dup_post, TypeOK
    <2> QED
        BY <1>2, <2>3, ScratchIdle DEF hook_dup_post
<1>3. CASE hook_mount_post(c)
    <2>1. call[c].sc = "mount"
        BY <1>3 DEF hook_mount_post, AtExit
    <2>2. handled[c] = FALSE /\ tmp[c] = Null
        BY <2>1, CallNames DEF ScratchBelongsToCall, TypeOK
    <2>3. /\ tmp' = [tmp EXCEPT ![c] = Null]
          /\ handled' = [handled EXCEPT ![c] = FALSE]
        BY <1>3, <2>2 DEF hook_mount_post, TypeOK
    <2> QED
        BY <1>3, <2>3, ScratchIdle DEF hook_mount_post
<1>4. CASE hook_fileaccess_crash(c) \/ hook_dup_crash(c)
    BY <1>4, ScratchUnchanged
    DEF hook_fileaccess_crash, hook_dup_crash, Crash, mbc
<1> QED
    BY <1>1, <1>2, <1>3, <1>4 DEF HookPost

\* One step keeps the scratch fields tied to the calls.
LEMMA ScratchNext ==
    TypeOK /\ ScratchBelongsToCall /\ CallHasArguments /\ [Next]_vars
        => ScratchBelongsToCall' /\ CallHasArguments'
<1> SUFFICES ASSUME TypeOK, ScratchBelongsToCall, CallHasArguments, [Next]_vars
             PROVE  ScratchBelongsToCall' /\ CallHasArguments'
    OBVIOUS
<1>1. ASSUME NEW c \in Child, HookPre(c) \/ Kernel(c) \/ HookPost(c)
      PROVE  ScratchBelongsToCall' /\ CallHasArguments'
    BY <1>1, ScratchPre, ScratchKernel, ScratchPost
<1>2. ASSUME NEW c \in Child, NEW d \in Child, ChildCreate(c, d)
      PROVE  ScratchBelongsToCall' /\ CallHasArguments'
    BY <1>2, ScratchIdle DEF ChildCreate
<1>3. ASSUME NEW c \in Child, ChildDestroy(c)
      PROVE  ScratchBelongsToCall' /\ CallHasArguments'
    BY <1>3, ScratchIdle DEF ChildDestroy
<1>4. CASE Environment \/ UNCHANGED vars
    <2>1. UNCHANGED <<memory, tmp, handled, call>>
        BY <1>4 DEF Environment, Mkfs, WriteFile, Umount, Tick, SetBack,
                    Replug, vars, mbc
    <2> QED
        BY <2>1, ScratchUnchanged
<1> QED
    BY <1>1, <1>2, <1>3, <1>4 DEF Next

\* The types, the scratch fields and the arguments together are inductive.
HookInv == TypeOK /\ ScratchBelongsToCall /\ CallHasArguments

\* The invariant of the hooks holds in every reachable state.
LEMMA HookInvariant == Spec => []HookInv
<1>1. Init => HookInv
    BY InitType, ScratchInit DEF HookInv
<1>2. HookInv /\ [Next]_vars => HookInv'
    BY TypeNext, ScratchNext DEF HookInv
<1> QED
    BY <1>1, <1>2, PTL DEF Spec

\* The types of the state hold for every set of processes, paths, records and
\* system calls.
THEOREM TypeCorrect == Spec => []TypeOK
BY HookInvariant, PTL DEF HookInv

\* The scratch fields of multiboot_child_data never carry the path, the flag
\* or the copied argument of one hooked call over to another.
THEOREM ScratchCorrect == Spec => []ScratchBelongsToCall
BY HookInvariant, PTL DEF HookInv

-----------------------------------------------------------------------------
(***************************************************************************)
(* No false alarm, when the clock is not set back                          *)
(*                                                                         *)
(* A super block is never younger than the clock, and every entry fits the *)
(* super block of its device: as long as the file system is the one of the *)
(* snapshot, the type is the same, mkfs has not run and the check time has *)
(* only grown.                                                             *)
(***************************************************************************)
DiskInv ==
    /\ nextUuid > 0
    /\ \A s \in Stub : /\ sb[s].check <= clock
                       /\ sb[s].uuid < nextUuid
                       /\ sb[s].uuid = 0 => sb[s] = Blank

Fits(x, s) ==
    /\ x.uuid < nextUuid
    /\ x.uuid = 0 => x.fs_type = "ext4" /\ x.pdata = ext2_pre(Blank)
    /\ x.uuid = s.uuid =>
          /\ x.fs_type = fstype(s)
          /\ x.pdata # NoData => /\ s.mkfs <= x.pdata.mkfs
                                 /\ x.pdata.check <= s.check

EntriesFit ==
    \A c \in Child, f \in Fd :
        \A k \in 1..Len(files[c][f]) :
            Fits(files[c][f][k], sb[files[c][f][k].device])

\* An entry that fits raises no false alarm.
LEMMA FitsNoAlarm ==
    ASSUME NEW x \in FdInfo, NEW s \in Superblock, Fits(x, s),
           fs_was_format(x, s)
    PROVE  s.uuid # x.uuid
<1> SUFFICES ASSUME s.uuid = x.uuid PROVE FALSE
    OBVIOUS
<1>1. x.fs_type = fstype(s)
    BY DEF Fits
<1>2. x.pdata # NoData /\ ext2_was_format(x.pdata, s)
    BY <1>1 DEF fs_was_format
<1>3. s.mkfs <= x.pdata.mkfs /\ x.pdata.check <= s.check
    BY <1>2 DEF Fits
<1>4. x.pdata \in Pdata
    BY <1>2 DEF FdInfo
<1> QED
    BY <1>2, <1>3, <1>4 DEF ext2_was_format, Pdata, Superblock

\* The elements of a list of descriptors are typed.
LEMMA EntryType ==
    ASSUME TypeOK, NEW c \in Child, NEW f \in Fd,
           NEW k \in 1..Len(files[c][f])
    PROVE  /\ files[c][f][k] \in FdInfo
           /\ files[c][f][k].device \in Stub
           /\ sb[files[c][f][k].device] \in Superblock
<1>1. files[c][f] \in Seq(FdInfo)
    BY DEF TypeOK
<1>2. files[c][f][k] \in FdInfo
    BY <1>1, ElementOfSeq
<1>3. files[c][f][k].device \in Stub
    BY <1>2 DEF FdInfo
<1> QED
    BY <1>2, <1>3 DEF TypeOK

\* A new entry fits the super block it was taken from.
LEMMA NewEntryFits ==
    ASSUME TypeOK, DiskInv, NEW name \in Path, make_fdinfo_safe(name)
    PROVE  Fits(make_fdinfo(name), sb[make_fdinfo(name).device])
<1> DEFINE s == Recs[get_fstab_rec(node, name)].stub
           x == make_fdinfo(name)
<1>1. /\ x.device = s /\ x.fs_type = fstype(sb[s])
      /\ x.pdata = fs_pre(sb[s]) /\ x.uuid = sb[s].uuid
    BY DEF make_fdinfo
<1>2. s \in Stub
    BY <1>1, MakeFdinfoType
<1>3. sb[s] \in Superblock
    BY <1>2 DEF TypeOK
<1> HIDE DEF s, x
<1>4. x.uuid < nextUuid
    BY <1>1, <1>2 DEF DiskInv
<1>5. x.uuid = 0 => x.fs_type = "ext4" /\ x.pdata = ext2_pre(Blank)
    <2>1. x.uuid = 0 => sb[s] = Blank
        BY <1>1, <1>2 DEF DiskInv
    <2>2. fstype(Blank) = "ext4"
        BY DEF fstype, Blank
    <2> QED
        BY <1>1, <2>1, <2>2 DEF fs_pre
<1>6. x.pdata # NoData => x.pdata = ext2_pre(sb[s])
    BY <1>1 DEF fs_pre
<1>7. x.pdata # NoData => /\ sb[s].mkfs <= x.pdata.mkfs
                          /\ x.pdata.check <= sb[s].check
    BY <1>3, <1>6 DEF ext2_pre, Superblock
<1>8. Fits(x, sb[x.device])
    BY <1>1, <1>4, <1>5, <1>7 DEF Fits
<1> QED
    BY <1>8 DEF x

\* What a step may do to the disks: the clock and the identities grow, and a
\* super block changes by e2fsck, by an erase or by a new file system, which
\* takes a second.
DiskStep ==
    /\ clock <= clock' /\ nextUuid <= nextUuid'
    /\ \A s \in Stub :
          \/ sb'[s] = sb[s]
          \/ sb'[s] = e2fsck(sb[s], clock)
          \/ "none" \in FsTypes /\ sb'[s] = Blank
          \/ /\ nextUuid' = nextUuid + 1
             /\ "fast" \notin Workload => clock' = clock + 1
             /\ \E fs \in FsTypes \ {"none"} : sb'[s] = mkfs(fs, clock, nextUuid)

\* One step keeps super blocks no younger than the clock.
LEMMA DiskStepInv ==
    ASSUME TypeOK, TypeOK', DiskInv, DiskStep
    PROVE  DiskInv'
<1>1. nextUuid' > 0
    BY DEF DiskInv, DiskStep, TypeOK
<1>2. ASSUME NEW s \in Stub
      PROVE  /\ sb'[s].check <= clock'
             /\ sb'[s].uuid < nextUuid'
             /\ sb'[s].uuid = 0 => sb'[s] = Blank
    <2>1. sb[s] \in Superblock /\ clock \in Nat /\ nextUuid \in Nat
          /\ clock' \in Nat /\ nextUuid' \in Nat
        BY DEF TypeOK
    <2>2. /\ sb[s].check <= clock /\ sb[s].uuid < nextUuid
          /\ sb[s].uuid = 0 => sb[s] = Blank /\ nextUuid > 0
        BY DEF DiskInv
    <2>3. clock <= clock' /\ nextUuid <= nextUuid'
        BY DEF DiskStep
    <2>4. CASE sb'[s] = sb[s]
        BY <2>1, <2>2, <2>3, <2>4 DEF Superblock
    <2>5. CASE sb'[s] = e2fsck(sb[s], clock)
        BY <2>1, <2>2, <2>3, <2>5 DEF e2fsck, Superblock, Blank
    <2>6. CASE sb'[s] = Blank
        BY <1>1, <2>1, <2>6 DEF Blank
    <2>7. CASE /\ nextUuid' = nextUuid + 1
               /\ \E fs \in FsTypes : sb'[s] = mkfs(fs, clock, nextUuid)
        BY <2>1, <2>3, <2>7, DiskInv DEF mkfs, DiskInv
    <2> QED
        BY <2>4, <2>5, <2>6, <2>7 DEF DiskStep
<1> QED
    BY <1>1, <1>2 DEF DiskInv

\* An entry that fits still fits after such a step.
LEMMA DiskStepFits ==
    ASSUME TypeOK, TypeOK', DiskInv, DiskStep,
           NEW x \in FdInfo, x.device \in Stub, Fits(x, sb[x.device])
    PROVE  Fits(x, sb[x.device])'
<1> DEFINE s == sb[x.device]
           t == sb'[x.device]
<1>1. /\ s \in Superblock /\ clock \in Nat /\ nextUuid \in Nat
      /\ nextUuid' \in Nat /\ x.uuid \in Nat
      /\ x.pdata # NoData => x.pdata \in Pdata
    BY DEF TypeOK, FdInfo
<1>2. x.uuid < nextUuid'
    BY <1>1 DEF Fits, DiskStep
<1>3. x.uuid = 0 => x.fs_type = "ext4" /\ x.pdata = ext2_pre(Blank)
    BY DEF Fits
<1>4. s.check <= clock
    BY DEF DiskInv
<1>5. ASSUME x.uuid = t.uuid
      PROVE  /\ x.fs_type = fstype(t)
             /\ x.pdata # NoData => /\ t.mkfs <= x.pdata.mkfs
                                    /\ x.pdata.check <= t.check
    <2>1. x.uuid = s.uuid =>
              /\ x.fs_type = fstype(s)
              /\ x.pdata # NoData => /\ s.mkfs <= x.pdata.mkfs
                                     /\ x.pdata.check <= s.check
        BY DEF Fits
    <2>2. CASE t = s
        BY <1>5, <2>1, <2>2
    <2>3. CASE t = e2fsck(s, clock)
        <3>1. t.uuid = s.uuid /\ t.mkfs = s.mkfs /\ t.fs = s.fs
              /\ s.check <= t.check /\ t.check \in Nat
            BY <1>1, <1>4, <2>3 DEF e2fsck, Superblock
        <3> QED
            BY <1>1, <1>5, <2>1, <3>1 DEF fstype, Pdata, Superblock
    <2>4. CASE t = Blank
        BY <1>3, <1>5, <2>4 DEF Blank, ext2_pre, fstype
    <2>5. CASE \E fs \in FsTypes : t = mkfs(fs, clock, nextUuid)
        <3>1. t.uuid = nextUuid
            BY <2>5 DEF mkfs
        <3>2. x.uuid < nextUuid
            BY DEF Fits
        <3> QED
            BY <1>1, <1>5, <3>1, <3>2
    <2> QED
        BY <2>2, <2>3, <2>4, <2>5 DEF DiskStep
<1> QED
    BY <1>2, <1>3, <1>5 DEF Fits

\* Descriptor f of c is the one that an open or dup call has returned.
Returned(c, f) ==
    call[c].sc \in OpenCall \cup {"dup", "dup2"} /\ call[c].phase = "post"
                                              /\ f = call[c].ret

\* What a step may do to the lists: the entries stay or go, and one may come
\* that the exit hook of open or dup makes of the stored name.
ListStep ==
    \A c \in Child, f \in Fd :
        \A k \in 1..Len(files'[c][f]) :
            \/ \E j \in 1..Len(files[c][f]) : files'[c][f][k] = files[c][f][j]
            \/ /\ Returned(c, f) /\ UNCHANGED <<kern, disk>>
               /\ tmp[c] \in Path /\ make_fdinfo_safe(tmp[c])
               /\ files'[c][f][k] = make_fdinfo(tmp[c])

\* Only Mkfs, e2fsck and the clock change the disks.
LEMMA NextDisk ==
    ASSUME TypeOK, "setback" \notin Workload, [Next]_vars
    PROVE  DiskStep
<1>1. ASSUME UNCHANGED <<sb, clock, nextUuid>> PROVE DiskStep
    BY <1>1 DEF DiskStep, TypeOK
<1>2. ASSUME NEW c \in Child, HookPre(c) PROVE DiskStep
    <2>1. ASSUME NEW sc \in Syscalls, NEW p \in Path, NEW wr \in BOOLEAN,
                 NEW nofollow \in BOOLEAN, NEW stray \in BOOLEAN,
                 hook_fileaccess_pre(c, sc, p, wr, nofollow, stray)
          PROVE  DiskStep
        <3> DEFINE path == get_patharg(node, p, resolve_symlinks(sc, nofollow, stray))
                   w == Watch(sc, wr, get_fstab_rec(node, path))
        <3>1. /\ UNCHANGED <<clock, nextUuid>>
              /\ \/ sb' = sb
                 \/ sb' = [sb EXCEPT ![Recs[w].stub] = e2fsck(@, clock)]
            BY <2>1 DEF hook_fileaccess_pre
        <3> HIDE DEF path, w
        <3> QED
            BY <3>1 DEF DiskStep, TypeOK
    <2>2. ASSUME NEW fd \in Fd, hook_close_pre(c, fd)
          PROVE  UNCHANGED <<sb, clock, nextUuid>>
        BY <2>2 DEF hook_close_pre
    <2>3. ASSUME NEW sc \in {"dup", "dup2"}, NEW fd \in Fd,
                 NEW newfd \in Fd \cup {Null}, hook_dup_pre(c, sc, fd, newfd)
          PROVE  UNCHANGED <<sb, clock, nextUuid>>
        BY <2>3 DEF hook_dup_pre, disk
    <2>4. ASSUME NEW p \in Path, NEW asec \in BOOLEAN,
                 hook_mount_pre(c, p, asec)
          PROVE  UNCHANGED <<sb, clock, nextUuid>>
        BY <2>4 DEF hook_mount_pre, disk
    <2>5. Abort => UNCHANGED <<sb, clock, nextUuid>>
        BY DEF Abort, disk
    <2> QED
        BY <1>1, <1>2, <2>1, <2>2, <2>3, <2>4, <2>5, HookPreCases, Zenon
<1>3. ASSUME NEW c \in Child, Kernel(c) \/ HookPost(c) PROVE DiskStep
    BY <1>1, <1>3
    DEF Kernel, KernelOpen, KernelPath, KernelError, KernelClose, KernelDup,
        KernelDupError, KernelMount, HookPost, hook_fileaccess_post,
        hook_fileaccess_crash, hook_dup_post, hook_dup_crash, hook_mount_post,
        Crash, disk
<1>4. ASSUME NEW c \in Child, NEW d \in Child,
             ChildCreate(c, d) \/ ChildDestroy(c)
      PROVE  DiskStep
    BY <1>1, <1>4 DEF ChildCreate, ChildDestroy, disk
<1>5. ASSUME NEW c \in Child, NEW f \in Fd, NEW fs \in FsTypes, Mkfs(c, f, fs)
      PROVE  DiskStep
    <2>1. /\ nextUuid' \in {nextUuid, nextUuid + 1}
          /\ clock' \in {clock, clock + 1}
          /\ \A s \in Stub :
                sb'[s] = sb[s] \/ sb'[s] = (IF fs = "none" THEN Blank
                                           ELSE mkfs(fs, clock, nextUuid))
        BY <1>5 DEF Mkfs, TypeOK
    <2>2. fs # "none" => /\ nextUuid' = nextUuid + 1
                         /\ "fast" \notin Workload => clock' = clock + 1
        BY <1>5 DEF Mkfs
    <2>3. clock <= clock' /\ nextUuid <= nextUuid'
        BY <2>1 DEF TypeOK
    <2> QED
        BY <2>1, <2>2, <2>3 DEF DiskStep
<1>6. CASE Environment
    BY <1>1, <1>5, <1>6
    DEF Environment, WriteFile, Umount, Tick, SetBack, Replug, disk, DiskStep,
        TypeOK
<1>7. CASE UNCHANGED vars
    BY <1>1, <1>7 DEF vars, disk
<1> QED
    BY <1>2, <1>3, <1>4, <1>6, <1>7 DEF Next

\* A hook at the exit that adds an entry to the list of descriptor fd.
LEMMA AddStep ==
    ASSUME TypeOK, NEW c \in Child, NEW fd \in Fd,
           tmp[c] \in Path, make_fdinfo_safe(tmp[c]),
           \E q \in ll_add(files[c][fd], make_fdinfo(tmp[c])) :
               files' = [files EXCEPT ![c][fd] = q],
           Returned(c, fd), UNCHANGED <<kern, disk>>
    PROVE  ListStep
<1>1. PICK q \in ll_add(files[c][fd], make_fdinfo(tmp[c])) :
         files' = [files EXCEPT ![c][fd] = q]
    OBVIOUS
<1>2. files[c][fd] \in Seq(FdInfo) /\ make_fdinfo(tmp[c]) \in FdInfo
    BY MakeFdinfoType DEF TypeOK
<1>3. \A k \in 1..Len(q) : \/ q[k] = make_fdinfo(tmp[c])
                           \/ \E j \in 1..Len(files[c][fd]) :
                                 q[k] = files[c][fd][j]
    BY <1>1, <1>2, AddResult
<1>4. files'[c][fd] = q
    BY <1>1 DEF TypeOK
<1>5. \A d \in Child, f \in Fd :
          d # c \/ f # fd => files'[d][f] = files[d][f]
    BY <1>1 DEF TypeOK
<1> HIDE DEF ll_add
<1> QED
    BY <1>3, <1>4, <1>5 DEF ListStep

\* Only open, dup and close change the lists of a child that lives on.
LEMMA NextFiles ==
    ASSUME TypeOK, [Next]_vars
    PROVE  ListStep
<1>1. ASSUME UNCHANGED files PROVE ListStep
    BY <1>1 DEF ListStep
<1>2. ASSUME NEW c \in Child, HookPre(c) PROVE ListStep
    <2>1. ASSUME NEW fd \in Fd, hook_close_pre(c, fd) PROVE ListStep
        <3>1. CASE Tracked(c, fd)
            <4>1. files[c][fd] \in Seq(FdInfo) /\ files[c][fd] # <<>>
                BY <3>1 DEF TypeOK, Tracked
            <4>2. files' = [files EXCEPT ![c][fd] = Tail(files[c][fd])]
                BY <2>1, <3>1 DEF hook_close_pre, ll_del
            <4>3. /\ Len(Tail(files[c][fd])) = Len(files[c][fd]) - 1
                  /\ \A k \in 1..Len(Tail(files[c][fd])) :
                        Tail(files[c][fd])[k] = files[c][fd][k + 1]
                BY <4>1, HeadTailProperties
            <4>4. files'[c][fd] = Tail(files[c][fd])
                BY <4>2 DEF TypeOK
            <4>5. \A d \in Child, f \in Fd :
                      d # c \/ f # fd => files'[d][f] = files[d][f]
                BY <4>2 DEF TypeOK
            <4>6. Len(files[c][fd]) \in Nat
                BY <4>1
            <4>7. \A k \in 1..Len(files'[c][fd]) :
                      \E j \in 1..Len(files[c][fd]) :
                          files'[c][fd][k] = files[c][fd][j]
                BY <4>3, <4>4, <4>6
            <4> QED
                BY <4>5, <4>7 DEF ListStep
        <3> QED
            BY <1>1, <2>1, <3>1 DEF hook_close_pre
    <2>2. ASSUME NEW sc \in Syscalls, NEW p \in Path, NEW wr \in BOOLEAN,
                 NEW nofollow \in BOOLEAN, NEW stray \in BOOLEAN,
                 hook_fileaccess_pre(c, sc, p, wr, nofollow, stray)
          PROVE  UNCHANGED files
        BY <2>2 DEF hook_fileaccess_pre
    <2>3. ASSUME NEW sc \in {"dup", "dup2"}, NEW fd \in Fd,
                 NEW newfd \in Fd \cup {Null}, hook_dup_pre(c, sc, fd, newfd)
          PROVE  UNCHANGED files
        BY <2>3 DEF hook_dup_pre
    <2>4. ASSUME NEW p \in Path, NEW asec \in BOOLEAN,
                 hook_mount_pre(c, p, asec)
          PROVE  UNCHANGED files
        BY <2>4 DEF hook_mount_pre
    <2>5. Abort => UNCHANGED files
        BY DEF Abort, mbc
    <2> QED
        BY <1>1, <1>2, <2>1, <2>2, <2>3, <2>4, <2>5, HookPreCases, Zenon
<1>3. ASSUME NEW c \in Child, hook_fileaccess_post(c) PROVE ListStep
    <2>1. CASE Registers(c)
        <3>1. call[c].ret \in Fd /\ tmp[c] \in Path
            BY <2>1, CallTypes DEF Registers, TypeOK
        <3>2. Returned(c, call[c].ret)
            BY <1>3, <2>1 DEF hook_fileaccess_post, AtExit, Registers, Returned
        <3> QED
            BY <1>3, <2>1, <3>1, <3>2, AddStep DEF hook_fileaccess_post
    <2> QED
        BY <1>1, <1>3, <2>1 DEF hook_fileaccess_post
<1>4. ASSUME NEW c \in Child, hook_dup_post(c) PROVE ListStep
    <2>1. CASE tmp[c] # Null /\ call[c].ret # Null
        <3>1. call[c].ret \in Fd /\ tmp[c] \in Path
            BY <2>1, CallTypes DEF TypeOK
        <3>2. Returned(c, call[c].ret)
            BY <1>4 DEF hook_dup_post, AtExit, Returned
        <3> QED
            BY <1>4, <2>1, <3>1, <3>2, AddStep DEF hook_dup_post
    <2> QED
        BY <1>1, <1>4, <2>1 DEF hook_dup_post
<1>5. ASSUME NEW c \in Child, Kernel(c) \/ HookPost(c) PROVE ListStep
    BY <1>1, <1>3, <1>4, <1>5
    DEF Kernel, KernelOpen, KernelPath, KernelError, KernelClose, KernelDup,
        KernelDupError, KernelMount, HookPost, hook_fileaccess_crash,
        hook_dup_crash, hook_mount_post, Crash, mbc
<1>6. ASSUME NEW c \in Child, files' = [files EXCEPT ![c] = NoFiles]
      PROVE  ListStep
    <2>1. \A f \in Fd : files'[c][f] = <<>>
        BY <1>6 DEF NoFiles, TypeOK
    <2>2. \A d \in Child \ {c}, f \in Fd : files'[d][f] = files[d][f]
        BY <1>6 DEF TypeOK
    <2>3. \A f \in Fd : 1..Len(files'[c][f]) = {}
        BY <2>1
    <2> QED
        BY <2>2, <2>3 DEF ListStep
<1>7. ASSUME NEW c \in Child, NEW d \in Child,
             ChildCreate(c, d) \/ ChildDestroy(c)
      PROVE  ListStep
    BY <1>6, <1>7 DEF ChildCreate, ChildDestroy
<1>8. CASE Environment \/ UNCHANGED vars
    BY <1>1, <1>8 DEF Environment, Mkfs, WriteFile, Umount, Tick, SetBack,
                      Replug, vars, mbc
<1> QED
    BY <1>2, <1>5, <1>7, <1>8 DEF Next

DetectInv == HookInv /\ DiskInv /\ EntriesFit

\* One step keeps every entry fitting the super block of its device.
LEMMA DetectNext ==
    ASSUME "setback" \notin Workload
    PROVE  DetectInv /\ [Next]_vars => DetectInv'
<1> SUFFICES ASSUME DetectInv, [Next]_vars PROVE DetectInv'
    OBVIOUS
<1>1. HookInv'
    BY TypeNext, ScratchNext DEF HookInv, DetectInv
<1>2. TypeOK /\ TypeOK' /\ DiskInv /\ EntriesFit
    BY <1>1 DEF HookInv, DetectInv
<1>3. DiskStep /\ ListStep
    BY <1>2, NextDisk, NextFiles
<1>4. DiskInv'
    BY <1>2, <1>3, DiskStepInv
<1>5. ASSUME NEW c \in Child, NEW f \in Fd, NEW k \in 1..Len(files'[c][f])
      PROVE  Fits(files[c][f][k], sb[files[c][f][k].device])'
    <2> DEFINE x == files'[c][f][k]
    <2>1. CASE \E j \in 1..Len(files[c][f]) : x = files[c][f][j]
        <3>1. /\ x \in FdInfo /\ x.device \in Stub
              /\ Fits(x, sb[x.device])
            BY <1>2, <2>1, EntryType DEF EntriesFit
        <3> QED
            BY <1>2, <1>3, <3>1, DiskStepFits DEF Fits
    <2>2. CASE /\ UNCHANGED disk
               /\ tmp[c] \in Path /\ make_fdinfo_safe(tmp[c])
               /\ x = make_fdinfo(tmp[c])
        <3>1. Fits(x, sb[x.device])
            BY <1>2, <2>2, NewEntryFits
        <3> QED
            BY <2>2, <3>1 DEF Fits, disk
    <2> QED
        BY <1>3, <2>1, <2>2 DEF ListStep
<1>6. EntriesFit'
    BY <1>5 DEF EntriesFit
<1> QED
    BY <1>1, <1>4, <1>6 DEF DetectInv

\* There are no entries when the tracer starts.
LEMMA DetectInit == Init => DetectInv
<1> SUFFICES ASSUME Init PROVE DetectInv
    OBVIOUS
<1>1. HookInv
    BY InitType, ScratchInit DEF HookInv
<1>2. DiskInv
    BY DEF Init, DiskInv, mkfs, FirstUuid
<1>3. EntriesFit
    <2>1. \A c \in Child, f \in Fd : 1..Len(files[c][f]) = {}
        BY DEF Init, NoFiles
    <2> QED
        BY <2>1 DEF EntriesFit
<1> QED
    BY <1>1, <1>2, <1>3 DEF DetectInv

\* An entry that fits is never taken for one of a formatted device.
LEMMA DetectImplies == DetectInv => NoFalseAlarm
<1> SUFFICES ASSUME DetectInv, NEW c \in Child, NEW f \in Fd,
                    NEW k \in 1..Len(files[c][f]),
                    fs_was_format(files[c][f][k], sb[files[c][f][k].device])
             PROVE  sb[files[c][f][k].device].uuid # files[c][f][k].uuid
    BY DEF NoFalseAlarm, ForEachEntry
<1>1. /\ files[c][f][k] \in FdInfo
      /\ sb[files[c][f][k].device] \in Superblock
    BY EntryType DEF DetectInv, HookInv
<1>2. Fits(files[c][f][k], sb[files[c][f][k].device])
    BY DEF DetectInv, EntriesFit
<1> QED
    BY <1>1, <1>2, FitsNoAlarm

\* As long as the clock is not set back, hook_close never takes a device for
\* formatted on which no file system was made since the descriptor was
\* registered: no directory is emptied by a mere check, by a second opener,
\* by dup or by an entry that dup2 left behind.
THEOREM NoFormatImagined ==
    ASSUME "setback" \notin Workload
    PROVE  Spec => []NoFalseAlarm
BY DetectInit, DetectNext, DetectImplies, PTL DEF Spec
=============================================================================
