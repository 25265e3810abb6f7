-------------------------- MODULE FsrLookupProofs --------------------------
(***************************************************************************)
(* Which calls of a process are redirected, for all values of the          *)
(* constants: the guest keeps away from the replaced partitions, plain     *)
(* files are left alone, and a name that was looked up once is found       *)
(* again.  Each theorem names what it takes for granted of the records and *)
(* nodes; FsRedirection without it has a counterexample.                   *)
(***************************************************************************)
EXTENDS FsRedirectionProofs

\* The records that get_fstab_rec looks at.
Asked == {i \in RecId : Recs[i].multiboot}

\* The partitions of the multiboot fstab existed when prepare_fstab filled in
\* the stat buffers (multiboot_init.c:393-397).
RecordsFound ==
    \A i \in Asked : /\ Recs[i].rdev \in Dev
                     /\ Node0[Link[Recs[i].blk]] = Recs[i].rdev

\* The multiboot fstab calls each partition by one name.
OneName ==
    \A i, j \in Asked : Recs[i].rdev = Recs[j].rdev => Recs[i].blk = Recs[j].blk

\* The node of a recorded partition that comes and goes has the name of the
\* record, and the guest uses it by this name.
NodesNamed ==
    \A p \in Path, i \in Asked :
        Link[p] \in Removable /\ Node0[Link[p]] = Recs[i].rdev
            => p = Recs[i].blk

\* The hook resolves a link where the kernel follows it.
CallsAgree ==
    \A sc \in Syscalls, nofollow, stray \in BOOLEAN :
        resolve_symlinks(sc, nofollow, stray) = KernelFollows(sc, nofollow)

\* What replaces a partition is not itself a replaced partition.
ReplacementsFree ==
    \A i \in Asked : Recs[i].stub \notin Protected /\ Recs[i].repl \notin Protected

-----------------------------------------------------------------------------
(***************************************************************************)
(* Nodes and names                                                         *)
(***************************************************************************)
\* A path never names anything else than at the beginning.
NodesComeAndGo ==
    \A p \in Path : \/ node[p] = Node0[p]
                    \/ p \in Removable /\ node[p] = Absent

\* Only Replug changes the nodes.
LEMMA NodesNext ==
    ASSUME TypeOK, NodesComeAndGo, [Next]_vars
    PROVE  NodesComeAndGo'
<1>1. ASSUME UNCHANGED node PROVE NodesComeAndGo'
    BY <1>1 DEF NodesComeAndGo
<1>2. ASSUME NEW c \in Child, HookPre(c) PROVE UNCHANGED node
    <2>1. ASSUME NEW sc \in Syscalls, NEW p \in Path, NEW wr \in BOOLEAN,
                 NEW nofollow \in BOOLEAN, NEW stray \in BOOLEAN,
                 hook_fileaccess_pre(c, sc, p, wr, nofollow, stray)
          PROVE  UNCHANGED node
        BY <2>1 DEF hook_fileaccess_pre, kern
    <2>2. ASSUME NEW fd \in Fd, hook_close_pre(c, fd)
          PROVE  UNCHANGED node
        BY <2>2 DEF hook_close_pre, kern
    <2>3. ASSUME NEW sc \in {"dup", "dup2"}, NEW fd \in Fd,
                 NEW newfd \in Fd \cup {Null}, hook_dup_pre(c, sc, fd, newfd)
          PROVE  UNCHANGED node
        BY <2>3 DEF hook_dup_pre, kern
    <2>4. ASSUME NEW p \in Path, NEW asec \in BOOLEAN,
                 hook_mount_pre(c, p, asec)
          PROVE  UNCHANGED node
        BY <2>4 DEF hook_mount_pre, kern
    <2>5. Abort => UNCHANGED node
        BY DEF Abort, kern
    <2> QED
        BY <1>2, <2>1, <2>2, <2>3, <2>4, <2>5, HookPreCases, Zenon
<1>3. ASSUME NEW c \in Child, Kernel(c) \/ HookPost(c) PROVE UNCHANGED node
    BY <1>3
    DEF Kernel, KernelOpen, KernelPath, KernelError, KernelClose, KernelDup,
        KernelDupError, KernelMount, HookPost, hook_fileaccess_post,
        hook_fileaccess_crash, hook_dup_post, hook_dup_crash, hook_mount_post,
        Crash, kern
<1>4. ASSUME NEW c \in Child, NEW d \in Child,
             ChildCreate(c, d) \/ ChildDestroy(c)
      PROVE  UNCHANGED node
    BY <1>4 DEF ChildCreate, ChildDestroy
<1>5. ASSUME NEW p \in Removable, Replug(p) PROVE NodesComeAndGo'
    BY <1>5, FsrAssumption DEF Replug, NodesComeAndGo, TypeOK
<1>6. CASE Environment \/ UNCHANGED vars
    BY <1>1, <1>5, <1>6
    DEF Environment, Mkfs, WriteFile, Umount, Tick, SetBack, vars, kern
<1> QED
    BY <1>1, <1>2, <1>3, <1>4, <1>6 DEF Next

\* A name that matches a record names its partition.
LEMMA MatchNames ==
    ASSUME RecordsFound, NodesComeAndGo, NEW p \in Path, NEW i \in Asked,
           fstab_rec_matches(node, p, Recs[i])
    PROVE  Node0[Link[p]] = Recs[i].rdev
<1>1. Link[p] \in Path /\ Recs[i].rdev \in Dev
    BY PathAssumption DEF RecordsFound
<1>2. CASE p = Recs[i].blk
    BY <1>2 DEF RecordsFound
<1>3. CASE stat(node, p) # Absent /\ st_rdev(stat(node, p)) = Recs[i].rdev
    <2>1. stat(node, p) = Recs[i].rdev
        BY <1>1, <1>3, PathAssumption DEF st_rdev
    <2> QED
        BY <1>1, <1>3, <2>1 DEF NodesComeAndGo, stat
<1> QED
    BY <1>2, <1>3 DEF fstab_rec_matches

\* The same when all nodes are there.
LEMMA MatchNames0 ==
    ASSUME RecordsFound, NEW p \in Path, NEW i \in Asked,
           fstab_rec_matches(Node0, p, Recs[i])
    PROVE  Node0[Link[p]] = Recs[i].rdev
BY PathAssumption DEF RecordsFound, fstab_rec_matches, st_rdev, stat

\* A name that get_fstab_rec does not find is not that of a recorded partition
\* whose node stays or has the name of the record.
LEMMA NotFound ==
    ASSUME RecordsFound, NodesComeAndGo, NEW p \in Path,
           get_fstab_rec(node, p) = 0, NEW i \in Asked,
           Link[p] \in Removable => p = Recs[i].blk
    PROVE  Node0[Link[p]] # Recs[i].rdev
<1> SUFFICES ASSUME Node0[Link[p]] = Recs[i].rdev PROVE FALSE
    OBVIOUS
<1>1. Link[p] \in Path /\ Recs[i].rdev \in Dev /\ Absent \notin Dev
    BY PathAssumption DEF RecordsFound, Obj
<1>2. fstab_rec_matches(node, p, Recs[i])
    <2>1. CASE Link[p] \in Removable
        BY <2>1 DEF fstab_rec_matches
    <2>2. CASE Link[p] \notin Removable
        <3>1. stat(node, p) = Recs[i].rdev
            BY <1>1, <2>2 DEF NodesComeAndGo, stat
        <3> QED
            BY <1>1, <3>1 DEF fstab_rec_matches, st_rdev
    <2> QED
        BY <2>1, <2>2
<1>3. i \in Matching(node, p)
    BY <1>2 DEF Matching, Asked
<1>4. 0 \notin Matching(node, p)
    BY DEF Matching, RecId
<1>5. Matching(node, p) \subseteq Nat
    BY DEF Matching, RecId
<1>6. \E j \in Matching(node, p) : \A k \in Matching(node, p) : j <= k
    BY <1>3, <1>5, LeastRec
<1>7. get_fstab_rec(node, p) \in Matching(node, p)
    BY <1>3, <1>6 DEF get_fstab_rec
<1> QED
    BY <1>4, <1>7

\* With such nodes a lookup has one result at all times: the second lookup of
\* a name, in make_fdinfo or in hook_close, finds what the first one found.
LEMMA LookupSteady ==
    ASSUME RecordsFound, NodesNamed, NodesComeAndGo, NEW p \in Path
    PROVE  get_fstab_rec(node, p) = get_fstab_rec(Node0, p)
<1>1. ASSUME NEW i \in Asked
      PROVE  fstab_rec_matches(node, p, Recs[i])
                <=> fstab_rec_matches(Node0, p, Recs[i])
    <2>1. Link[p] \in Path /\ Recs[i].rdev \in Dev /\ Absent \notin Dev
        BY PathAssumption DEF RecordsFound, Obj
    <2>2. ASSUME fstab_rec_matches(node, p, Recs[i])
          PROVE  fstab_rec_matches(Node0, p, Recs[i])
        <3>1. stat(Node0, p) = Recs[i].rdev
            BY <2>2, MatchNames DEF stat
        <3> QED
            BY <2>1, <3>1 DEF fstab_rec_matches, st_rdev
    <2>3. ASSUME fstab_rec_matches(Node0, p, Recs[i])
          PROVE  fstab_rec_matches(node, p, Recs[i])
        <3>1. Node0[Link[p]] = Recs[i].rdev
            BY <2>3, MatchNames0
        <3>2. CASE Link[p] \in Removable
            BY <3>1, <3>2 DEF NodesNamed, fstab_rec_matches
        <3>3. CASE Link[p] \notin Removable
            <4>1. stat(node, p) = Recs[i].rdev
                BY <2>1, <3>1, <3>3 DEF NodesComeAndGo, stat
            <4> QED
                BY <2>1, <4>1 DEF fstab_rec_matches, st_rdev
        <3> QED
            BY <3>2, <3>3
    <2> QED
        BY <2>2, <2>3
<1>2. Matching(node, p) = Matching(Node0, p)
    BY <1>1 DEF Matching, Asked
<1> QED
    BY <1>2 DEF get_fstab_rec

\* When the fstab has one name for each partition, a lookup finds nothing or
\* what it finds when all nodes are there.
LEMMA LookupOnce ==
    ASSUME RecordsFound, OneName, NodesComeAndGo, NEW p \in Path
    PROVE  get_fstab_rec(node, p) \in {0, get_fstab_rec(Node0, p)}
<1> SUFFICES ASSUME Matching(node, p) # {}
             PROVE  Matching(node, p) = Matching(Node0, p)
    BY DEF get_fstab_rec
<1>1. PICK j \in Asked : fstab_rec_matches(node, p, Recs[j])
    BY DEF Matching, Asked
<1>2. Node0[Link[p]] = Recs[j].rdev
    BY <1>1, MatchNames
<1>3. ASSUME NEW i \in Asked, fstab_rec_matches(Node0, p, Recs[i])
      PROVE  fstab_rec_matches(node, p, Recs[i])
    <2>1. Recs[i].rdev = Recs[j].rdev
        BY <1>2, <1>3, MatchNames0
    <2>2. Recs[i].blk = Recs[j].blk
        BY <2>1 DEF OneName
    <2> QED
        BY <1>1, <2>1, <2>2 DEF fstab_rec_matches
<1>4. ASSUME NEW i \in Asked, fstab_rec_matches(node, p, Recs[i])
      PROVE  fstab_rec_matches(Node0, p, Recs[i])
    <2>1. Node0[Link[p]] = Recs[i].rdev /\ Recs[i].rdev \in Dev
        BY <1>4, MatchNames DEF RecordsFound
    <2> QED
        BY <2>1, PathAssumption DEF fstab_rec_matches, st_rdev, stat, Obj
<1> QED
    BY <1>3, <1>4 DEF Matching, Asked

\* get_patharg does not change what a path leads to.
LEMMA PathargLeads ==
    ASSUME NEW n, NEW p \in Path, NEW real
    PROVE  /\ get_patharg(n, p, real) \in Path
           /\ Link[get_patharg(n, p, real)] = Link[p]
BY PathAssumption DEF get_patharg

-----------------------------------------------------------------------------
(***************************************************************************)
(* How a call in flight moves on                                           *)
(***************************************************************************)
\* The calls whose arguments are looked up.
Looked == PathCall \cup {"mount"}

\* The entry hook of a path call or of mount takes up call k.
TakenUp(k) ==
    \/ \E sc \in Syscalls, p \in Path, nofollow, stray \in BOOLEAN :
          LET resolve == resolve_symlinks(sc, nofollow, stray)
              path    == get_patharg(node, p, resolve)
          IN  /\ k.sc = sc /\ k.phase = "pre" /\ k.path = p
              /\ k.follow = KernelFollows(sc, nofollow)
              /\ k.to = Replacement(path, resolve, get_fstab_rec(node, path))
    \/ \E p \in Path, asec \in BOOLEAN :
          /\ k.sc = "mount" /\ k.phase = "pre" /\ k.path = p /\ k.follow
          /\ k.to = MountReplacement(get_patharg(node, p, TRUE), asec)

\* The kernel ends call k, which becomes l.
Answered(k, l) ==
    /\ k.phase = "pre" /\ l.phase = "post"
    /\ l.sc = k.sc /\ l.path = k.path /\ l.to = k.to /\ l.follow = k.follow
    /\ \/ l.hit = Null
       \/ k.sc \in Looked /\ l.hit = Target(k) /\ Target(k) # Absent

\* A call stays, is taken up, is answered by the kernel, or is none of those
\* whose arguments are looked up and has found nothing.
CallStep ==
    \A c \in Child :
        \/ call'[c] = call[c]
        \/ TakenUp(call'[c])
        \/ Answered(call[c], call'[c])
        \/ call'[c].sc \notin Looked /\ call'[c].phase # "post"

\* Only the call of c is written.
LEMMA OneCall ==
    ASSUME TypeOK, NEW c \in Child, NEW k, call' = [call EXCEPT ![c] = k],
           \/ TakenUp(k) \/ Answered(call[c], k)
           \/ k.sc \notin Looked /\ k.phase # "post"
    PROVE  CallStep
<1>1. call'[c] = k /\ \A d \in Child \ {c} : call'[d] = call[d]
    BY DEF TypeOK
<1> QED
    BY <1>1 DEF CallStep

\* The entry hooks.
LEMMA CallPre ==
    ASSUME TypeOK, NEW c \in Child, HookPre(c)
    PROVE  CallStep
<1>1. ASSUME NEW sc \in Syscalls, NEW p \in Path, NEW wr \in BOOLEAN,
             NEW nofollow \in BOOLEAN, NEW stray \in BOOLEAN,
             hook_fileaccess_pre(c, sc, p, wr, nofollow, stray)
      PROVE  CallStep
    <2> DEFINE resolve == resolve_symlinks(sc, nofollow, stray)
               path    == get_patharg(node, p, resolve)
               to      == Replacement(path, resolve, get_fstab_rec(node, path))
               k       == [Idle EXCEPT !.sc = sc, !.phase = "pre", !.path = p,
                                       !.wr = wr, !.to = to,
                                       !.follow = KernelFollows(sc, nofollow)]
    <2>1. call' = [call EXCEPT ![c] = k]
        BY <1>1 DEF hook_fileaccess_pre
    <2>2. /\ k.sc = sc /\ k.phase = "pre" /\ k.path = p
          /\ k.follow = KernelFollows(sc, nofollow) /\ k.to = to
        BY DEF Idle
    <2> HIDE DEF k
    <2>3. TakenUp(k)
        BY <2>2 DEF TakenUp
    <2> QED
        BY <2>1, <2>3, OneCall
<1>2. ASSUME NEW p \in Path, NEW asec \in BOOLEAN, hook_mount_pre(c, p, asec)
      PROVE  CallStep
    <2> DEFINE to == MountReplacement(get_patharg(node, p, TRUE), asec)
               k  == [Idle EXCEPT !.sc = "mount", !.phase = "pre",
                                  !.path = p, !.follow = TRUE, !.to = to]
    <2>1. call' = [call EXCEPT ![c] = k]
        BY <1>2 DEF hook_mount_pre
    <2>2. /\ k.sc = "mount" /\ k.phase = "pre" /\ k.path = p
          /\ k.follow /\ k.to = to
        BY DEF Idle
    <2> HIDE DEF k
    <2>3. TakenUp(k)
        BY <2>2 DEF TakenUp
    <2> QED
        BY <2>1, <2>3, OneCall
<1>3. ASSUME NEW fd \in Fd, hook_close_pre(c, fd)
      PROVE  CallStep
    <2> DEFINE k == [Idle EXCEPT !.sc = "close", !.phase = "pre", !.fd = fd]
    <2>1. call' = [call EXCEPT ![c] = k]
        BY <1>3 DEF hook_close_pre
    <2>2. k.sc \notin Looked /\ k.phase # "post"
        BY CallNames DEF Idle, Looked
    <2> HIDE DEF k
    <2> QED
        BY <2>1, <2>2, OneCall
<1>4. ASSUME NEW sc \in {"dup", "dup2"}, NEW fd \in Fd,
             NEW newfd \in Fd \cup {Null}, hook_dup_pre(c, sc, fd, newfd)
      PROVE  CallStep
    <2> DEFINE k == [Idle EXCEPT !.sc = sc, !.phase = "pre", !.fd = fd,
                                 !.newfd = newfd]
    <2>1. call' = [call EXCEPT ![c] = k]
        BY <1>4 DEF hook_dup_pre
    <2>2. k.sc \notin Looked /\ k.phase # "post"
        BY CallNames DEF Idle, Looked
    <2> HIDE DEF k
    <2> QED
        BY <2>1, <2>2, OneCall
<1>5. ASSUME Abort PROVE CallStep
    BY <1>5 DEF Abort, CallStep
<1> QED
    BY <1>1, <1>2, <1>3, <1>4, <1>5, HookPreCases, Zenon

\* A call that ends.
LEMMA CallIdle ==
    ASSUME TypeOK, NEW c \in Child, call' = [call EXCEPT ![c] = Idle]
    PROVE  CallStep
<1>1. Idle.sc \notin Looked /\ Idle.phase # "post"
    BY CallNames DEF Idle, Looked
<1> QED
    BY <1>1, OneCall

\* The kernel.
LEMMA CallKernel ==
    ASSUME TypeOK, NEW c \in Child, Kernel(c)
    PROVE  CallStep
<1>1. ASSUME NEW hit, NEW ret, Returns(c, hit, ret), call[c].phase = "pre",
             \/ hit = Null
             \/ /\ call[c].sc \in Looked
                /\ hit = Target(call[c]) /\ Target(call[c]) # Absent
      PROVE  CallStep
    <2> DEFINE k == [call[c] EXCEPT !.phase = "post", !.hit = hit, !.ret = ret]
    <2>1. call' = [call EXCEPT ![c] = k]
        BY <1>1 DEF Returns
    <2>2. call[c] \in Call
        BY CallTypes
    <2>3. /\ k.phase = "post" /\ k.hit = hit /\ k.sc = call[c].sc
          /\ k.path = call[c].path /\ k.to = call[c].to
          /\ k.follow = call[c].follow
        BY <2>2 DEF Call
    <2> HIDE DEF k
    <2>4. Answered(call[c], k)
        BY <1>1, <2>3 DEF Answered
    <2> QED
        BY <2>1, <2>4, OneCall
<1>2. CASE KernelOpen(c)
    BY <1>1, <1>2, CallNames DEF KernelOpen, InKernel, Looked
<1>3. CASE KernelPath(c)
    BY <1>1, <1>3 DEF KernelPath, InKernel, Looked
<1>4. CASE KernelError(c)
    BY <1>1, <1>4 DEF KernelError, InKernel
<1>5. CASE KernelClose(c)
    BY <1>5, CallIdle DEF KernelClose
<1>6. CASE KernelDup(c)
    BY <1>1, <1>6 DEF KernelDup, InKernel
<1>7. CASE KernelDupError(c)
    BY <1>1, <1>7 DEF KernelDupError, InKernel
<1>8. CASE KernelMount(c)
    BY <1>1, <1>8 DEF KernelMount, InKernel, Looked
<1> QED
    BY <1>2, <1>3, <1>4, <1>5, <1>6, <1>7, <1>8 DEF Kernel

\* Every step moves the calls on in this way.
LEMMA NextCall ==
    ASSUME TypeOK, [Next]_vars
    PROVE  CallStep
<1>1. ASSUME UNCHANGED call PROVE CallStep
    BY <1>1 DEF CallStep
<1>2. ASSUME NEW c \in Child, HookPre(c) \/ Kernel(c) PROVE CallStep
    BY <1>2, CallPre, CallKernel
<1>3. ASSUME NEW c \in Child, HookPost(c) PROVE CallStep
    BY <1>1, <1>3, CallIdle
    DEF HookPost, hook_fileaccess_post, hook_fileaccess_crash, hook_dup_post,
        hook_dup_crash, hook_mount_post, Crash
<1>4. ASSUME NEW c \in Child, NEW d \in Child,
             ChildCreate(c, d) \/ ChildDestroy(c)
      PROVE  CallStep
    BY <1>4, CallIdle DEF ChildCreate, ChildDestroy
<1>5. CASE Environment \/ UNCHANGED vars
    BY <1>1, <1>5 DEF Environment, Mkfs, WriteFile, Umount, Tick, SetBack,
                      Replug, vars
<1> QED
    BY <1>2, <1>3, <1>4, <1>5 DEF Next

-----------------------------------------------------------------------------
(***************************************************************************)
(* Plain files are left alone                                              *)
(***************************************************************************)
\* Only a path that leads to a recorded partition is redirected.
OnlyPartitions ==
    \A c \in Child :
        call[c].sc \in PathCall /\ call[c].to # Null =>
            \E i \in Asked : Node0[Link[call[c].path]] = Recs[i].rdev

\* What get_fstab_rec finds is a record of the partition.
LEMMA FoundNames ==
    ASSUME RecordsFound, NodesComeAndGo, NEW p \in Path,
           get_fstab_rec(node, p) # 0
    PROVE  /\ get_fstab_rec(node, p) \in Asked
           /\ Node0[Link[p]] = Recs[get_fstab_rec(node, p)].rdev
<1>1. get_fstab_rec(node, p) \in Matching(node, p)
    BY LookupResult
<1>2. /\ get_fstab_rec(node, p) \in Asked
      /\ fstab_rec_matches(node, p, Recs[get_fstab_rec(node, p)])
    BY <1>1 DEF Matching, Asked
<1> QED
    BY <1>2, MatchNames

\* One step redirects partitions only.
LEMMA OnlyPartitionsNext ==
    ASSUME RecordsFound, HookInv, NodesComeAndGo, OnlyPartitions, [Next]_vars
    PROVE  OnlyPartitions'
<1> SUFFICES ASSUME NEW c \in Child, call'[c].sc \in PathCall,
                    call'[c].to # Null
             PROVE  \E i \in Asked : Node0[Link[call'[c].path]] = Recs[i].rdev
    BY DEF OnlyPartitions
<1>1. CASE TakenUp(call'[c])
    <2>1. call'[c].sc # "mount"
        BY CallNames
    <2>2. PICK sc \in Syscalls, p \in Path, nofollow \in BOOLEAN,
               stray \in BOOLEAN :
            LET resolve == resolve_symlinks(sc, nofollow, stray)
                path    == get_patharg(node, p, resolve)
            IN  /\ call'[c].path = p
                /\ call'[c].to = Replacement(path, resolve,
                                             get_fstab_rec(node, path))
        BY <1>1, <2>1 DEF TakenUp
    <2> DEFINE path == get_patharg(node, p, resolve_symlinks(sc, nofollow, stray))
    <2>3. path \in Path /\ Link[path] = Link[p]
        BY PathargLeads
    <2>4. get_fstab_rec(node, path) # 0
        BY <2>2 DEF Replacement
    <2> HIDE DEF path
    <2> QED
        BY <2>2, <2>3, <2>4, FoundNames
<1>2. CASE Answered(call[c], call'[c])
    BY <1>2 DEF Answered, OnlyPartitions
<1>3. CASE call'[c] = call[c]
    BY <1>3 DEF OnlyPartitions
<1>4. CallStep
    BY NextCall DEF HookInv
<1> QED
    BY <1>1, <1>2, <1>3, <1>4 DEF CallStep, Looked

PlainInv == HookInv /\ NodesComeAndGo /\ OnlyPartitions

\* Partitions are devices, so a plain file is none.
LEMMA PlainImplies ==
    ASSUME RecordsFound
    PROVE  PlainInv => PlainFilesKept
<1> SUFFICES ASSUME PlainInv, NEW c \in Child, call[c].sc \in PathCall,
                    stat(node, call[c].path) \in Plain, call[c].to # Null
             PROVE  FALSE
    BY DEF PlainFilesKept
<1>1. call[c].path \in Path
    BY DEF PlainInv, HookInv, CallHasArguments
<1>2. PICK i \in Asked : Node0[Link[call[c].path]] = Recs[i].rdev
    BY DEF PlainInv, OnlyPartitions
<1>3. Link[call[c].path] \in Path
    BY <1>1, PathAssumption
<1>4. node[Link[call[c].path]] \in {Recs[i].rdev, Absent}
    BY <1>2, <1>3 DEF PlainInv, NodesComeAndGo
<1> QED
    BY <1>4, PathAssumption DEF RecordsFound, stat, Obj

\* The lookup starts with every node in place and no call.
LEMMA LookupInit == Init => HookInv /\ NodesComeAndGo /\ OnlyPartitions
<1>1. Init => HookInv
    BY InitType, ScratchInit DEF HookInv
<1>2. Init => NodesComeAndGo /\ OnlyPartitions
    BY DEF Init, NodesComeAndGo, OnlyPartitions, Idle
<1> QED
    BY <1>1, <1>2

\* One step keeps the invariant of the hooks and the nodes.
LEMMA LookupNext ==
    HookInv /\ NodesComeAndGo /\ [Next]_vars => HookInv' /\ NodesComeAndGo'
BY TypeNext, ScratchNext, NodesNext DEF HookInv

\* If the partitions of the fstab existed at boot, no system call on a
\* regular file or a directory is ever redirected, whatever node goes, by a
\* name that means the same to the tracer.
THEOREM PlainFilesNeverRedirected ==
    ASSUME RecordsFound
    PROVE  Spec => []PlainFilesKept
<1>1. Init => PlainInv
    BY LookupInit DEF PlainInv
<1>2. PlainInv /\ [Next]_vars => PlainInv'
    BY LookupNext, OnlyPartitionsNext DEF PlainInv
<1>3. PlainInv => PlainFilesKept
    BY PlainImplies
<1> QED
    BY <1>1, <1>2, <1>3, PTL DEF Spec

-----------------------------------------------------------------------------
(***************************************************************************)
(* The replaced partitions are out of reach                                *)
(***************************************************************************)
\* Call k cannot find a protected device: its argument is replaced by another
\* object, or names none, or leads through a link that the kernel refuses.
Spared(k) ==
    IF k.to # Null THEN k.to \notin Protected
    ELSE \/ k.path \notin PlainName
         \/ ~k.follow /\ IsLink(k.path)
         \/ Node0[Link[k.path]] \notin Protected

\* No call in flight aims at a protected device.
Aimed == \A c \in Child : call[c].sc \in Looked => Spared(call[c])

IsolationInv == HookInv /\ NodesComeAndGo /\ Aimed /\ Isolation

\* A protected device is the partition of a record.
LEMMA ProtectedRec ==
    ASSUME RecordsFound, NEW o \in Protected
    PROVE  /\ \E i \in Asked : o = Recs[i].rdev
           /\ o \in Dev /\ o # Null /\ o # Absent
<1>1. PICK i \in Asked : o = Recs[i].rdev
    BY DEF Protected, Asked
<1>2. o \in Dev
    BY <1>1 DEF RecordsFound
<1> QED
    BY <1>1, <1>2, PathAssumption DEF Obj

\* A call is spared when its hook has run.
LEMMA TakenUpSpared ==
    ASSUME RecordsFound, NodesNamed, CallsAgree, ReplacementsFree,
           NodesComeAndGo, NEW k, TakenUp(k)
    PROVE  Spared(k)
<1>1. ASSUME NEW p \in Path, NEW path \in Path, Link[path] = Link[p],
             get_fstab_rec(node, path) = 0
      PROVE  Node0[Link[p]] \notin Protected
    <2> SUFFICES ASSUME NEW i \in Asked PROVE Node0[Link[p]] # Recs[i].rdev
        BY ProtectedRec
    <2> QED
        BY <1>1, NotFound DEF NodesNamed
<1>2. ASSUME NEW path \in Path, get_fstab_rec(node, path) # 0
      PROVE  /\ Recs[get_fstab_rec(node, path)].stub \notin Protected
             /\ Recs[get_fstab_rec(node, path)].repl \notin Protected
    BY <1>2, FoundNames DEF ReplacementsFree
<1>3. CASE k.sc # "mount"
    <2>1. PICK sc \in Syscalls, p \in Path, nofollow \in BOOLEAN,
               stray \in BOOLEAN :
            LET resolve == resolve_symlinks(sc, nofollow, stray)
                path    == get_patharg(node, p, resolve)
            IN  /\ k.path = p
                /\ k.follow = KernelFollows(sc, nofollow)
                /\ k.to = Replacement(path, resolve, get_fstab_rec(node, path))
        BY <1>3, TakenUp(k) DEF TakenUp
    <2> DEFINE resolve == resolve_symlinks(sc, nofollow, stray)
               path    == get_patharg(node, p, resolve)
               r       == get_fstab_rec(node, path)
    <2>2. path \in Path /\ Link[path] = Link[p]
        BY PathargLeads
    <2>3. resolve = k.follow
        BY <2>1 DEF CallsAgree
    <2>4. ~resolve => path = p
        BY DEF get_patharg
    <2>5. k.path = p /\ k.to = Replacement(path, resolve, r)
        BY <2>1
    <2> HIDE DEF resolve, path
    <2>6. CASE k.to # Null
        <3>1. r # 0 /\ k.to \in {Recs[r].stub, Recs[r].repl}
            BY <2>5, <2>6 DEF Replacement
        <3> QED
            BY <1>2, <2>2, <2>6, <3>1 DEF Spared
    <2>7. CASE k.to = Null /\ r = 0
        BY <1>1, <2>2, <2>5, <2>7 DEF Spared
    <2>8. CASE k.to = Null /\ r # 0
        <3>1. r \in RecId
            BY <2>8, LookupResult
        <3>2. (Recs[r].bind => Recs[r].stub # Null) /\ Recs[r].repl # Null
            BY <3>1, RecTypes, PathAssumption
        <3>3. ~resolve /\ IsLink(path)
            BY <2>5, <2>8, <3>2 DEF Replacement
        <3> QED
            BY <2>3, <2>4, <2>5, <2>8, <3>3 DEF Spared
    <2> QED
        BY <2>6, <2>7, <2>8
<1>4. CASE k.sc = "mount"
    <2>1. k.sc \notin Syscalls
        BY <1>4, CallNames, FsrAssumption
    <2>2. PICK p \in Path, asec \in BOOLEAN :
            /\ k.path = p /\ k.follow
            /\ k.to = MountReplacement(get_patharg(node, p, TRUE), asec)
        BY <2>1, TakenUp(k) DEF TakenUp
    <2> DEFINE path == get_patharg(node, p, TRUE)
    <2>3. path \in Path /\ Link[path] = Link[p]
        BY PathargLeads
    <2> HIDE DEF path
    <2>4. CASE asec
        <3>1. k.to = AsecDir /\ AsecDir \in Plain
            BY <2>2, <2>4, FsrAssumption DEF MountReplacement
        <3>2. AsecDir # Null /\ AsecDir \notin Dev
            BY <3>1, PathAssumption DEF Obj
        <3> QED
            BY <3>1, <3>2, ProtectedRec DEF Spared
    <2>5. CASE ~asec /\ get_fstab_rec(node, path) = 0
        <3>1. k.to = Null
            BY <2>2, <2>5 DEF MountReplacement, path
        <3> QED
            BY <1>1, <2>2, <2>3, <2>5, <3>1 DEF Spared
    <2>6. CASE ~asec /\ get_fstab_rec(node, path) # 0
        <3> DEFINE r == get_fstab_rec(node, path)
        <3>1. k.to = Recs[r].repl
            BY <2>2, <2>6 DEF MountReplacement, path
        <3>2. r \in RecId
            BY <2>6, LookupResult
        <3>3. Recs[r].repl # Null
            BY <3>2, RecTypes, PathAssumption
        <3> QED
            BY <1>2, <2>3, <2>6, <3>1, <3>3 DEF Spared
    <2> QED
        BY <2>4, <2>5, <2>6
<1> QED
    BY <1>3, <1>4

\* The kernel finds no protected device for a call that is spared.
LEMMA SparedTarget ==
    ASSUME RecordsFound, NodesComeAndGo, NEW k, k.path \in PlainName, Spared(k)
    PROVE  Target(k) \notin Protected
<1> SUFFICES ASSUME Target(k) \in Protected PROVE FALSE
    OBVIOUS
<1>1. Target(k) \in Dev /\ Target(k) # Absent
    BY ProtectedRec
<1>2. k.to = Null
    BY DEF Target, Spared
<1>3. Target(k) = node[Link[k.path]]
    BY <1>1, <1>2 DEF Target, stat, IsLink, PlainName
<1>4. Link[k.path] \in Path
    BY PathAssumption DEF PlainName
<1>5. Target(k) = Node0[Link[k.path]]
    BY <1>1, <1>3, <1>4 DEF NodesComeAndGo
<1> QED
    BY <1>1, <1>2, <1>3, <1>5 DEF Spared, Target, PlainName

\* One step keeps the calls away from the protected devices.
LEMMA IsolationNext ==
    ASSUME RecordsFound, NodesNamed, CallsAgree, ReplacementsFree
    PROVE  IsolationInv /\ [Next]_vars => IsolationInv'
<1> SUFFICES ASSUME IsolationInv, [Next]_vars PROVE IsolationInv'
    OBVIOUS
<1>1. HookInv' /\ NodesComeAndGo'
    BY LookupNext DEF IsolationInv
<1>2. CallStep
    BY NextCall DEF IsolationInv, HookInv
<1>3. ASSUME NEW c \in Child
      PROVE  /\ call'[c].sc \in Looked => Spared(call'[c])
             /\ call'[c].phase = "post" /\ call'[c].path \in PlainName
                    => call'[c].hit \notin Protected
    <2>1. CASE call'[c] = call[c]
        BY <2>1 DEF IsolationInv, Aimed, Isolation
    <2>2. CASE TakenUp(call'[c])
        <3>1. Spared(call'[c])
            BY <2>2, TakenUpSpared DEF IsolationInv
        <3>2. call'[c].phase = "pre"
            BY <2>2 DEF TakenUp
        <3> QED
            BY <3>1, <3>2
    <2>3. CASE Answered(call[c], call'[c])
        <3>1. call'[c].sc \in Looked => Spared(call'[c])
            BY <2>3 DEF Answered, IsolationInv, Aimed, Spared
        <3>2. call[c].sc \in Looked /\ call[c].path \in PlainName
                => Target(call[c]) \notin Protected
            BY SparedTarget DEF IsolationInv, Aimed
        <3>3. Null \notin Protected
            BY ProtectedRec
        <3> QED
            BY <2>3, <3>1, <3>2, <3>3 DEF Answered
    <2>4. CASE call'[c].sc \notin Looked /\ call'[c].phase # "post"
        BY <2>4
    <2> QED
        BY <1>2, <2>1, <2>2, <2>3, <2>4 DEF CallStep
<1>4. Aimed' /\ Isolation'
    BY <1>3 DEF Aimed, Isolation, Spared
<1> QED
    BY <1>1, <1>4 DEF IsolationInv

\* No system call of a traced process finds a partition that has a
\* replacement, by name, by another node or by a link, while nodes come and
\* go: for every fstab whose partitions were found, as long as the guest
\* restricts itself to calls whose flags the hook reads as the kernel does, and
\* for the names that mean the same to the tracer as to the process
\* (PlainName).  Others reach it: a name relative to the directory of a chdir,
\* a call with a dirfd, a process in another root.
THEOREM PartitionsAreIsolated ==
    ASSUME RecordsFound, NodesNamed, CallsAgree, ReplacementsFree
    PROVE  Spec => []Isolation
<1>1. Init => IsolationInv
    <2>1. Init => Aimed /\ Isolation
        BY CallNames DEF Init, Aimed, Isolation, Idle, Looked
    <2> QED
        BY <2>1, LookupInit DEF IsolationInv
<1>2. IsolationInv /\ [Next]_vars => IsolationInv'
    BY IsolationNext
<1>3. IsolationInv => Isolation
    BY DEF IsolationInv
<1> QED
    BY <1>1, <1>2, <1>3, PTL DEF Spec

-----------------------------------------------------------------------------
(***************************************************************************)
(* A name is found again                                                   *)
(***************************************************************************)
\* The stored name stays, goes, is that of a file whose record has a stub
\* device, or that of a descriptor in the list.
TmpStep ==
    \A c \in Child :
        \/ tmp'[c] \in {tmp[c], Null}
        \/ tmp'[c] \in Path /\ get_fstab_rec(node, tmp'[c]) \in BindRec
        \/ \E fd \in Fd : Tracked(c, fd) /\ tmp'[c] = ll_find(c, fd).filename

\* The entry hook of open stores a name that it has found.
LEMMA TmpOpen ==
    ASSUME TypeOK,
           NEW c \in Child, NEW sc \in Syscalls, NEW p \in Path,
           NEW wr \in BOOLEAN, NEW nofollow \in BOOLEAN, NEW stray \in BOOLEAN,
           hook_fileaccess_pre(c, sc, p, wr, nofollow, stray)
    PROVE  TmpStep
<1> DEFINE path == get_patharg(node, p, resolve_symlinks(sc, nofollow, stray))
           r == get_fstab_rec(node, path)
           w == Watch(sc, wr, r)
<1>1. tmp' = [tmp EXCEPT ![c] = IF w # 0 THEN path ELSE @]
    BY DEF hook_fileaccess_pre
<1>2. path \in Path
    BY PathargType
<1>3. w # 0 => r \in BindRec
    <2>1. r \in {0} \cup RecId
        BY LookupResult
    <2>2. w # 0 => w \in BindRec
        BY <2>1, WatchType
    <2> QED
        BY <2>2 DEF Watch
<1> HIDE DEF path, w
<1>4. tmp'[c] = IF w # 0 THEN path ELSE tmp[c]
    BY <1>1 DEF TypeOK
<1>5. \A d \in Child \ {c} : tmp'[d] = tmp[d]
    BY <1>1 DEF TypeOK
<1> QED
    BY <1>2, <1>3, <1>4, <1>5 DEF TmpStep

\* Every step treats the stored names in this way.
LEMMA NextTmp ==
    ASSUME TypeOK, [Next]_vars
    PROVE  TmpStep
<1>1. ASSUME UNCHANGED tmp PROVE TmpStep
    BY <1>1 DEF TmpStep
<1>2. ASSUME NEW c \in Child, tmp' = [tmp EXCEPT ![c] = Null] PROVE TmpStep
    BY <1>2 DEF TmpStep, TypeOK
<1>3. ASSUME NEW c \in Child, HookPre(c) PROVE TmpStep
    <2>1. ASSUME NEW sc \in Syscalls, NEW p \in Path, NEW wr \in BOOLEAN,
                 NEW nofollow \in BOOLEAN, NEW stray \in BOOLEAN,
                 hook_fileaccess_pre(c, sc, p, wr, nofollow, stray)
          PROVE  TmpStep
        BY <2>1, TmpOpen
    <2>2. ASSUME NEW fd \in Fd, hook_close_pre(c, fd)
          PROVE  TmpStep
        BY <1>1, <2>2 DEF hook_close_pre
    <2>3. ASSUME NEW sc \in {"dup", "dup2"}, NEW fd \in Fd,
                 NEW newfd \in Fd \cup {Null}, hook_dup_pre(c, sc, fd, newfd)
          PROVE  TmpStep
        <3>1. tmp'[c] = IF Tracked(c, fd) THEN ll_find(c, fd).filename
                        ELSE tmp[c]
            BY <2>3 DEF hook_dup_pre, TypeOK
        <3>2. \A d \in Child \ {c} : tmp'[d] = tmp[d]
            BY <2>3 DEF hook_dup_pre, TypeOK
        <3> QED
            BY <3>1, <3>2 DEF TmpStep
    <2>4. ASSUME NEW p \in Path, NEW asec \in BOOLEAN,
                 hook_mount_pre(c, p, asec)
          PROVE  TmpStep
        BY <1>1, <2>4 DEF hook_mount_pre
    <2>5. Abort => TmpStep
        BY <1>1 DEF Abort, mbc
    <2> QED
        BY <1>3, <2>1, <2>2, <2>3, <2>4, <2>5, HookPreCases, Zenon
<1>4. ASSUME NEW c \in Child, Kernel(c) PROVE UNCHANGED tmp
    BY <1>4
    DEF Kernel, KernelOpen, KernelPath, KernelError, KernelClose, KernelDup,
        KernelDupError, KernelMount, mbc
<1>5. ASSUME NEW c \in Child, HookPost(c) PROVE TmpStep
    <2>1. CASE hook_fileaccess_post(c)
        <3>1. tmp' = tmp \/ tmp' = [tmp EXCEPT ![c] = Null]
            BY <2>1 DEF hook_fileaccess_post, DropTmp
        <3> QED
            BY <1>1, <1>2, <3>1
    <2>2. CASE hook_dup_post(c)
        BY <1>2, <2>2 DEF hook_dup_post
    <2>3. CASE hook_mount_post(c) \/ Crash
        BY <1>1, <2>3 DEF hook_mount_post, Crash, mbc
    <2> QED
        BY <1>5, <2>1, <2>2, <2>3
        DEF HookPost, hook_fileaccess_crash, hook_dup_crash
<1>6. ASSUME NEW c \in Child, NEW d \in Child,
             ChildCreate(c, d) \/ ChildDestroy(c)
      PROVE  TmpStep
    BY <1>2, <1>6 DEF ChildCreate, ChildDestroy
<1>7. CASE Environment \/ UNCHANGED vars
    BY <1>1, <1>7 DEF Environment, Mkfs, WriteFile, Umount, Tick, SetBack,
                      Replug, vars, mbc
<1> QED
    BY <1>1, <1>3, <1>4, <1>5, <1>6, <1>7 DEF Next

\* A name that the lookup finds when all nodes are there, with a stub device.
Kept(name) == get_fstab_rec(Node0, name) \in BindRec

\* Every name that a hook has put aside, for its exit or in a list, is such.
NamesKept ==
    /\ \A c \in Child : tmp[c] # Null => Kept(tmp[c])
    /\ \A c \in Child, f \in Fd :
          \A k \in 1..Len(files[c][f]) : Kept(files[c][f][k].filename)

\* The first entry of a list that is not empty is one of its entries.
LEMMA HeadEntry ==
    ASSUME TypeOK, NEW c \in Child, NEW f \in Fd, Tracked(c, f)
    PROVE  /\ 1 \in 1..Len(files[c][f])
           /\ ll_find(c, f) = files[c][f][1]
           /\ ll_find(c, f) \in FdInfo
<1>1. files[c][f] \in Seq(FdInfo) /\ files[c][f] # <<>>
    BY DEF TypeOK, Tracked
<1> QED
    BY <1>1 DEF ll_find

\* A kept name makes an entry without a crash.
LEMMA KeptSafe ==
    ASSUME RecordsFound, NodesNamed, NodesComeAndGo, NEW name \in Path,
           Kept(name)
    PROVE  make_fdinfo_safe(name)
<1>1. get_fstab_rec(node, name) \in BindRec
    BY LookupSteady DEF Kept
<1>2. /\ get_fstab_rec(node, name) \in RecId
      /\ Recs[get_fstab_rec(node, name)].bind
    BY <1>1 DEF BindRec
<1>3. 0 \notin RecId
    BY DEF RecId
<1> QED
    BY <1>2, <1>3, RecTypes DEF make_fdinfo_safe

\* A lookup finds nothing or what it finds when all nodes are there.
LookupsAgree ==
    \A p \in Path : get_fstab_rec(node, p) \in {0, get_fstab_rec(Node0, p)}

\* One step keeps names of records with a stub device.
LEMMA NamesNext ==
    ASSUME LookupsAgree, TypeOK, NamesKept, [Next]_vars
    PROVE  NamesKept'
<1>1. TmpStep /\ ListStep
    BY NextTmp, NextFiles
<1>2. ASSUME NEW c \in Child, tmp'[c] # Null PROVE Kept(tmp'[c])
    <2>1. CASE tmp'[c] = tmp[c]
        BY <1>2, <2>1 DEF NamesKept
    <2>2. CASE tmp'[c] \in Path /\ get_fstab_rec(node, tmp'[c]) \in BindRec
        <3>1. get_fstab_rec(node, tmp'[c]) # 0
            BY <2>2 DEF BindRec, RecId
        <3> QED
            BY <2>2, <3>1 DEF Kept, LookupsAgree
    <2>3. CASE \E fd \in Fd : Tracked(c, fd)
                              /\ tmp'[c] = ll_find(c, fd).filename
        BY <2>3, HeadEntry DEF NamesKept
    <2> QED
        BY <1>1, <1>2, <2>1, <2>2, <2>3 DEF TmpStep
<1>3. ASSUME NEW c \in Child, NEW f \in Fd, NEW k \in 1..Len(files'[c][f])
      PROVE  Kept(files'[c][f][k].filename)
    <2>1. CASE \E j \in 1..Len(files[c][f]) : files'[c][f][k] = files[c][f][j]
        BY <2>1 DEF NamesKept
    <2>2. CASE tmp[c] \in Path /\ files'[c][f][k] = make_fdinfo(tmp[c])
        <3>1. files'[c][f][k].filename = tmp[c] /\ tmp[c] # Null
            BY <2>2, PathAssumption DEF make_fdinfo
        <3> QED
            BY <3>1 DEF NamesKept
    <2> QED
        BY <1>1, <2>1, <2>2 DEF ListStep
<1> QED
    BY <1>2, <1>3 DEF NamesKept, Kept

\* No name is kept when the tracer starts.
LEMMA NamesInit == Init => NamesKept
<1> SUFFICES ASSUME Init PROVE NamesKept
    OBVIOUS
<1>1. \A c \in Child, f \in Fd : 1..Len(files[c][f]) = {}
    BY DEF Init, NoFiles
<1> QED
    BY <1>1 DEF Init, NamesKept

NoCrashInv == HookInv /\ NodesComeAndGo /\ NamesKept /\ NoCrash

\* One step does not crash the tracer.
LEMMA NoCrashNext ==
    ASSUME RecordsFound, NodesNamed
    PROVE  NoCrashInv /\ [Next]_vars => NoCrashInv'
<1> SUFFICES ASSUME NoCrashInv, [Next]_vars PROVE NoCrashInv'
    OBVIOUS
<1>1. HookInv' /\ NodesComeAndGo'
    BY LookupNext DEF NoCrashInv
<1>2. NamesKept'
    BY LookupSteady, NamesNext DEF NoCrashInv, HookInv, LookupsAgree
<1>3. ASSUME NEW c \in Child, tmp[c] # Null PROVE make_fdinfo_safe(tmp[c])
    <2>1. tmp[c] \in Path
        BY <1>3 DEF NoCrashInv, HookInv, TypeOK
    <2> QED
        BY <1>3, <2>1, KeptSafe DEF NoCrashInv, NamesKept
<1>4. ASSUME NEW c \in Child PROVE ~hook_fileaccess_crash(c) /\ ~hook_dup_crash(c)
    BY <1>3 DEF hook_fileaccess_crash, hook_dup_crash, Registers
<1>5. NoCrash'
    <2>1. ASSUME NEW c \in Child, HookPre(c) PROVE tracer' \in {tracer, "aborted"}
        <3>1. ASSUME NEW sc \in Syscalls, NEW p \in Path, NEW wr \in BOOLEAN,
                     NEW nofollow \in BOOLEAN, NEW stray \in BOOLEAN,
                     hook_fileaccess_pre(c, sc, p, wr, nofollow, stray)
              PROVE  tracer' = tracer
            BY <3>1 DEF hook_fileaccess_pre
        <3>2. ASSUME NEW fd \in Fd, hook_close_pre(c, fd)
              PROVE  tracer' = tracer
            BY <3>2 DEF hook_close_pre
        <3>3. ASSUME NEW sc \in {"dup", "dup2"}, NEW fd \in Fd,
                     NEW newfd \in Fd \cup {Null}, hook_dup_pre(c, sc, fd, newfd)
              PROVE  tracer' = tracer
            BY <3>3 DEF hook_dup_pre
        <3>4. ASSUME NEW p \in Path, NEW asec \in BOOLEAN,
                     hook_mount_pre(c, p, asec)
              PROVE  tracer' = tracer
            BY <3>4 DEF hook_mount_pre
        <3>5. Abort => tracer' = "aborted"
            BY DEF Abort
        <3> QED
            BY <2>1, <3>1, <3>2, <3>3, <3>4, <3>5, HookPreCases, Zenon
    <2>2. ASSUME NEW c \in Child, Kernel(c) PROVE tracer' = tracer
        BY <2>2
        DEF Kernel, KernelOpen, KernelPath, KernelError, KernelClose, KernelDup,
            KernelDupError, KernelMount
    <2>3. ASSUME NEW c \in Child, HookPost(c) PROVE tracer' = tracer
        BY <1>4, <2>3
        DEF HookPost, hook_fileaccess_post, hook_dup_post, hook_mount_post
    <2>4. ASSUME NEW c \in Child, NEW d \in Child,
                 ChildCreate(c, d) \/ ChildDestroy(c)
          PROVE  tracer' = tracer
        BY <2>4 DEF ChildCreate, ChildDestroy
    <2>5. ASSUME Environment \/ UNCHANGED vars
          PROVE  tracer' = tracer
        BY <2>5 DEF Environment, Mkfs, WriteFile, Umount, Tick, SetBack,
                    Replug, vars
    <2>6. tracer' = tracer \/ tracer' = "aborted"
        BY <2>1, <2>2, <2>3, <2>4, <2>5 DEF Next
    <2> QED
        BY <2>6 DEF NoCrashInv, NoCrash
<1> QED
    BY <1>1, <1>2, <1>5 DEF NoCrashInv

\* make_fdinfo looks a name up again after the kernel has run, at the exit of
\* open and dup, and dereferences what it gets.  If the partitions of the fstab
\* were found and the node that vanishes is the one the record is called by, the
\* second lookup always has a result with a stub device.
THEOREM TracerNeverCrashes ==
    ASSUME RecordsFound, NodesNamed
    PROVE  Spec => []NoCrash
<1>1. Init => NoCrashInv
    <2>1. Init => NoCrash
        BY DEF Init, NoCrash
    <2> QED
        BY <2>1, NamesInit, LookupInit DEF NoCrashInv
<1>2. NoCrashInv /\ [Next]_vars => NoCrashInv'
    BY NoCrashNext
<1>3. NoCrashInv => NoCrash
    BY DEF NoCrashInv
<1> QED
    BY <1>1, <1>2, <1>3, PTL DEF Spec
=============================================================================
