---------------------------- MODULE RecordsProofs ----------------------------
(***************************************************************************)
(* Theorems about Records, for all values of its constants: the records    *)
(* name the partitions that the tables name, and fit what the hooks assume *)
(* of them, in whatever order sysfs is read; the tables that patch_fstab   *)
(* has written keep the source partition writable and mount what the guest *)
(* asks for.                                                               *)
(***************************************************************************)
EXTENDS Records, TLAPS, SequenceTheorems, FiniteSetTheorems,
        WellFoundedInduction

(***************************************************************************)
(* The lookup                                                              *)
(***************************************************************************)
\* A set of indices that is not empty has a least element, so that the search
\* of get_blockinfo_for_path has a result.
LEMMA LeastIndex ==
    ASSUME NEW S, S \subseteq Nat, S # {}
    PROVE  \E i \in S : \A j \in S : i <= j
<1>1. PICK i \in S : \A j \in S : ~ (<<j, i>> \in OpToRel(<, Nat))
    BY NatLessThanWellFounded, WFMin, Zenon
<1>2. \A j \in S : ~ (j < i)
    BY <1>1 DEF OpToRel
<1> QED
    BY <1>2

\* get_blockinfo_for_path gives NULL where no event answers, or one that does.
LEMMA FoundAnswers ==
    ASSUME NEW evs, NEW path, NEW junk
    PROVE  \/ /\ get_blockinfo_for_path(evs, path, junk) = 0
              /\ Answering(evs, path, junk) = {}
           \/ get_blockinfo_for_path(evs, path, junk)
                  \in Answering(evs, path, junk)
<1> DEFINE S == Answering(evs, path, junk)
<1>1. CASE S = {}
    BY <1>1 DEF get_blockinfo_for_path
<1>2. CASE S # {}
    <2>1. S \subseteq Nat
        BY DEF Answering
    <2>2. \E i \in S : \A j \in S : i <= j
        BY <1>2, <2>1, LeastIndex
    <2> QED
        BY <1>2, <2>2 DEF get_blockinfo_for_path
<1> QED
    BY <1>1, <1>2

\* What get_block_devices has read are entries of devices.
Entries ==
    /\ Len(info) \in Nat
    /\ \A i \in 1..Len(info) :
          \E d \in SysBlock : info[i] = add_uevent_entry(d)

\* Where the lookups tell, the event found for a path is that of the device
\* which the path names, whatever the order of the events.
LEMMA NamedFound ==
    ASSUME Entries, LookupsTell, NEW path, NEW d \in Named(path),
           NEW junk, junk \in Junk \/ path.kind = "mmc"
    PROVE  LET i == get_blockinfo_for_path(info, path, junk)
           IN  i # 0 /\ info[i] = add_uevent_entry(d)
<1> DEFINE i == get_blockinfo_for_path(info, path, junk)
<1>1. PICK k \in 1..Len(info) : info[k].rdev = d.rdev /\ d \in SysBlock
    BY DEF Named, Known
<1>2. PICK e \in SysBlock : info[k] = add_uevent_entry(e)
    BY <1>1 DEF Entries
<1>3. e.rdev = d.rdev
    BY <1>1, <1>2 DEF add_uevent_entry
<1>4. e = d
    BY <1>1, <1>2, <1>3, SysBlockAssumption
<1>5. d.devname.kind = "mmc" /\ d.devname = MmcPath(d.devname.part)
    BY <1>1, SysBlockAssumption DEF Named, LookupsTell, MmcPath
<1>6. /\ info[k].part = d.devname.part
      /\ info[k].partname = d.partname
    BY <1>2, <1>4, <1>5 DEF add_uevent_entry
<1>7. k \in Answering(info, path, junk)
    <2>1. CASE path.kind = "byname"
        BY <2>1, <1>1, <1>6, <1>5 DEF Named, Answering, Answers, MmcPath
    <2>2. CASE path.kind = "mmc"
        <3>1. d.devname = path
            BY <2>2 DEF Named
        <3> QED
            BY <2>2, <3>1, <1>6 DEF Answering, Answers
    <2> QED
        BY <2>1, <2>2 DEF Named
<1>8. i \in Answering(info, path, junk)
    BY <1>7, FoundAnswers
<1>9. i \in 1..Len(info) /\ Answers(info[i], path, junk)
    BY <1>8 DEF Answering
<1>10. PICK f \in SysBlock : info[i] = add_uevent_entry(f)
    BY <1>9 DEF Entries
<1>11. f = d
    <2>1. CASE path.kind = "byname"
        <3>1. junk \in Junk
            BY <2>1
        <3>2. info[i].part # junk
            BY <3>1, <1>10 DEF LookupsTell
        <3>3. f.partname # Null /\ f.partname = path.name
            BY <2>1, <1>9, <1>10, <3>2 DEF Answers, add_uevent_entry
        <3>4. d.partname = path.name
            BY <2>1, <1>5 DEF Named
        <3> QED
            BY <1>1, <3>3, <3>4 DEF LookupsTell
    <2>2. CASE path.kind = "mmc"
        <3>1. d.devname = path
            BY <2>2 DEF Named
        <3>2. info[i].part = path.part
            BY <2>2, <1>9 DEF Answers
        <3>3. CASE f.devname.kind = "mmc"
            <4>1. f.devname = d.devname
                BY <3>1, <3>2, <3>3, <1>10, <1>5, SysBlockAssumption
                   DEF add_uevent_entry
            <4> QED
                BY <4>1, <1>1, SysBlockAssumption
        <3>4. CASE f.devname.kind # "mmc"
            <4>1. d.devname.part = <<0, f.partn>>
                BY <3>1, <3>2, <3>4, <1>10 DEF add_uevent_entry
            <4> QED
                BY <4>1, <3>4, <1>5, <1>1 DEF LookupsTell
        <3> QED
            BY <3>3, <3>4
    <2> QED
        BY <2>1, <2>2 DEF Named
<1> QED
    BY <1>9, <1>10, <1>11

\* Translating a record makes it protect the partition its path names.
LEMMA TranslatedProtects ==
    ASSUME Entries, LookupsTell, NEW path, NEW d \in Named(path),
           NEW junk, junk \in Junk \/ path.kind = "mmc"
    PROVE  /\ RealPath(path, junk) = d.devname
           /\ uevent_stat(info, RealPath(path, junk), junk) = d.rdev
           /\ uevent_stat(info, RealPath(path, junk), Null) = d.rdev
<1> DEFINE i == get_blockinfo_for_path(info, path, junk)
<1>1. i # 0 /\ info[i] = add_uevent_entry(d)
    BY NamedFound
<1>2. d \in Known /\ d \in SysBlock
    BY DEF Named, Known
<1>3. d.devname.kind = "mmc" /\ d.devname = MmcPath(d.devname.part)
    BY <1>2, SysBlockAssumption DEF Named, LookupsTell, MmcPath
<1>4. info[i].part = d.devname.part
    BY <1>1, <1>3 DEF add_uevent_entry
<1>5. uevent_realpath(info, path, junk) = d.devname
    BY <1>1, <1>3, <1>4 DEF uevent_realpath
<1>6. RealPath(path, junk) = d.devname
    BY <1>2, <1>5, SysBlockAssumption DEF RealPath
<1>7. d \in Named(d.devname)
    BY <1>2, <1>3 DEF Named
<1>8. ASSUME NEW j
      PROVE  uevent_stat(info, d.devname, j) = d.rdev
    <2>1. LET n == get_blockinfo_for_path(info, d.devname, j)
          IN  n # 0 /\ info[n] = add_uevent_entry(d)
        BY <1>3, <1>7, NamedFound
    <2> QED
        BY <2>1 DEF uevent_stat, add_uevent_entry
<1> QED
    BY <1>6, <1>8
-----------------------------------------------------------------------------
(***************************************************************************)
(* The inductive invariant                                                 *)
(***************************************************************************)
\* What import_kernel_nv has set: the device of a path is a partition.
ParamsFit ==
    /\ DOMAIN md = {"multiboot", "path", "dev", "grubpath", "grubdev",
                    "sndstage"}
    /\ md.path # Null => \E part : md.dev = MmcPath(part)
    /\ md.grubpath # Null => \E part : md.grubdev = MmcPath(part)

\* Before prepare_fstab the records are what load_multiboot_fstab made.
Loaded ==
    /\ Len(mb) = Len(mbfile)
    /\ mb = [i \in 1..Len(mbfile) |-> Replaced(i, ParseAndroid(mbfile[i]))]

\* What load_multiboot_fstab sees to, and nothing after it changes.
LoopsFit ==
    /\ Len(mb) = Len(mbfile)
    /\ \A i \in 1..Len(mb) :
          /\ mb[i].bind <=> mb[i].stub # Null
          /\ LoopOf(mb[i]) = Loop(i)
          /\ Loop(i) \notin Nodes(info)

IInv ==
    /\ mbfile \in MbFiles
    /\ Entries
    /\ ParamsFit
    /\ pc = "fstabs" => Loaded
    /\ pc \in {"fstabs", "patch", "done"} => LoopsFit
    /\ RecordsNamePartitions

LEMMA InitInv == Init => IInv
<1> SUFFICES ASSUME Init PROVE IInv
    OBVIOUS
<1>1. Entries
    BY DEF Init, Entries
<1>2. ParamsFit
    BY DEF Init, ParamsFit, NoParams
<1> QED
    BY <1>1, <1>2 DEF Init, IInv, RecordsNamePartitions, Prepared

\* A step that changes neither the records nor what they were made from.
LEMMA RecordsKept ==
    ASSUME IInv, UNCHANGED <<info, mb, own, mbfile, md>>,
           pc' \in {"patch", "done"} => pc \in {"patch", "done"},
           pc' = "fstabs" => pc = "fstabs"
    PROVE  IInv'
<1>1. Entries'
    BY DEF IInv, Entries
<1>2. ParamsFit'
    BY DEF IInv, ParamsFit
<1>3. (pc = "fstabs" => Loaded)'
    BY DEF IInv, Loaded, Replaced, Tree
<1>4. (pc \in {"fstabs", "patch", "done"} => LoopsFit)'
    BY DEF IInv, LoopsFit, Nodes
<1>5. RecordsNamePartitions'
    BY DEF IInv, RecordsNamePartitions, Prepared, Protects, Named, Known
<1> QED
    BY <1>1, <1>2, <1>3, <1>4, <1>5 DEF IInv

LEMMA ImportStep ==
    ASSUME IInv, ImportParam
    PROVE  IInv'
<1>1. pc' = "cmdline" /\ mbfile' = mbfile /\ info' = info
    BY DEF ImportParam, disk
<1>2. Entries'
    BY <1>1 DEF IInv, Entries
<1>3. ParamsFit'
    BY DEF IInv, ImportParam, ParamsFit, SourceSet
<1> QED
    BY <1>1, <1>2, <1>3 DEF IInv, RecordsNamePartitions, Prepared

LEMMA ReadStep ==
    ASSUME IInv, NEW d \in SysBlock, ReadUevent(d)
    PROVE  IInv'
<1>1. pc' = "blocks" /\ mbfile' = mbfile /\ md' = md
    BY DEF ReadUevent, disk
<1>2. Entries'
    <2>1. CASE UNCHANGED info
        BY <2>1 DEF IInv, Entries
    <2>2. CASE info' = Append(info, add_uevent_entry(d))
        BY <2>2 DEF IInv, Entries
    <2> QED
        BY <2>1, <2>2 DEF ReadUevent
<1>3. ParamsFit'
    BY <1>1 DEF IInv, ParamsFit
<1> QED
    BY <1>1, <1>2, <1>3 DEF IInv, RecordsNamePartitions, Prepared

LEMMA LoadStep ==
    ASSUME IInv, LoadMultibootFstab
    PROVE  IInv'
<1>1. /\ pc' \in {"failed", "fstabs"} /\ UNCHANGED <<md, info, mbfile>>
    BY DEF LoadMultibootFstab, disk
<1>2. Entries' /\ ParamsFit'
    BY <1>1 DEF IInv, Entries, ParamsFit
<1>3. ASSUME pc' = "fstabs" PROVE Loaded' /\ LoopsFit'
    <2> DEFINE n == Len(mbfile)
               Row(i) == Replaced(i, ParseAndroid(mbfile[i]))
    <2>1. n \in Nat /\ \A i \in 1..n : Loop(i) # Null
        BY MbFilesAssumption DEF IInv, Loop
    <2>2. mb' = [i \in 1..n |-> Row(i)]
        <3>1. /\ mb' = [i \in 1..Len(do_fs_mgr_read_fstab(mbfile, FALSE)) |->
                           Replaced(i, do_fs_mgr_read_fstab(mbfile, FALSE)[i])]
              /\ do_fs_mgr_read_fstab(mbfile, FALSE)
                    = [i \in 1..n |-> ParseAndroid(mbfile[i])]
            BY <1>3 DEF LoadMultibootFstab, do_fs_mgr_read_fstab
        <3>2. Len(do_fs_mgr_read_fstab(mbfile, FALSE)) = n
            BY <2>1 DEF do_fs_mgr_read_fstab
        <3>3. \A i \in 1..n : do_fs_mgr_read_fstab(mbfile, FALSE)[i]
                                 = ParseAndroid(mbfile[i])
            BY <3>1
        <3>4. mb' = [i \in 1..n |->
                        Replaced(i, do_fs_mgr_read_fstab(mbfile, FALSE)[i])]
            BY <3>1, <3>2
        <3> QED
            BY <3>3, <3>4, Zenon
    <2>3. Len(mb') = n
        BY <2>1, <2>2
    <2>4. Loaded'
        BY <1>1, <2>2, <2>3 DEF Loaded, Replaced, Tree
    <2>5. \A i \in 1..n : Loop(i) \notin Nodes(info)
        BY <1>3, <2>1 DEF LoadMultibootFstab, do_fs_mgr_read_fstab
    <2>6. ASSUME NEW i \in 1..n
          PROVE  /\ Row(i).bind <=> Row(i).stub # Null
                 /\ LoopOf(Row(i)) = Loop(i)
        BY <2>1 DEF Replaced, Rec, LoopOf
    <2>7. LoopsFit'
        BY <1>1, <2>2, <2>3, <2>5, <2>6 DEF LoopsFit, Nodes
    <2> QED
        BY <2>4, <2>7
<1> QED
    BY <1>1, <1>2, <1>3 DEF IInv, RecordsNamePartitions, Prepared

LEMMA PrepareStep ==
    ASSUME IInv, PrepareFstab
    PROVE  IInv'
<1>1. pc = "fstabs" /\ pc' \in {"patch", "done"}
      /\ UNCHANGED <<md, info, mbfile>>
    BY DEF PrepareFstab, disk
<1>2. Entries /\ Entries' /\ ParamsFit /\ ParamsFit'
    BY <1>1 DEF IInv, Entries, ParamsFit
<1>3. Loaded /\ LoopsFit /\ Len(mbfile) \in Nat
    BY <1>1, MbFilesAssumption DEF IInv
<1>4. PICK junk \in Junk :
          mb' = [i \in 1..Len(mb) |-> Translated(mb[i], junk)]
    BY DEF PrepareFstab
<1>5. Len(mb') = Len(mb)
    BY <1>3, <1>4 DEF Loaded
<1>6. ASSUME NEW i \in 1..Len(mb)
      PROVE  /\ mb'[i].bind = mb[i].bind /\ mb'[i].stub = mb[i].stub
             /\ mb'[i].repl = mb[i].repl
             /\ mb[i].blk = mbfile[i][1]
             /\ mb'[i].blk = RealPath(mb[i].blk, junk)
             /\ mb'[i].rdev = uevent_stat(info, RealPath(mb[i].blk, junk), junk)
    <2>1. mb[i] = Replaced(i, ParseAndroid(mbfile[i]))
        BY <1>3 DEF Loaded
    <2>2. mb'[i] = Translated(mb[i], junk)
        BY <1>4
    <2> QED
        BY <2>1, <2>2 DEF Translated, Replaced, Rec, ParseAndroid, Parsed
<1>7. LoopsFit'
    BY <1>1, <1>3, <1>5, <1>6 DEF LoopsFit, LoopOf, Nodes
<1>8. ASSUME LookupsTell
      PROVE  /\ \A i \in 1..Len(mb') : Protects(mbfile[i][1], mb'[i])
             /\ own'.source # Null => Protects(md.dev, own'.source)
             /\ own'.grub # Null => Protects(md.grubdev, own'.grub)
    <2>1. ASSUME NEW i \in 1..Len(mb')
          PROVE  Protects(mbfile[i][1], mb'[i])
        <3>1. i \in 1..Len(mb)
            BY <1>5
        <3>2. ASSUME NEW d \in Named(mbfile[i][1])
              PROVE  mb'[i].blk = d.devname /\ mb'[i].rdev = d.rdev
            BY <1>2, <1>6, <1>8, <3>1, <3>2, TranslatedProtects
        <3> QED
            BY <3>2 DEF Protects
    <2>2. ASSUME NEW part, NEW mount
          PROVE  Protects(MmcPath(part), OwnRec(MmcPath(part), mount))
        <3>1. MmcPath(part).kind = "mmc"
            BY DEF MmcPath
        <3>2. ASSUME NEW d \in Named(MmcPath(part))
              PROVE  /\ RealPath(MmcPath(part), Null) = d.devname
                     /\ uevent_stat(info, RealPath(MmcPath(part), Null), Null)
                            = d.rdev
            BY <1>2, <1>8, <3>1, TranslatedProtects
        <3> QED
            BY <3>2 DEF Protects, OwnRec, Rec, Parsed
    <2>3. own'.source # Null => Protects(md.dev, own'.source)
        <3>1. own'.source = IF md.path # Null THEN OwnRec(md.dev, Source)
                            ELSE Null
            BY DEF PrepareFstab
        <3> QED
            BY <1>2, <2>2, <3>1 DEF ParamsFit
    <2>4. own'.grub # Null => Protects(md.grubdev, own'.grub)
        <3>1. own'.grub = IF md.grubpath # Null THEN OwnRec(md.grubdev, Grub)
                          ELSE Null
            BY DEF PrepareFstab
        <3> QED
            BY <1>2, <2>2, <3>1 DEF ParamsFit
    <2> QED
        BY <2>1, <2>3, <2>4
<1>9. RecordsNamePartitions'
    BY <1>1, <1>8 DEF RecordsNamePartitions, Protects, Named, Known
<1> QED
    BY <1>1, <1>2, <1>3, <1>7, <1>9 DEF IInv

LEMMA NextStep == IInv /\ [Next]_vars => IInv'
<1> SUFFICES ASSUME IInv, [Next]_vars PROVE IInv'
    OBVIOUS
<1>1. CASE ImportParam
    BY <1>1, ImportStep
<1>2. CASE CmdlineEnds
    BY <1>2, RecordsKept DEF CmdlineEnds, disk
<1>3. ASSUME NEW d \in SysBlock, ReadUevent(d) PROVE IInv'
    BY <1>3, ReadStep
<1>4. CASE EarlyInit
    BY <1>4, RecordsKept DEF EarlyInit, disk
<1>5. CASE LoadMultibootFstab
    BY <1>5, LoadStep
<1>6. ASSUME NEW e \in UNION RootDirs, AddFstab(e) PROVE IInv'
    BY <1>6, RecordsKept DEF AddFstab, disk
<1>7. CASE PrepareFstab
    BY <1>7, PrepareStep
<1>8. CASE PatchRecord
    BY <1>8, RecordsKept DEF PatchRecord
<1>9. CASE PatchEnds
    BY <1>9, RecordsKept DEF PatchEnds, disk
<1>10. CASE UNCHANGED vars
    BY <1>10, RecordsKept DEF vars, disk
<1> QED
    BY <1>1, <1>2, <1>3, <1>4, <1>5, <1>6, <1>7, <1>8, <1>9, <1>10 DEF Next

LEMMA SpecInv == Spec => []IInv
<1> QED
    BY InitInv, NextStep, PTL DEF Spec

-----------------------------------------------------------------------------
\* Every record of the multiboot fstab, and those of the source and the grub
\* device, carry the node and the number of the partition that the table or
\* the command line names: get_blockinfo_for_path finds it in block_info in
\* whatever order readdir returned the devices, and whichever could not be
\* read, as long as the lookups can tell the devices apart.
THEOREM RecordsAlwaysNamePartitions == Spec => []RecordsNamePartitions
<1>1. IInv => RecordsNamePartitions
    BY DEF IInv
<1> QED
    BY <1>1, SpecInv, PTL

\* Every record has a loop device of its own, which is none of the kernel's,
\* and a stub device exactly if it is mounted by binding: what make_loop gives
\* load_multiboot_fstab, and what the hooks of fs_redirection build on.
THEOREM RecordsAlwaysFit == Spec => []RecordsFit
<1>1. ASSUME IInv PROVE RecordsFit
    <2>1. SUFFICES ASSUME Prepared
                   PROVE \A i \in 1..Len(mb) :
                            /\ mb[i].bind <=> mb[i].stub # Null
                            /\ LoopOf(mb[i]).kind = "loop"
                            /\ LoopOf(mb[i]) \notin Nodes(info)
                            /\ \A j \in 1..Len(mb) :
                                  LoopOf(mb[i]) = LoopOf(mb[j]) => i = j
        BY DEF RecordsFit
    <2>2. LoopsFit /\ Len(mb) \in Nat
        BY <1>1, <2>1, MbFilesAssumption DEF IInv, Prepared, LoopsFit
    <2>3. \A i \in 1..Len(mb) : /\ Loop(i).kind = "loop"
                                /\ Loop(i).minor = 256 - i
        BY DEF Loop, LoopPath
    <2>4. \A i, j \in 1..Len(mb) : Loop(i) = Loop(j) => i = j
        BY <2>2, <2>3
    <2> QED
        BY <2>2, <2>3, <2>4 DEF LoopsFit
<1> QED
    BY <1>1, SpecInv, PTL

-----------------------------------------------------------------------------
(***************************************************************************)
(* Sequences                                                               *)
(***************************************************************************)
\* Sequences of whatever elements.
LEMMA SequenceSeq ==
    ASSUME NEW S, NEW s, IsSequence(s), \A i \in 1..Len(s) : s[i] \in S
    PROVE  s \in Seq(S)
<1>1. s \in [1..Len(s) -> S] /\ Len(s) \in Nat
    BY DEF IsSequence
<1> QED
    BY <1>1, SeqDef

LEMMA SeqSequence ==
    ASSUME NEW S, NEW s \in Seq(S)
    PROVE  IsSequence(s)
BY LenProperties DEF IsSequence

LEMMA ConcatSequence ==
    ASSUME NEW s, NEW u, IsSequence(s), IsSequence(u)
    PROVE  /\ IsSequence(s \o u) /\ Len(s \o u) = Len(s) + Len(u)
           /\ \A i \in 1..Len(s \o u) :
                 (s \o u)[i] = IF i <= Len(s) THEN s[i] ELSE u[i - Len(s)]
<1> DEFINE S == {s[i] : i \in 1..Len(s)} \cup {u[i] : i \in 1..Len(u)}
<1>1. s \in Seq(S) /\ u \in Seq(S)
    BY SequenceSeq
<1> HIDE DEF S
<1> QED
    BY <1>1, ConcatProperties, SeqSequence

\* An element of the second sequence.
LEMMA ConcatRight ==
    ASSUME NEW s, NEW u, IsSequence(s), IsSequence(u),
           NEW i \in 1..Len(u), NEW j \in Nat, j = Len(s) + i
    PROVE  (s \o u)[j] = u[i]
<1>1. Len(s) \in Nat /\ Len(u) \in Nat
    BY DEF IsSequence
<1>2. j \in 1..Len(s) + Len(u) /\ ~(j <= Len(s)) /\ j - Len(s) = i
    BY <1>1
<1>3. (s \o u)[j] = u[j - Len(s)]
    BY <1>2, ConcatSequence
<1> QED
    BY <1>2, <1>3

LEMMA SubSequence ==
    ASSUME NEW s, IsSequence(s), NEW m \in Nat \ {0}, NEW n \in 0..Len(s)
    PROVE  /\ IsSequence(SubSeq(s, m, n))
           /\ Len(SubSeq(s, m, n)) = IF m <= n THEN n - m + 1 ELSE 0
           /\ \A i \in 1..Len(SubSeq(s, m, n)) :
                 SubSeq(s, m, n)[i] = s[m + i - 1]
<1> DEFINE S == {s[i] : i \in 1..Len(s)}
<1>1. m \in Int /\ n \in Int /\ \A i \in m..n : s[i] \in S
    BY DEF IsSequence
<1> HIDE DEF S
<1>2. /\ SubSeq(s, m, n) \in Seq(S)
      /\ Len(SubSeq(s, m, n)) = IF m <= n THEN n - m + 1 ELSE 0
      /\ \A i \in 1..n - m + 1 : SubSeq(s, m, n)[i] = s[m + i - 1]
    BY <1>1, SubSeqProperties
<1>3. IsSequence(SubSeq(s, m, n))
    BY <1>2, SeqSequence
<1> QED
    BY <1>1, <1>2, <1>3

LEMMA SubFirst ==
    ASSUME NEW s, IsSequence(s), NEW m \in Nat \ {0}, m <= Len(s)
    PROVE  SubSeq(s, m, Len(s))[1] = s[m]
<1>1. Len(s) \in Nat
    BY DEF IsSequence
<1>2. 1 \in 1..Len(SubSeq(s, m, Len(s))) /\ m + 1 - 1 = m
    BY <1>1, SubSequence
<1>3. SubSeq(s, m, Len(s))[1] = s[m + 1 - 1]
    BY <1>1, <1>2, SubSequence
<1> QED
    BY <1>2, <1>3

LEMMA EmptySequence == IsSequence(<<>>) /\ Len(<<>>) = 0
BY DEF IsSequence

LEMMA OneSequence ==
    ASSUME NEW x
    PROVE  IsSequence(<<x>>) /\ Len(<<x>>) = 1 /\ <<x>>[1] = x
BY DEF IsSequence

LEMMA AppendSequence ==
    ASSUME NEW s, NEW x, IsSequence(s)
    PROVE  /\ IsSequence(Append(s, x)) /\ Len(s) \in Nat
           /\ Len(Append(s, x)) = Len(s) + 1
           /\ \A i \in 1..Len(s) : Append(s, x)[i] = s[i]
           /\ Append(s, x)[Len(s) + 1] = x
<1> DEFINE S == {s[i] : i \in 1..Len(s)} \cup {x}
<1>1. s \in Seq(S) /\ x \in S
    <2>1. x \in S /\ \A i \in 1..Len(s) : s[i] \in S
        OBVIOUS
    <2> HIDE DEF S
    <2> QED
        BY <2>1, SequenceSeq
<1> HIDE DEF S
<1>2. Len(s) \in Nat
    BY DEF IsSequence
<1>3. /\ Append(s, x) \in Seq(S)
      /\ Len(Append(s, x)) = Len(s) + 1
      /\ \A i \in 1..Len(s) : Append(s, x)[i] = s[i]
      /\ Append(s, x)[Len(s) + 1] = x
    BY <1>1, AppendProperties
<1> QED
    BY <1>2, <1>3, SeqSequence

LEMMA SomeSequence ==
    ASSUME NEW s, IsSequence(s), s # <<>>
    PROVE  Len(s) \in Nat \ {0}
<1> DEFINE S == {s[i] : i \in 1..Len(s)}
<1>1. s \in Seq(S)
    BY SequenceSeq
<1> QED
    BY <1>1, EmptySeq

-----------------------------------------------------------------------------
(***************************************************************************)
(* Types                                                                   *)
(***************************************************************************)
\* A parameter that has been scanned names a device.
ParamFits(p) ==
    p.key \in {"multiboot.source", "multiboot.grubdir"} /\ p.scans =>
        p.dir # Null /\ MmcPath(p.part) # Null

TInv ==
    /\ TypeOK
    /\ DOMAIN md = {"multiboot", "path", "dev", "grubpath", "grubdev",
                    "sndstage"}
    /\ IsSequence(params) /\ \A i \in 1..Len(params) : ParamFits(params[i])
    /\ IsSequence(info) /\ IsSequence(tables)
    /\ \A t \in 1..Len(tables) : DOMAIN tables[t] = {"name", "twrp", "recs"}

LEMMA InitTypes == Init => TInv
<1> SUFFICES ASSUME Init
             PROVE  TInv
    OBVIOUS
<1>1. /\ IsSequence(info) /\ Len(info) = 0
      /\ IsSequence(tables) /\ Len(tables) = 0
    BY EmptySequence DEF Init
<1>2. IsSequence(params) /\ \A i \in 1..Len(params) : ParamFits(params[i])
    BY CmdlineAssumption DEF Init, ParamFits
<1>3. TypeOK
    BY <1>1 DEF Init, TypeOK, NoParams
<1> QED
    BY <1>1, <1>2, <1>3 DEF TInv, Init, NoParams

LEMMA RestSequence ==
    ASSUME NEW s, IsSequence(s), s # <<>>
    PROVE  /\ IsSequence(Tail(s)) /\ Head(s) = s[1] /\ 1 \in 1..Len(s)
           /\ \A i \in 1..Len(Tail(s)) :
                 i + 1 \in 1..Len(s) /\ Tail(s)[i] = s[i + 1]
<1> DEFINE S == {s[i] : i \in 1..Len(s)}
<1>1. s \in Seq(S)
    BY SequenceSeq
<1> HIDE DEF S
<1>2. Len(s) \in Nat \ {0}
    BY SomeSequence
<1>3. /\ Head(s) = s[1] /\ Tail(s) \in Seq(S)
      /\ Len(Tail(s)) = Len(s) - 1
      /\ \A i \in 1..Len(Tail(s)) : Tail(s)[i] = s[i + 1]
    BY <1>1, HeadTailProperties
<1>4. IsSequence(Tail(s))
    BY <1>3, SeqSequence
<1> QED
    BY <1>2, <1>3, <1>4

LEMMA ImportTypes ==
    ASSUME TInv, ImportParam
    PROVE  TInv'
<1>1. /\ params # <<>> /\ params' = Tail(params)
      /\ UNCHANGED <<pc, mode, unread, info, grubinfo, unlisted, tables, at>>
    BY DEF ImportParam
<1> DEFINE p == Head(params)
<1>2. ParamFits(p)
    BY <1>1, RestSequence DEF TInv
<1>3. IsSequence(params') /\ \A i \in 1..Len(params') : ParamFits(params'[i])
    BY <1>1, RestSequence DEF TInv
<1>4. \/ p.key = "multiboot.source" /\ p.scans /\ md' = SourceSet(p)
      \/ /\ p.key = "multiboot.grubdir" /\ p.scans
         /\ md' = [md EXCEPT !.grubpath = p.dir, !.grubdev = MmcPath(p.part)]
      \/ md' = [md EXCEPT !.grubpath = Null]
      \/ md' = [md EXCEPT !.sndstage = p.val # 0]
      \/ UNCHANGED md
    BY DEF ImportParam
<1> HIDE DEF p
<1>5. /\ DOMAIN md' = DOMAIN md
      /\ md'.multiboot \in BOOLEAN /\ md'.sndstage \in BOOLEAN
      /\ md'.multiboot <=> md'.path # Null
      /\ md'.multiboot <=> md'.dev # Null
      /\ md'.grubpath # Null => md'.grubdev # Null
    <2>1. /\ DOMAIN md = {"multiboot", "path", "dev", "grubpath", "grubdev",
                          "sndstage"}
          /\ md.multiboot \in BOOLEAN /\ md.sndstage \in BOOLEAN
          /\ md.multiboot <=> md.path # Null
          /\ md.multiboot <=> md.dev # Null
          /\ md.grubpath # Null => md.grubdev # Null
        BY DEF TInv, TypeOK
    <2>2. CASE p.key = "multiboot.source" /\ p.scans /\ md' = SourceSet(p)
        <3>1. p.dir # Null /\ MmcPath(p.part) # Null
            BY <1>2, <2>2 DEF ParamFits
        <3>2. /\ DOMAIN md' = DOMAIN md
              /\ md'.multiboot = TRUE /\ md'.path = p.dir
              /\ md'.dev = MmcPath(p.part) /\ md'.sndstage = md.sndstage
              /\ md'.grubpath = md.grubpath /\ md'.grubdev = md.grubdev
            BY <2>1, <2>2 DEF SourceSet
        <3> QED
            BY <2>1, <3>1, <3>2
    <2>3. CASE /\ p.key = "multiboot.grubdir" /\ p.scans
               /\ md' = [md EXCEPT !.grubpath = p.dir,
                                   !.grubdev = MmcPath(p.part)]
        <3>1. p.dir # Null /\ MmcPath(p.part) # Null
            BY <1>2, <2>3 DEF ParamFits
        <3>2. /\ DOMAIN md' = DOMAIN md
              /\ md'.multiboot = md.multiboot /\ md'.path = md.path
              /\ md'.dev = md.dev /\ md'.sndstage = md.sndstage
              /\ md'.grubdev = MmcPath(p.part)
            BY <2>1, <2>3
        <3> QED
            BY <2>1, <3>1, <3>2
    <2>4. CASE md' = [md EXCEPT !.grubpath = Null]
        BY <2>1, <2>4
    <2>5. CASE md' = [md EXCEPT !.sndstage = p.val # 0]
        BY <2>1, <2>5
    <2>6. CASE UNCHANGED md
        BY <2>1, <2>6
    <2> QED
        BY <1>4, <2>2, <2>3, <2>4, <2>5, <2>6
<1> QED
    BY <1>1, <1>3, <1>5 DEF TInv, TypeOK

LEMMA ReadTypes ==
    ASSUME TInv, NEW d \in SysBlock, ReadUevent(d)
    PROVE  TInv'
<1>1. /\ UNCHANGED <<pc, mode, params, md, grubinfo, unlisted, tables, at>>
      /\ d \in unread /\ unread' = unread \ {d}
    BY DEF ReadUevent
<1>2. /\ IsSequence(info') /\ Len(info) \in Nat /\ Len(info') \in Nat
      /\ Len(info) <= Len(info')
      /\ \A i \in 1..Len(info') :
            \E e \in SysBlock \ unread' : info'[i] = add_uevent_entry(e)
    <2>1. /\ IsSequence(info) /\ Len(info) \in Nat
          /\ \A i \in 1..Len(info) :
                \E e \in SysBlock \ unread : info[i] = add_uevent_entry(e)
        BY DEF TInv, TypeOK, IsSequence
    <2>2. CASE UNCHANGED info
        BY <1>1, <2>1, <2>2
    <2>3. CASE info' = Append(info, add_uevent_entry(d))
        <3>1. /\ IsSequence(info') /\ Len(info') = Len(info) + 1
              /\ \A i \in 1..Len(info) : info'[i] = info[i]
              /\ info'[Len(info) + 1] = add_uevent_entry(d)
            BY <2>1, <2>3, AppendSequence
        <3>2. ASSUME NEW i \in 1..Len(info')
              PROVE  \E e \in SysBlock \ unread' :
                        info'[i] = add_uevent_entry(e)
            <4>1. CASE i \in 1..Len(info)
                BY <1>1, <2>1, <3>1, <4>1
            <4>2. CASE i \notin 1..Len(info)
                <5>1. i = Len(info) + 1
                    BY <2>1, <3>1, <4>2
                <5>2. info'[i] = add_uevent_entry(d)
                    BY <3>1, <5>1
                <5> QED
                    BY <1>1, <5>2
            <4> QED
                BY <4>1, <4>2
        <3> QED
            BY <2>1, <3>1, <3>2
    <2> QED
        BY <2>2, <2>3 DEF ReadUevent
<1>3. grubinfo' \in 0..Len(info')
    BY <1>1, <1>2 DEF TInv, TypeOK
<1> QED
    BY <1>1, <1>2, <1>3 DEF TInv, TypeOK

LEMMA EarlyTypes ==
    ASSUME TInv, EarlyInit
    PROVE  TInv'
<1>1. /\ UNCHANGED <<mode, params, md, unread, info, unlisted, tables, at>>
      /\ pc' \in {"mbfstab", "failed"}
    BY DEF EarlyInit
<1>2. Len(info) \in Nat
    BY DEF TInv, IsSequence
<1>3. grubinfo' \in 0..Len(info)
    <2>1. \/ grubinfo' = 0
          \/ grubinfo' = get_blockinfo_for_path(info, md.grubdev, Null)
        BY DEF EarlyInit
    <2>2. get_blockinfo_for_path(info, md.grubdev, Null) \in 0..Len(info)
        BY <1>2, FoundAnswers DEF Answering
    <2> QED
        BY <1>2, <2>1, <2>2
<1> QED
    BY <1>1, <1>3 DEF TInv, TypeOK

LEMMA AddTypes ==
    ASSUME TInv, NEW e \in UNION RootDirs, AddFstab(e)
    PROVE  TInv'
<1>1. /\ UNCHANGED <<mode, params, md, unread, info, grubinfo, at>>
      /\ pc' \in {"fstabs", "failed"} /\ unlisted' = unlisted \ {e}
    BY DEF AddFstab
<1>2. CASE UNCHANGED tables
    BY <1>1, <1>2 DEF TInv, TypeOK
<1>3. CASE tables' # tables
    <2>1. IsFstab(e)
        BY <1>3 DEF AddFstab
    <2>2. e.name \in DOMAIN Content
        BY <2>1, ContentAssumption DEF IsFstab, FSTAB_RECOVERY
    <2>3. PICK twrp \in BOOLEAN :
              tables' = Append(tables,
                    [name |-> e.name, twrp |-> twrp,
                     recs |-> do_fs_mgr_read_fstab(Content[e.name], twrp)])
        BY <1>3 DEF AddFstab
    <2> DEFINE new == [name |-> e.name, twrp |-> twrp,
                       recs |-> do_fs_mgr_read_fstab(Content[e.name], twrp)]
    <2>4. new.name = e.name /\ DOMAIN new = {"name", "twrp", "recs"}
        OBVIOUS
    <2>5. tables' = Append(tables, new)
        BY <2>3
    <2> HIDE DEF new
    <2>6. /\ IsSequence(tables') /\ Len(tables) \in Nat
          /\ Len(tables') = Len(tables) + 1
          /\ \A t \in 1..Len(tables) : tables'[t] = tables[t]
          /\ tables'[Len(tables) + 1] = new
        BY <2>5, AppendSequence DEF TInv
    <2>7. ASSUME NEW t \in 1..Len(tables')
          PROVE  /\ tables'[t].name \in DOMAIN Content
                 /\ DOMAIN tables'[t] = {"name", "twrp", "recs"}
        <3>1. CASE t \in 1..Len(tables)
            BY <2>6, <3>1 DEF TInv, TypeOK
        <3>2. CASE t \notin 1..Len(tables)
            <4>1. t = Len(tables) + 1
                BY <2>6, <3>2
            <4> QED
                BY <2>2, <2>4, <2>6, <4>1
        <3> QED
            BY <3>1, <3>2
    <2> QED
        BY <1>1, <2>6, <2>7 DEF TInv, TypeOK
<1> QED
    BY <1>2, <1>3

LEMMA PrepareTypes ==
    ASSUME TInv, PrepareFstab
    PROVE  TInv'
<1>1. /\ UNCHANGED <<mode, params, md, unread, info, grubinfo, unlisted, at>>
      /\ pc' \in {"done", "patch"}
    BY DEF PrepareFstab
<1>2. PICK junk \in Junk :
          tables' = [t \in 1..Len(tables) |->
                [tables[t] EXCEPT !.recs =
                    [i \in 1..Len(tables[t].recs) |->
                        [tables[t].recs[i] EXCEPT
                            !.blk = RealPath(@, junk)]]]]
    BY DEF PrepareFstab
<1>3. Len(tables) \in Nat /\ IsSequence(tables') /\ Len(tables') = Len(tables)
    BY <1>2 DEF TInv, IsSequence
<1>4. ASSUME NEW t \in 1..Len(tables)
      PROVE  /\ tables'[t].name = tables[t].name
             /\ DOMAIN tables'[t] = DOMAIN tables[t]
    <2>1. DOMAIN tables[t] = {"name", "twrp", "recs"}
        BY DEF TInv
    <2>2. PICK recs : tables'[t] = [tables[t] EXCEPT !.recs = recs]
        BY <1>2
    <2> QED
        BY <2>1, <2>2
<1> QED
    BY <1>1, <1>3, <1>4 DEF TInv, TypeOK

LEMMA NextTypes == TInv /\ [Next]_vars => TInv'
<1> SUFFICES ASSUME TInv, [Next]_vars
             PROVE  TInv'
    OBVIOUS
<1>1. CASE ImportParam
    BY <1>1, ImportTypes
<1>2. CASE CmdlineEnds
    BY <1>2 DEF CmdlineEnds, TInv, TypeOK
<1>3. ASSUME NEW d \in SysBlock, ReadUevent(d) PROVE TInv'
    BY <1>3, ReadTypes
<1>4. CASE EarlyInit
    BY <1>4, EarlyTypes
<1>5. CASE LoadMultibootFstab
    <2>1. pc' \in {"failed", "fstabs"}
        BY <1>5 DEF LoadMultibootFstab
    <2> QED
        BY <1>5, <2>1 DEF LoadMultibootFstab, TInv, TypeOK
<1>6. ASSUME NEW e \in UNION RootDirs, AddFstab(e) PROVE TInv'
    BY <1>6, AddTypes
<1>7. CASE PrepareFstab
    BY <1>7, PrepareTypes
<1>8. CASE PatchRecord
    <2>1. at' \in Nat \X Nat
        <3>1. /\ at \in Nat \X Nat
              /\ \/ at' = <<at[1] + 1, 1>>
                 \/ at' = <<at[1], at[2] + 1>>
            BY <1>8 DEF PatchRecord, TInv, TypeOK
        <3> QED
            BY <3>1
    <2> QED
        BY <1>8, <2>1 DEF PatchRecord, TInv, TypeOK
<1>9. CASE PatchEnds
    BY <1>9 DEF PatchEnds, TInv, TypeOK
<1>10. CASE UNCHANGED vars
    BY <1>10 DEF vars, TInv, TypeOK
<1> QED
    BY <1>1, <1>2, <1>3, <1>4, <1>5, <1>6, <1>7, <1>8, <1>9, <1>10 DEF Next

\* Setup's tables have their types at every step: a path from the command line
\* comes with its device, grub_blockinfo is an entry of block_info or NULL,
\* an entry is that of a device which readdir has returned, and a table is one
\* of a file of the guest.
THEOREM RecordsTyped == Spec => []TypeOK
<1>1. TInv => TypeOK
    BY DEF TInv
<1> QED
    BY <1>1, InitTypes, NextTypes, PTL DEF Spec

-----------------------------------------------------------------------------
(***************************************************************************)
(* The guest's tables                                                      *)
(***************************************************************************)
\* A record of the guest's has what its row says, but for the block device.
FromRow(twrp, r, row) ==
    /\ DOMAIN r = {"blk", "mnt", "fs", "opts", "flags", "more"}
    /\ IF twrp
       THEN /\ r.mnt = row[1] /\ r.opts = Defaults /\ r.flags = {"defaults"}
            /\ r.more = SubSeq(row, 4, Len(row))
       ELSE r.mnt = row[2] /\ r.opts = row[4]

TableFrom(t) ==
    /\ DOMAIN t = {"name", "twrp", "recs"}
    /\ t.twrp \in BOOLEAN /\ t.name \in DOMAIN Content
    /\ Readable(Content[t.name], t.twrp)
    /\ t.twrp => ~Readable(Content[t.name], FALSE)
    /\ Len(t.recs) = Len(Content[t.name])
    /\ \A i \in 1..Len(t.recs) : FromRow(t.twrp, t.recs[i], Content[t.name][i])

\* The replacements are those of the multiboot fstab's rows.
ReplacedAs(r, row) ==
    /\ r.mnt = row[2] /\ r.flags = row[5]
    /\ r.bind <=> row[3] \in BindType
    /\ r.bind => r.repl.kind = "dir"
    /\ ~r.bind => r.repl.kind = "loop"

\* The tables are those of the guest's files, and patch_fstab is within them.
Shape ==
    /\ mbfile \in MbFiles
    /\ IsSequence(tables)
    /\ \A t \in 1..Len(tables) : TableFrom(tables[t])
    /\ at \in (Nat \ {0}) \X (Nat \ {0})
    /\ at[1] \in 1..Len(tables) => at[2] <= Len(tables[at[1]].recs)
    /\ at[2] # 1 => at[1] \in 1..Len(tables)
    /\ pc \in {"fstabs", "patch", "done"} =>
          /\ Readable(mbfile, FALSE) /\ Len(mb) = Len(mbfile)
          /\ \A i \in 1..Len(mb) : ReplacedAs(mb[i], mbfile[i])
    /\ DOMAIN file = DOMAIN Content
    /\ \A f \in DOMAIN file : IsSequence(file[f])

LEMMA TableLength ==
    ASSUME NEW t, TableFrom(t)
    PROVE  Len(t.recs) \in Nat \ {0}
<1>1. IsSequence(Content[t.name]) /\ Content[t.name] # <<>>
    BY ContentAssumption DEF TableFrom, Readable
<1>2. Len(Content[t.name]) \in Nat \ {0}
    BY <1>1, SomeSequence
<1> QED
    BY <1>2 DEF TableFrom

LEMMA InitShape == Init => Shape
<1> SUFFICES ASSUME Init
             PROVE  Shape
    OBVIOUS
<1>1. IsSequence(tables) /\ Len(tables) = 0
    BY EmptySequence DEF Init
<1>2. file = Content
    BY DEF Init
<1>3. \A f \in DOMAIN Content : IsSequence(Content[f])
    BY ContentAssumption
<1>4. at = <<1, 1>> /\ pc = "cmdline" /\ mbfile \in MbFiles
    BY DEF Init
<1> QED
    BY <1>1, <1>2, <1>3, <1>4 DEF Shape

\* What the steps before patch_fstab leave alone.
LEMMA ShapeKept ==
    ASSUME Shape, UNCHANGED <<mbfile, mb, tables, at, file>>,
           pc' \in {"fstabs", "patch", "done"} =>
               pc \in {"fstabs", "patch", "done"}
    PROVE  Shape'
BY DEF Shape

LEMMA RecordReplacedAs ==
    ASSUME NEW i, NEW row, NEW r, r = ParseAndroid(row)
    PROVE  ReplacedAs(Replaced(i, r), row)
<1>1. r.mnt = row[2] /\ r.fs = row[3] /\ r.flags = row[5]
    BY DEF ParseAndroid, Parsed
<1>2. Tree(md.path, r.mnt).kind = "dir" /\ Loop(i).kind = "loop"
    BY DEF Tree, Directory, Loop, LoopPath
<1>3. CASE r.fs \in BindType
    <2>1. Replaced(i, r) = Rec(r, NoRdev, TRUE, Tree(md.path, r.mnt), Loop(i))
        BY <1>3 DEF Replaced
    <2> QED
        BY <1>1, <1>2, <1>3, <2>1 DEF ReplacedAs, Rec
<1>4. CASE r.fs \notin BindType
    <2>1. Replaced(i, r) = Rec(r, NoRdev, FALSE, Loop(i), Null)
        BY <1>4 DEF Replaced
    <2> QED
        BY <1>1, <1>2, <1>4, <2>1 DEF ReplacedAs, Rec
<1> QED
    BY <1>3, <1>4

LEMMA LoadShape ==
    ASSUME Shape, LoadMultibootFstab
    PROVE  Shape'
<1>1. UNCHANGED <<mbfile, tables, at, file>>
    BY DEF LoadMultibootFstab, disk
<1>2. CASE pc' = "failed"
    BY <1>1, <1>2 DEF Shape
<1>3. CASE pc' # "failed"
    <2>1. Readable(mbfile, FALSE) /\ pc' = "fstabs"
        BY <1>3 DEF LoadMultibootFstab
    <2>2. Len(mbfile) \in Nat
        BY MbFilesAssumption DEF Shape
    <2>3. mb' = [i \in 1..Len(mbfile) |-> Replaced(i, ParseAndroid(mbfile[i]))]
        <3> DEFINE recs == do_fs_mgr_read_fstab(mbfile, FALSE)
        <3>1. recs = [i \in 1..Len(mbfile) |-> ParseAndroid(mbfile[i])]
            BY DEF do_fs_mgr_read_fstab
        <3>3. mb' = [i \in 1..Len(recs) |-> Replaced(i, recs[i])]
            BY <2>1 DEF LoadMultibootFstab
        <3> HIDE DEF recs
        <3>2. Len(recs) = Len(mbfile)
            BY <3>1, <2>2
        <3> QED
            BY <3>1, <3>2, <3>3
    <2>4. Len(mb') = Len(mbfile)
        BY <2>2, <2>3
    <2>5. ASSUME NEW i \in 1..Len(mbfile)
          PROVE  ReplacedAs(mb'[i], mbfile[i])
        <3>1. mb'[i] = Replaced(i, ParseAndroid(mbfile[i]))
            BY <2>3
        <3> QED
            BY <3>1, RecordReplacedAs
    <2> QED
        BY <1>1, <2>1, <2>4, <2>5 DEF Shape
<1> QED
    BY <1>2, <1>3

\* The table that add_fstab reads.
LEMMA ReadTable ==
    ASSUME NEW f \in DOMAIN Content, NEW twrp \in BOOLEAN,
           Readable(Content[f], twrp),
           twrp => ~Readable(Content[f], FALSE)
    PROVE  TableFrom([name |-> f, twrp |-> twrp,
                      recs |-> do_fs_mgr_read_fstab(Content[f], twrp)])
<1> DEFINE C == Content[f]
           recs == do_fs_mgr_read_fstab(C, twrp)
<1>1. Len(C) \in Nat
    BY ContentAssumption DEF IsSequence
<1>2. recs = [i \in 1..Len(C) |-> IF twrp THEN ParseTwrp(C[i])
                                  ELSE ParseAndroid(C[i])]
    BY DEF do_fs_mgr_read_fstab
<1>3. Len(recs) = Len(C)
    BY <1>1, <1>2
<1>4. ASSUME NEW i \in 1..Len(C)
      PROVE  FromRow(twrp, recs[i], C[i])
    <2>1. CASE twrp
        <3>1. recs[i] = ParseTwrp(C[i])
            BY <1>2, <2>1
        <3> HIDE DEF recs, C
        <3> QED
            BY <2>1, <3>1 DEF FromRow, ParseTwrp, Parsed
    <2>2. CASE ~twrp
        <3>1. recs[i] = ParseAndroid(C[i])
            BY <1>2, <2>2
        <3> HIDE DEF recs, C
        <3> QED
            BY <2>2, <3>1 DEF FromRow, ParseAndroid, Parsed
    <2> QED
        BY <2>1, <2>2
<1> HIDE DEF recs
<1> DEFINE t == [name |-> f, twrp |-> twrp, recs |-> recs]
<1>5. /\ DOMAIN t = {"name", "twrp", "recs"}
      /\ t.name = f /\ t.twrp = twrp /\ t.recs = recs
    OBVIOUS
<1> HIDE DEF t
<1>6. TableFrom(t)
    BY <1>3, <1>4, <1>5 DEF TableFrom
<1> QED
    BY <1>6 DEF t, recs

LEMMA AddShape ==
    ASSUME Shape, NEW e \in UNION RootDirs, AddFstab(e)
    PROVE  Shape'
<1>1. /\ UNCHANGED <<mbfile, mb, at, file>>
      /\ pc = "fstabs" /\ pc' \in {"fstabs", "failed"}
    BY DEF AddFstab, disk
<1>2. CASE UNCHANGED tables
    BY <1>1, <1>2, ShapeKept
<1>3. CASE tables' # tables
    <2>1. IsFstab(e)
        BY <1>3 DEF AddFstab
    <2>2. e.name \in DOMAIN Content
        BY <2>1, ContentAssumption DEF IsFstab, FSTAB_RECOVERY
    <2>3. PICK twrp \in BOOLEAN :
              /\ Readable(Content[e.name], twrp)
              /\ twrp => ~Readable(Content[e.name], FALSE)
              /\ tables' = Append(tables,
                    [name |-> e.name, twrp |-> twrp,
                     recs |-> do_fs_mgr_read_fstab(Content[e.name], twrp)])
        BY <1>3 DEF AddFstab
    <2> DEFINE new == [name |-> e.name, twrp |-> twrp,
                       recs |-> do_fs_mgr_read_fstab(Content[e.name], twrp)]
    <2>4. TableFrom(new)
        BY <2>2, <2>3, ReadTable
    <2>5. tables' = Append(tables, new)
        BY <2>3
    <2> HIDE DEF new
    <2>6. /\ IsSequence(tables') /\ Len(tables) \in Nat
          /\ Len(tables') = Len(tables) + 1
          /\ \A t \in 1..Len(tables) : tables'[t] = tables[t]
          /\ tables'[Len(tables) + 1] = new
        BY <2>5, AppendSequence DEF Shape
    <2>7. \A t \in 1..Len(tables') : TableFrom(tables'[t])
        <3> SUFFICES ASSUME NEW t \in 1..Len(tables')
                     PROVE  TableFrom(tables'[t])
            OBVIOUS
        <3>1. CASE t \in 1..Len(tables)
            BY <2>6, <3>1 DEF Shape
        <3>2. CASE t \notin 1..Len(tables)
            <4>1. t = Len(tables) + 1
                BY <2>6, <3>2
            <4> QED
                BY <2>4, <2>6, <4>1
        <3> QED
            BY <3>1, <3>2
    <2>8. at[1] \in 1..Len(tables') => at[2] <= Len(tables'[at[1]].recs)
        <3> SUFFICES ASSUME at[1] \in 1..Len(tables')
                     PROVE  at[2] <= Len(tables'[at[1]].recs)
            OBVIOUS
        <3>1. CASE at[1] \in 1..Len(tables)
            BY <2>6, <3>1 DEF Shape
        <3>2. CASE at[1] \notin 1..Len(tables)
            <4>1. at[2] = 1
                BY <3>2 DEF Shape
            <4>2. Len(tables'[at[1]].recs) \in Nat \ {0}
                BY <2>7, TableLength
            <4> QED
                BY <4>1, <4>2
        <3> QED
            BY <3>1, <3>2
    <2>9. at[2] # 1 => at[1] \in 1..Len(tables')
        BY <2>6 DEF Shape
    <2> QED
        BY <1>1, <2>6, <2>7, <2>8, <2>9 DEF Shape
<1> QED
    BY <1>2, <1>3

LEMMA PrepareShape ==
    ASSUME IInv, Shape, PrepareFstab
    PROVE  Shape'
<1>1. /\ UNCHANGED <<mbfile, at, file>>
      /\ pc = "fstabs" /\ pc' \in {"patch", "done"}
    BY DEF PrepareFstab, disk
<1>2. PICK junk \in Junk :
          /\ mb' = [i \in 1..Len(mb) |-> Translated(mb[i], junk)]
          /\ tables' = [t \in 1..Len(tables) |->
                [tables[t] EXCEPT !.recs =
                    [i \in 1..Len(tables[t].recs) |->
                        [tables[t].recs[i] EXCEPT
                            !.blk = RealPath(@, junk)]]]]
    BY DEF PrepareFstab
<1>3. Len(mb) = Len(mbfile) /\ Len(mb) \in Nat
    BY <1>1, MbFilesAssumption DEF Shape
<1>4. Len(mb') = Len(mb)
    BY <1>2, <1>3
<1>5. ASSUME NEW i \in 1..Len(mb)
      PROVE  ReplacedAs(mb'[i], mbfile[i])
    <2>1. mb'[i] = Translated(mb[i], junk)
        BY <1>2
    <2>2. mb[i] = Replaced(i, ParseAndroid(mbfile[i]))
        BY <1>1, <1>3 DEF IInv, Loaded
    <2>3. DOMAIN mb[i] = {"blk", "mnt", "fs", "opts", "flags", "more",
                          "rdev", "bind", "repl", "stub"}
        BY <2>2 DEF Replaced, Rec
    <2>4. /\ mb'[i].mnt = mb[i].mnt /\ mb'[i].flags = mb[i].flags
          /\ mb'[i].bind = mb[i].bind /\ mb'[i].repl = mb[i].repl
        BY <2>1, <2>3 DEF Translated
    <2>5. ReplacedAs(mb[i], mbfile[i])
        BY <1>1 DEF Shape
    <2> QED
        BY <2>4, <2>5 DEF ReplacedAs
<1>6. Len(tables) \in Nat /\ IsSequence(tables') /\ Len(tables') = Len(tables)
    BY <1>2 DEF Shape, IsSequence
<1>7. ASSUME NEW t \in 1..Len(tables)
      PROVE  /\ TableFrom(tables'[t])
             /\ Len(tables'[t].recs) = Len(tables[t].recs)
    <2> DEFINE old == tables[t]
               new == tables'[t]
               move(r) == [r EXCEPT !.blk = RealPath(r.blk, junk)]
    <2>1. TableFrom(old)
        BY DEF Shape
    <2>2. Len(old.recs) \in Nat \ {0}
        BY <2>1, TableLength
    <2>3. new = [old EXCEPT !.recs = [i \in 1..Len(old.recs) |->
                                         move(old.recs[i])]]
        BY <1>2
    <2> HIDE DEF old, new, move
    <2>4. /\ DOMAIN new = {"name", "twrp", "recs"}
          /\ new.name = old.name /\ new.twrp = old.twrp
          /\ new.recs = [i \in 1..Len(old.recs) |-> move(old.recs[i])]
        BY <2>1, <2>3 DEF TableFrom
    <2>5. Len(new.recs) = Len(old.recs)
        BY <2>2, <2>4
    <2>6. ASSUME NEW i \in 1..Len(old.recs)
          PROVE  FromRow(old.twrp, new.recs[i], Content[old.name][i])
        <3> DEFINE r == old.recs[i]
        <3>1. FromRow(old.twrp, r, Content[old.name][i])
            BY <2>1 DEF TableFrom
        <3>2. new.recs[i] = move(r)
            BY <2>4
        <3> HIDE DEF r
        <3>3. /\ DOMAIN move(r) = DOMAIN r
              /\ move(r).mnt = r.mnt /\ move(r).opts = r.opts
              /\ move(r).flags = r.flags /\ move(r).more = r.more
            BY <3>1 DEF move, FromRow
        <3> QED
            BY <3>1, <3>2, <3>3 DEF FromRow
    <2> QED
        BY <2>1, <2>4, <2>5, <2>6 DEF TableFrom, old, new
<1> QED
    BY <1>1, <1>3, <1>4, <1>5, <1>6, <1>7 DEF Shape

\* One row, or two.
LEMMA RowsJoined ==
    ASSUME NEW main, NEW flag, NEW need
    PROVE  LET rows == <<main>> \o (IF need THEN <<flag>> ELSE <<>>)
           IN  /\ IsSequence(rows) /\ Len(rows) = IF need THEN 2 ELSE 1
               /\ rows[1] = main
               /\ need => rows[2] = flag
<1> DEFINE rows == <<main>> \o (IF need THEN <<flag>> ELSE <<>>)
<1> HIDE DEF rows
<1>1. IsSequence(<<main>>) /\ Len(<<main>>) = 1 /\ <<main>>[1] = main
    BY OneSequence
<1>2. ASSUME NEW u, IsSequence(u)
      PROVE  LET s == <<main>> \o u
             IN  /\ IsSequence(s) /\ Len(s) = 1 + Len(u) /\ s[1] = main
                 /\ 1 \in 1..Len(u) => s[2] = u[1]
    <2>1. Len(u) \in Nat
        BY <1>2 DEF IsSequence
    <2>2. /\ IsSequence(<<main>> \o u)
          /\ Len(<<main>> \o u) = 1 + Len(u)
          /\ \A k \in 1..Len(<<main>> \o u) :
                (<<main>> \o u)[k] = IF k <= 1 THEN <<main>>[k] ELSE u[k - 1]
        BY <1>1, <1>2, ConcatSequence
    <2>3. (<<main>> \o u)[1] = main
        BY <1>1, <2>1, <2>2
    <2>4. ASSUME 1 \in 1..Len(u) PROVE (<<main>> \o u)[2] = u[1]
        <3>1. 2 \in Nat /\ 2 = Len(<<main>>) + 1
            BY <1>1
        <3> QED
            BY <1>1, <1>2, <2>4, <3>1, ConcatRight
    <2> QED
        BY <2>2, <2>3, <2>4
<1>3. CASE need
    <2>1. IsSequence(<<flag>>) /\ Len(<<flag>>) = 1 /\ <<flag>>[1] = flag
        BY OneSequence
    <2>2. 1 + Len(<<flag>>) = 2 /\ 1 \in 1..Len(<<flag>>)
        BY <2>1
    <2>3. rows = <<main>> \o <<flag>>
        BY <1>3 DEF rows
    <2>4. /\ IsSequence(rows) /\ Len(rows) = 1 + Len(<<flag>>)
          /\ rows[1] = main /\ rows[2] = <<flag>>[1]
        BY <1>2, <2>1, <2>2, <2>3, Zenon
    <2> QED
        BY <1>3, <2>1, <2>2, <2>4, Zenon DEF rows
<1>4. CASE ~need
    <2>1. rows = <<main>> \o <<>>
        BY <1>4 DEF rows
    <2>2. IsSequence(rows) /\ Len(rows) = 1 + Len(<<>>) /\ rows[1] = main
        BY <1>2, <2>1, EmptySequence, Zenon
    <2>3. 1 + Len(<<>>) = 1
        BY EmptySequence
    <2> QED
        BY <1>4, <2>2, <2>3, Zenon DEF rows
<1> QED
    BY <1>3, <1>4 DEF rows

LEMMA RowsSequence ==
    ASSUME NEW twrp, NEW r, NEW junk
    PROVE  /\ IsSequence(Rows(twrp, r, junk))
           /\ Len(Rows(twrp, r, junk)) = IF NeedsRemount(r) THEN 2 ELSE 1
<1> DEFINE so == Source_and_options(r, junk)
           main == file_write_fstabrec(twrp, so[1], r.mnt, r.fs, so[2],
                                       r.flags, r.more)
           flag == file_write_fstabrec(twrp, so[1], r.mnt, r.fs,
                                       <<"remount">> \o r.opts, {"wait"},
                                       r.more)
           rows == Rows(twrp, r, junk)
           need == NeedsRemount(r)
<1>1. rows = <<main>> \o (IF need THEN <<flag>> ELSE <<>>)
    BY DEF Rows
<1> HIDE DEF so, main, flag, rows, need
<1>2. IsSequence(rows) /\ Len(rows) = IF need THEN 2 ELSE 1
    BY <1>1, RowsJoined
<1> QED
    BY <1>2 DEF rows, need

\* A round of patch_fstab, as one of the table and the record it has come to.
LEMMA PatchFile ==
    ASSUME Shape, PatchRecord
    PROVE  LET t == tables[at[1]]
               old == IF at[2] = 1 THEN <<>> ELSE file[t.name]
           IN  /\ at[1] \in 1..Len(tables) /\ at[2] \in 1..Len(t.recs)
               /\ Len(tables) \in Nat /\ Len(t.recs) \in Nat \ {0}
               /\ TableFrom(t) /\ t.name \in DOMAIN file
               /\ IsSequence(old)
               /\ at' = IF at[2] = Len(t.recs) THEN <<at[1] + 1, 1>>
                        ELSE <<at[1], at[2] + 1>>
               /\ \E junk \in Junk :
                     \E n \in 0..Len(Rows(t.twrp, t.recs[at[2]], junk)) :
                        file' = [file EXCEPT ![t.name] =
                            old \o SubSeq(Rows(t.twrp, t.recs[at[2]], junk),
                                          1, n)]
<1> DEFINE t == tables[at[1]]
           old == IF at[2] = 1 THEN <<>> ELSE file[t.name]
<1>1. /\ at[1] \in 1..Len(tables) /\ at[1] \in Nat /\ at[2] \in Nat \ {0}
      /\ Len(tables) \in Nat /\ at[2] <= Len(t.recs)
    BY DEF PatchRecord, Shape, IsSequence
<1>2. TableFrom(t) /\ Len(t.recs) \in Nat \ {0}
    BY <1>1, TableLength DEF Shape
<1>3. t.name \in DOMAIN file /\ at[2] \in 1..Len(t.recs)
    BY <1>1, <1>2 DEF Shape, TableFrom
<1>4. IsSequence(old)
    BY <1>3, EmptySequence DEF Shape
<1>5. PICK junk \in Junk :
          LET rows == Rows(t.twrp, t.recs[at[2]], junk)
          IN  \E n \in IF "write" \in MayFail THEN 0..Len(rows)
                       ELSE {Len(rows)} :
                 file' = [file EXCEPT ![t.name] = old \o SubSeq(rows, 1, n)]
    BY DEF PatchRecord
<1> DEFINE rows == Rows(t.twrp, t.recs[at[2]], junk)
<1>6. Len(rows) \in Nat
    BY RowsSequence DEF IsSequence
<1>7. at' = IF at[2] = Len(t.recs) THEN <<at[1] + 1, 1>>
            ELSE <<at[1], at[2] + 1>>
    BY DEF PatchRecord
<1>8. \E n \in 0..Len(rows) :
          file' = [file EXCEPT ![t.name] = old \o SubSeq(rows, 1, n)]
    <2> HIDE DEF t, old
    <2>1. \A n \in IF "write" \in MayFail THEN 0..Len(rows) ELSE {Len(rows)} :
              n \in 0..Len(rows)
        BY <1>6
    <2> QED
        BY <1>5, <2>1
<1> HIDE DEF t, old
<1>9. \E j \in Junk : \E n \in 0..Len(Rows(t.twrp, t.recs[at[2]], j)) :
          file' = [file EXCEPT ![t.name] =
                      old \o SubSeq(Rows(t.twrp, t.recs[at[2]], j), 1, n)]
    BY <1>8, Zenon
<1> QED
    BY <1>1, <1>2, <1>3, <1>4, <1>7, <1>9, Zenon DEF t, old

LEMMA PatchShape ==
    ASSUME Shape, PatchRecord
    PROVE  Shape'
<1> DEFINE t == tables[at[1]]
           old == IF at[2] = 1 THEN <<>> ELSE file[t.name]
<1>1. UNCHANGED <<pc, mbfile, mb, tables>> /\ pc = "patch"
    BY DEF PatchRecord
<1>2. /\ at[1] \in 1..Len(tables) /\ at[2] \in 1..Len(t.recs)
      /\ Len(tables) \in Nat /\ Len(t.recs) \in Nat \ {0}
      /\ t.name \in DOMAIN file /\ IsSequence(old)
      /\ at' = IF at[2] = Len(t.recs) THEN <<at[1] + 1, 1>>
               ELSE <<at[1], at[2] + 1>>
    BY PatchFile
<1>3. PICK junk \in Junk, n \in Nat :
          /\ n \in 0..Len(Rows(t.twrp, t.recs[at[2]], junk))
          /\ file' = [file EXCEPT ![t.name] =
                 old \o SubSeq(Rows(t.twrp, t.recs[at[2]], junk), 1, n)]
    <2>1. \A junk : \A n \in 0..Len(Rows(t.twrp, t.recs[at[2]], junk)) : n \in Nat
        BY RowsSequence DEF IsSequence
    <2> HIDE DEF t, old
    <2> QED
        BY <2>1, PatchFile DEF t, old
<1> HIDE DEF old
<1>4. IsSequence(old \o SubSeq(Rows(t.twrp, t.recs[at[2]], junk), 1, n))
    BY <1>2, <1>3, RowsSequence, SubSequence, ConcatSequence
<1>5. DOMAIN file' = DOMAIN Content /\ \A f \in DOMAIN file' : IsSequence(file'[f])
    BY <1>2, <1>3, <1>4 DEF Shape
<1>6. \A i \in 1..Len(tables) : Len(tables[i].recs) \in Nat \ {0}
    BY TableLength DEF Shape
<1>7. /\ at' \in (Nat \ {0}) \X (Nat \ {0})
      /\ at'[1] \in 1..Len(tables) => at'[2] <= Len(tables[at'[1]].recs)
      /\ at'[2] # 1 => at'[1] \in 1..Len(tables)
    <2>1. CASE at[2] = Len(t.recs)
        <3>1. at' = <<at[1] + 1, 1>>
            BY <1>2, <2>1
        <3> QED
            BY <1>2, <1>6, <3>1
    <2>2. CASE at[2] # Len(t.recs)
        <3>1. at' = <<at[1], at[2] + 1>>
            BY <1>2, <2>2
        <3>2. at[2] + 1 <= Len(t.recs)
            BY <1>2, <2>2
        <3> QED
            BY <1>2, <3>1, <3>2
    <2> QED
        BY <2>1, <2>2
<1> QED
    BY <1>1, <1>5, <1>7 DEF Shape

LEMMA NextShape == IInv /\ Shape /\ [Next]_vars => Shape'
<1> SUFFICES ASSUME IInv, Shape, [Next]_vars
             PROVE  Shape'
    OBVIOUS
<1>1. CASE ImportParam
    BY <1>1, ShapeKept DEF ImportParam, disk
<1>2. CASE CmdlineEnds
    BY <1>2, ShapeKept DEF CmdlineEnds, disk
<1>3. ASSUME NEW d \in SysBlock, ReadUevent(d) PROVE Shape'
    BY <1>3, ShapeKept DEF ReadUevent, disk
<1>4. CASE EarlyInit
    BY <1>4, ShapeKept DEF EarlyInit, disk
<1>5. CASE LoadMultibootFstab
    BY <1>5, LoadShape
<1>6. ASSUME NEW e \in UNION RootDirs, AddFstab(e) PROVE Shape'
    BY <1>6, AddShape
<1>7. CASE PrepareFstab
    BY <1>7, PrepareShape
<1>8. CASE PatchRecord
    BY <1>8, PatchShape
<1>9. CASE PatchEnds
    BY <1>9, ShapeKept DEF PatchEnds, disk
<1>10. CASE UNCHANGED vars
    BY <1>10, ShapeKept DEF vars, disk
<1> QED
    BY <1>1, <1>2, <1>3, <1>4, <1>5, <1>6, <1>7, <1>8, <1>9, <1>10 DEF Next

-----------------------------------------------------------------------------
\* Two tables are of two files, and one is of none that is still to come.
NamesDiffer ==
    /\ \A e, f \in unlisted : e.name = f.name => e = f
    /\ \A t \in 1..Len(tables) : \A e \in unlisted : e.name # tables[t].name
    /\ \A s, t \in 1..Len(tables) : tables[s].name = tables[t].name => s = t

\* A record of a table of Android's has the path of its row, and once
\* prepare_fstab has translated it, that of the node.
PathsFrom ==
    \A t \in 1..Len(tables) : ~tables[t].twrp =>
        \A i \in 1..Len(tables[t].recs) :
            LET path == Content[tables[t].name][i][1]
                blk == tables[t].recs[i].blk
            IN  IF Prepared THEN \E junk \in Junk : blk = RealPath(path, junk)
                ELSE blk = path

FilesInv == NamesDiffer /\ PathsFrom

LEMMA InitFiles == Init => FilesInv
<1> SUFFICES ASSUME Init
             PROVE  FilesInv
    OBVIOUS
<1>1. Len(tables) = 0 /\ unlisted \in RootDirs
    BY EmptySequence DEF Init
<1>2. \A e, f \in unlisted : e.name = f.name => e = f
    BY <1>1, RootDirsAssumption
<1> QED
    BY <1>1, <1>2 DEF FilesInv, NamesDiffer, PathsFrom

\* A step that reads no table and translates none; setup's devices are known
\* before the first.
LEMMA FilesKept ==
    ASSUME FilesInv, UNCHANGED <<tables, unlisted>>,
           Prepared' <=> Prepared, Prepared => UNCHANGED info
    PROVE  FilesInv'
<1>1. NamesDiffer'
    BY DEF FilesInv, NamesDiffer
<1>2. PathsFrom'
    <2> SUFFICES ASSUME NEW t \in 1..Len(tables), ~tables[t].twrp,
                        NEW i \in 1..Len(tables[t].recs)
                 PROVE  LET path == Content[tables[t].name][i][1]
                            blk == tables[t].recs[i].blk
                        IN  IF Prepared'
                            THEN \E junk \in Junk : blk = RealPath(path, junk)'
                            ELSE blk = path
        BY DEF PathsFrom
    <2>1. CASE Prepared
        <3>1. UNCHANGED info
            BY <2>1
        <3> QED
            BY <2>1, <3>1 DEF FilesInv, PathsFrom, RealPath
    <2>2. CASE ~Prepared
        BY <2>2 DEF FilesInv, PathsFrom
    <2> QED
        BY <2>1, <2>2
<1> QED
    BY <1>1, <1>2 DEF FilesInv

LEMMA AddFiles ==
    ASSUME Shape, FilesInv, NEW e \in UNION RootDirs, AddFstab(e)
    PROVE  FilesInv'
<1>1. /\ pc = "fstabs" /\ pc' \in {"fstabs", "failed"} /\ UNCHANGED info
      /\ e \in unlisted /\ unlisted' = unlisted \ {e}
    BY DEF AddFstab
<1>2. ~Prepared /\ ~Prepared'
    BY <1>1 DEF Prepared
<1>3. CASE UNCHANGED tables
    BY <1>1, <1>2, <1>3 DEF FilesInv, NamesDiffer, PathsFrom
<1>4. CASE tables' # tables
    <2>1. IsFstab(e)
        BY <1>4 DEF AddFstab
    <2>2. e.name \in DOMAIN Content
        BY <2>1, ContentAssumption DEF IsFstab, FSTAB_RECOVERY
    <2>3. PICK twrp \in BOOLEAN :
              tables' = Append(tables,
                    [name |-> e.name, twrp |-> twrp,
                     recs |-> do_fs_mgr_read_fstab(Content[e.name], twrp)])
        BY <1>4 DEF AddFstab
    <2> DEFINE recs == do_fs_mgr_read_fstab(Content[e.name], twrp)
               new == [name |-> e.name, twrp |-> twrp, recs |-> recs]
    <2>4. new.name = e.name /\ new.twrp = twrp /\ new.recs = recs
        OBVIOUS
    <2>5. ASSUME ~twrp, NEW i \in 1..Len(recs)
          PROVE  recs[i].blk = Content[e.name][i][1]
        <3>1. Len(Content[e.name]) \in Nat
            BY <2>2, ContentAssumption DEF IsSequence
        <3>2. recs = [j \in 1..Len(Content[e.name]) |->
                         ParseAndroid(Content[e.name][j])]
            BY <2>5 DEF do_fs_mgr_read_fstab
        <3> HIDE DEF recs
        <3>3. Len(recs) = Len(Content[e.name])
            BY <3>1, <3>2
        <3>4. recs[i] = ParseAndroid(Content[e.name][i])
            BY <2>5, <3>2, <3>3
        <3> QED
            BY <3>4 DEF ParseAndroid, Parsed
    <2>6. tables' = Append(tables, new)
        BY <2>3
    <2> HIDE DEF new, recs
    <2>7. /\ Len(tables) \in Nat /\ Len(tables') = Len(tables) + 1
          /\ \A t \in 1..Len(tables) : tables'[t] = tables[t]
          /\ tables'[Len(tables) + 1] = new
        BY <2>6, AppendSequence DEF Shape
    <2>8. \A t \in 1..Len(tables') : t \in 1..Len(tables) \/ t = Len(tables) + 1
        BY <2>7
    <2>9. NamesDiffer'
        BY <1>1, <2>4, <2>7, <2>8 DEF FilesInv, NamesDiffer
    <2>10. PathsFrom'
        <3> SUFFICES ASSUME NEW t \in 1..Len(tables'), ~tables'[t].twrp,
                            NEW i \in 1..Len(tables'[t].recs)
                     PROVE  tables'[t].recs[i].blk
                                = Content[tables'[t].name][i][1]
            BY <1>2 DEF PathsFrom
        <3>1. CASE t \in 1..Len(tables)
            BY <1>2, <2>7, <3>1 DEF FilesInv, PathsFrom
        <3>2. CASE t = Len(tables) + 1
            BY <2>4, <2>5, <2>7, <3>2
        <3> QED
            BY <2>8, <3>1, <3>2
    <2> QED
        BY <2>9, <2>10 DEF FilesInv
<1> QED
    BY <1>3, <1>4

LEMMA PrepareFiles ==
    ASSUME Shape, FilesInv, PrepareFstab
    PROVE  FilesInv'
<1>1. pc = "fstabs" /\ pc' \in {"patch", "done"} /\ UNCHANGED <<info, unlisted>>
    BY DEF PrepareFstab
<1>2. ~Prepared /\ Prepared'
    BY <1>1 DEF Prepared
<1>3. PICK junk \in Junk :
          tables' = [t \in 1..Len(tables) |->
                [tables[t] EXCEPT !.recs =
                    [i \in 1..Len(tables[t].recs) |->
                        [tables[t].recs[i] EXCEPT
                            !.blk = RealPath(@, junk)]]]]
    BY DEF PrepareFstab
<1>4. Len(tables) \in Nat /\ Len(tables') = Len(tables)
    BY <1>3 DEF Shape, IsSequence
<1>5. ASSUME NEW t \in 1..Len(tables)
      PROVE  /\ tables'[t].name = tables[t].name
             /\ tables'[t].twrp = tables[t].twrp
             /\ Len(tables'[t].recs) = Len(tables[t].recs)
             /\ ~tables[t].twrp =>
                   \A i \in 1..Len(tables[t].recs) :
                       tables'[t].recs[i].blk
                           = RealPath(tables[t].recs[i].blk, junk)
    <2> DEFINE old == tables[t]
               new == tables'[t]
               move(r) == [r EXCEPT !.blk = RealPath(r.blk, junk)]
    <2>1. TableFrom(old) /\ Len(old.recs) \in Nat \ {0}
        BY TableLength DEF Shape
    <2>2. new = [old EXCEPT !.recs = [i \in 1..Len(old.recs) |->
                                         move(old.recs[i])]]
        BY <1>3
    <2> HIDE DEF old, new, move
    <2>3. /\ new.name = old.name /\ new.twrp = old.twrp
          /\ new.recs = [i \in 1..Len(old.recs) |-> move(old.recs[i])]
        BY <2>1, <2>2 DEF TableFrom
    <2>4. Len(new.recs) = Len(old.recs)
        BY <2>1, <2>3
    <2>5. ASSUME NEW i \in 1..Len(old.recs)
          PROVE  new.recs[i].blk = RealPath(old.recs[i].blk, junk)
        <3>1. new.recs[i] = move(old.recs[i])
            BY <2>3
        <3>2. "blk" \in DOMAIN old.recs[i]
            BY <2>1 DEF TableFrom, FromRow
        <3> QED
            BY <3>1, <3>2 DEF move
    <2> QED
        BY <2>3, <2>4, <2>5 DEF old, new
<1>6. NamesDiffer'
    BY <1>1, <1>4, <1>5 DEF FilesInv, NamesDiffer
<1>7. PathsFrom'
    <2> SUFFICES ASSUME NEW t \in 1..Len(tables), ~tables[t].twrp,
                        NEW i \in 1..Len(tables[t].recs)
                 PROVE  \E j \in Junk :
                            tables'[t].recs[i].blk =
                                RealPath(Content[tables[t].name][i][1], j)'
        BY <1>2, <1>4, <1>5 DEF PathsFrom
    <2>1. tables[t].recs[i].blk = Content[tables[t].name][i][1]
        BY <1>2 DEF FilesInv, PathsFrom
    <2>2. tables'[t].recs[i].blk = RealPath(Content[tables[t].name][i][1], junk)
        BY <1>5, <2>1
    <2>3. ASSUME NEW path, NEW j PROVE RealPath(path, j)' = RealPath(path, j)
        BY <1>1 DEF RealPath
    <2>4. tables'[t].name = tables[t].name
        BY <1>5
    <2> QED
        BY <2>2, <2>3, <2>4
<1> QED
    BY <1>6, <1>7 DEF FilesInv

LEMMA NextFiles == Shape /\ FilesInv /\ [Next]_vars => FilesInv'
<1> SUFFICES ASSUME Shape, FilesInv, [Next]_vars
             PROVE  FilesInv'
    OBVIOUS
<1>1. CASE ImportParam
    BY <1>1, FilesKept DEF ImportParam, Prepared
<1>2. CASE CmdlineEnds
    BY <1>2, FilesKept DEF CmdlineEnds, Prepared
<1>3. ASSUME NEW d \in SysBlock, ReadUevent(d) PROVE FilesInv'
    BY <1>3, FilesKept DEF ReadUevent, Prepared
<1>4. CASE EarlyInit
    BY <1>4, FilesKept DEF EarlyInit, Prepared
<1>5. CASE LoadMultibootFstab
    BY <1>5, FilesKept DEF LoadMultibootFstab, Prepared
<1>6. ASSUME NEW e \in UNION RootDirs, AddFstab(e) PROVE FilesInv'
    BY <1>6, AddFiles
<1>7. CASE PrepareFstab
    BY <1>7, PrepareFiles
<1>8. CASE PatchRecord
    BY <1>8, FilesKept DEF PatchRecord, Prepared
<1>9. CASE PatchEnds
    BY <1>9, FilesKept DEF PatchEnds, Prepared
<1>10. CASE UNCHANGED vars
    BY <1>10, FilesKept DEF vars, Prepared
<1> QED
    BY <1>1, <1>2, <1>3, <1>4, <1>5, <1>6, <1>7, <1>8, <1>9, <1>10 DEF Next

\* The tables of the guest, at every step.
LEMMA SpecTables == Spec => [](IInv /\ Shape /\ FilesInv)
<1>1. Init => Shape /\ FilesInv
    BY InitShape, InitFiles
<1>2. IInv /\ Shape /\ FilesInv /\ [Next]_vars => Shape' /\ FilesInv'
    BY NextShape, NextFiles
<1> QED
    BY <1>1, <1>2, SpecInv, PTL DEF Spec

-----------------------------------------------------------------------------
(***************************************************************************)
(* The tables keep the source partition writable                           *)
(***************************************************************************)
LEMMA NodeIsNoDirectory ==
    ASSUME NEW path, path.kind # "dir", NEW junk
    PROVE  RealPath(path, junk).kind # "dir"
<1>1. MmcPath(info[get_blockinfo_for_path(info, path, junk)].part).kind = "mmc"
    BY DEF MmcPath
<1> QED
    BY <1>1 DEF RealPath, uevent_realpath

LEMMA RowsHarmless ==
    ASSUME NEW main, NEW flag, NEW need, ~Harmful(main), need => ~Harmful(flag)
    PROVE  LET rows == <<main>> \o (IF need THEN <<flag>> ELSE <<>>)
           IN  /\ IsSequence(rows)
               /\ \A k \in 1..Len(rows) : ~Harmful(rows[k])
<1> DEFINE rows == <<main>> \o (IF need THEN <<flag>> ELSE <<>>)
<1>1. /\ IsSequence(rows) /\ Len(rows) = (IF need THEN 2 ELSE 1)
      /\ rows[1] = main
      /\ need => rows[2] = flag
    BY RowsJoined
<1> HIDE DEF rows
<1>2. CASE need
    <2>1. \A k \in 1..Len(rows) : k = 1 \/ k = 2
        BY <1>1, <1>2
    <2> QED
        BY <1>1, <1>2, <2>1 DEF rows
<1>3. CASE ~need
    <2>1. \A k \in 1..Len(rows) : k = 1
        BY <1>1, <1>3
    <2> QED
        BY <1>1, <2>1 DEF rows
<1> QED
    BY <1>2, <1>3

\* The first record that stands for a mount point.
LEMMA EntryFound ==
    ASSUME NEW recs, NEW path, Len(recs) \in Nat,
           fs_mgr_get_entry_for_mount_point(recs, path) # 0
    PROVE  LET i == fs_mgr_get_entry_for_mount_point(recs, path)
           IN  i \in 1..Len(recs) /\ Below(recs[i].mnt, path)
<1> DEFINE S == {i \in 1..Len(recs) : Below(recs[i].mnt, path)}
<1>1. S # {}
    BY DEF fs_mgr_get_entry_for_mount_point
<1>2. \E i \in S : \A j \in S : i <= j
    <2>1. S \subseteq Nat
        OBVIOUS
    <2> HIDE DEF S
    <2> QED
        BY <1>1, <2>1, LeastIndex
<1>3. fs_mgr_get_entry_for_mount_point(recs, path) =
          CHOOSE i \in S : \A j \in S : i <= j
    BY <1>1 DEF fs_mgr_get_entry_for_mount_point
<1>4. fs_mgr_get_entry_for_mount_point(recs, path) \in S
    <2> HIDE DEF S
    <2> QED
        BY <1>2, <1>3
<1> QED
    BY <1>4

\* The replacement of a guest's record is that of the mount point, or of a
\* directory above it.
LEMMA ReplacingRow ==
    ASSUME Shape, Prepared, NEW r, Replacing(r) # 0
    PROVE  LET i == Replacing(r) IN
           /\ i \in 1..Len(mbfile)
           /\ Below(mbfile[i][2], r.mnt)
           /\ mbfile[i][5] \cap MF_MULTIBOOT # {}
           /\ mb[i].bind <=> mbfile[i][3] \in BindType
           /\ mb[i].bind => mb[i].repl.kind = "dir"
           /\ ~mb[i].bind => mb[i].repl.kind = "loop"
<1> DEFINE i == fs_mgr_get_entry_for_mount_point(mb, r.mnt)
<1>1. i # 0 /\ Replacing(r) = i /\ fs_mgr_is_multiboot(mb[i])
    BY DEF Replacing
<1>2. Len(mb) = Len(mbfile) /\ Len(mb) \in Nat
    BY MbFilesAssumption DEF Shape, Prepared
<1>3. i \in 1..Len(mb) /\ Below(mb[i].mnt, r.mnt)
    BY <1>1, <1>2, EntryFound
<1>4. ReplacedAs(mb[i], mbfile[i])
    BY <1>3 DEF Shape, Prepared
<1> HIDE DEF i
<1> QED
    BY <1>1, <1>2, <1>3, <1>4 DEF ReplacedAs, fs_mgr_is_multiboot

\* A row of Android's columns.
LEMMA AndroidRowHarmless ==
    ASSUME NEW blk, NEW mnt, NEW fs, NEW opts, NEW flags,
           ~(Head(opts) = "remount" /\ SaysRo(opts) /\ blk.kind = "dir")
    PROVE  ~Harmful(<<blk, mnt, fs, opts, flags>>)
BY DEF Harmful

LEMMA RemountOptions ==
    ASSUME NEW opts, IsSequence(opts), ~SaysRo(opts)
    PROVE  /\ ~SaysRo(<<"remount">> \o opts)
           /\ Len(<<"remount">> \o opts) = Len(opts) + 1
<1>1. /\ IsSequence(<<"remount">>) /\ Len(<<"remount">>) = 1
      /\ <<"remount">>[1] = "remount"
    BY OneSequence
<1>2. /\ Len(<<"remount">> \o opts) = 1 + Len(opts)
      /\ \A i \in 1..1 + Len(opts) :
            (<<"remount">> \o opts)[i] =
                IF i <= 1 THEN "remount" ELSE opts[i - 1]
    <2>1. \A i \in 1..1 + Len(opts) : i <= 1 => i = 1
        BY DEF IsSequence
    <2> QED
        BY <1>1, <2>1, ConcatSequence DEF IsSequence
<1> HIDE DEF IsSequence
<1>3. Len(opts) \in Nat
    BY DEF IsSequence
<1> QED
    BY <1>2, <1>3 DEF SaysRo

LEMMA AndroidRows ==
    ASSUME GuestsWrite, Shape, FilesInv, pc = "patch", NEW t \in 1..Len(tables),
           NEW i \in 1..Len(tables[t].recs), NEW junk, ~tables[t].twrp
    PROVE  LET r == tables[t].recs[i]
               rows == Rows(FALSE, r, junk)
           IN  /\ IsSequence(rows)
               /\ \A k \in 1..Len(rows) : ~Harmful(rows[k])
<1> DEFINE r == tables[t].recs[i]
           f == tables[t].name
           row == Content[f][i]
           so == Source_and_options(r, junk)
           main == file_write_fstabrec(FALSE, so[1], r.mnt, r.fs, so[2],
                                       r.flags, r.more)
           flag == file_write_fstabrec(FALSE, so[1], r.mnt, r.fs,
                                       <<"remount">> \o r.opts, {"wait"},
                                       r.more)
<1>1. /\ f \in DOMAIN Content /\ Readable(Content[f], FALSE)
      /\ i \in 1..Len(Content[f])
      /\ r.mnt = row[2] /\ r.opts = row[4]
    BY DEF Shape, TableFrom, FromRow
<1>2. /\ ~Harmful(row) /\ row[1].kind # "dir"
      /\ SaysRo(row[4]) /\ row[2] # System =>
            \A F \in MbFiles : Readable(F, FALSE) =>
                \A j \in 1..Len(F) :
                    F[j][3] \in BindType /\ Below(F[j][2], row[2]) =>
                        F[j][5] \cap MF_MULTIBOOT = {}
    BY <1>1 DEF GuestsWrite
<1>9. r.blk.kind # "dir"
    <2>1. PICK j \in Junk : r.blk = RealPath(row[1], j)
        BY DEF FilesInv, PathsFrom, Prepared
    <2> QED
        BY <1>2, <2>1, NodeIsNoDirectory
<1>3. row[4] \in Seq(STRING) /\ IsSequence(row[4])
    <2>1. row[4] \in Seq(STRING)
        BY <1>1, ContentAssumption
    <2> QED
        BY <2>1, SeqSequence
<1>4. mbfile \in MbFiles /\ Readable(mbfile, FALSE)
    BY DEF Shape
<1> HIDE DEF r, f, row
<1>5. ~Harmful(main)
    <2>1. ~(Head(so[2]) = "remount" /\ so[1].kind = "dir")
        <3>1. CASE Replacing(r) # 0 /\ mb[Replacing(r)].bind
            <4>1. so[2] = <<"bind">>
                BY <3>1 DEF Source_and_options
            <4> QED
                BY <4>1
        <3>2. CASE Replacing(r) # 0 /\ ~mb[Replacing(r)].bind
            <4>1. so[1] = mb[Replacing(r)].repl
                BY <3>2 DEF Source_and_options
            <4>2. so[1].kind = "loop"
                BY <3>2, <4>1, ReplacingRow DEF Prepared
            <4> HIDE DEF so
            <4> QED
                BY <4>2
        <3>3. CASE Replacing(r) = 0 /\ OnGrubDevice(r, junk)
            <4>1. so[2] = <<"bind">>
                BY <3>3 DEF Source_and_options
            <4> QED
                BY <4>1
        <3>4. CASE Replacing(r) = 0 /\ ~OnGrubDevice(r, junk)
            <4>1. so[1] = r.blk
                BY <3>4 DEF Source_and_options
            <4> QED
                BY <1>9, <4>1
        <3> QED
            BY <3>1, <3>2, <3>3, <3>4
    <2>2. main = <<so[1], r.mnt, r.fs, so[2], r.flags>>
        BY DEF file_write_fstabrec
    <2> HIDE DEF so, main
    <2> QED
        BY <2>1, <2>2, AndroidRowHarmless
<1>6. ASSUME NeedsRemount(r) PROVE ~Harmful(flag)
    <2>1. /\ Replacing(r) # 0 /\ mb[Replacing(r)].bind
          /\ r.mnt # System
        BY <1>6 DEF NeedsRemount
    <2>2. /\ Replacing(r) \in 1..Len(mbfile)
          /\ Below(mbfile[Replacing(r)][2], r.mnt)
          /\ mbfile[Replacing(r)][5] \cap MF_MULTIBOOT # {}
          /\ mbfile[Replacing(r)][3] \in BindType
        BY <2>1, ReplacingRow DEF Prepared
    <2>3. ~SaysRo(row[4])
        BY <1>1, <1>2, <1>4, <2>1, <2>2
    <2>4. ~SaysRo(<<"remount">> \o r.opts)
        BY <1>1, <1>3, <2>3, RemountOptions
    <2>5. flag = <<so[1], r.mnt, r.fs, <<"remount">> \o r.opts, {"wait"}>>
        BY DEF file_write_fstabrec
    <2> HIDE DEF so, flag
    <2> QED
        BY <2>4, <2>5, AndroidRowHarmless
<1>7. Rows(FALSE, r, junk) =
          <<main>> \o (IF NeedsRemount(r) THEN <<flag>> ELSE <<>>)
    BY DEF Rows
<1> HIDE DEF main, flag, so
<1>8. QED
    BY <1>5, <1>6, <1>7, RowsHarmless DEF r

\* A row of TWRP's columns has its options, or what follows, in the column of
\* Android's options.
TwrpLine(mnt, fs, blk, opts, flags, more) ==
    <<mnt, fs, blk>> \o Column(opts, Defaults)
                     \o Column(flags, {"defaults"}) \o more

LEMMA TwrpColumns ==
    ASSUME NEW mnt, NEW fs, NEW blk, NEW opts, NEW flags, NEW more,
           IsSequence(more),
           NEW row, row = TwrpLine(mnt, fs, blk, opts, flags, more)
    PROVE  /\ IsSequence(row) /\ Len(row) >= 3
           /\ row[1] = mnt
           /\ opts # Defaults => row[4] = opts
           /\ opts = Defaults /\ flags = {"defaults"} =>
                 /\ Len(row) = 3 + Len(more)
                 /\ Len(row) > 3 => row[4] = more[1]
<1> DEFINE three == <<mnt, fs, blk>>
           c == Column(opts, Defaults)
           d == Column(flags, {"defaults"})
<1>1. IsSequence(three) /\ Len(three) = 3 /\ three[1] = mnt
    BY DEF IsSequence
<1>2. /\ IsSequence(c) /\ opts = Defaults => Len(c) = 0
      /\ IsSequence(c) /\ Len(c) \in Nat
      /\ opts # Defaults => Len(c) = 1 /\ c[1] = opts
    <2>1. CASE opts = Defaults
        BY <2>1, EmptySequence DEF Column
    <2>2. CASE opts # Defaults
        BY <2>2, OneSequence DEF Column
    <2> QED
        BY <2>1, <2>2
<1>3. /\ IsSequence(d) /\ Len(d) \in Nat
      /\ flags = {"defaults"} => Len(d) = 0
    <2>1. CASE flags = {"defaults"}
        BY <2>1, EmptySequence DEF Column
    <2>2. CASE flags # {"defaults"}
        BY <2>2, OneSequence DEF Column
    <2> QED
        BY <2>1, <2>2
<1>4. Len(more) \in Nat
    BY DEF IsSequence
<1> HIDE DEF three, c, d
<1>5. /\ IsSequence(three \o c) /\ Len(three \o c) = 3 + Len(c)
      /\ (three \o c)[1] = mnt
      /\ opts # Defaults => (three \o c)[4] = opts
    <2>1. /\ IsSequence(three \o c)
          /\ Len(three \o c) = Len(three) + Len(c)
          /\ \A i \in 1..Len(three \o c) :
                (three \o c)[i] = IF i <= Len(three) THEN three[i]
                                  ELSE c[i - Len(three)]
        BY <1>1, <1>2, ConcatSequence
    <2>2. (three \o c)[1] = mnt
        BY <1>1, <1>2, <2>1
    <2>4. opts # Defaults => (three \o c)[4] = opts
        <3> SUFFICES ASSUME opts # Defaults
                     PROVE  (three \o c)[4] = opts
            OBVIOUS
        <3>1. 1 \in 1..Len(c) /\ 4 \in Nat /\ 4 = Len(three) + 1
            BY <1>1, <1>2
        <3>2. IsSequence(three) /\ IsSequence(c) /\ c[1] = opts
            BY <1>1, <1>2
        <3>3. (three \o c)[4] = c[1]
            BY <3>1, <3>2, ConcatRight
        <3> QED
            BY <3>2, <3>3
    <2>5. Len(three \o c) = 3 + Len(c)
        BY <1>1, <2>1
    <2> QED
        BY <2>1, <2>2, <2>4, <2>5
<1>6. /\ IsSequence(three \o c \o d)
      /\ Len(three \o c \o d) = 3 + Len(c) + Len(d)
      /\ (three \o c \o d)[1] = mnt
      /\ opts # Defaults => (three \o c \o d)[4] = opts
    <2>1. /\ IsSequence(three \o c \o d)
          /\ Len(three \o c \o d) = 3 + Len(c) + Len(d)
          /\ \A i \in 1..3 + Len(c) + Len(d) :
                (three \o c \o d)[i] =
                    IF i <= 3 + Len(c) THEN (three \o c)[i]
                    ELSE d[i - (3 + Len(c))]
        BY <1>3, <1>5, ConcatSequence
    <2> QED
        BY <1>2, <1>3, <1>5, <2>1
<1>8. row = (three \o c \o d) \o more
    BY DEF TwrpLine, three, c, d
<1>7. /\ IsSequence(row)
      /\ Len(row) = 3 + Len(c) + Len(d) + Len(more)
      /\ \A i \in 1..3 + Len(c) + Len(d) + Len(more) :
            row[i] = IF i <= 3 + Len(c) + Len(d) THEN (three \o c \o d)[i]
                     ELSE more[i - (3 + Len(c) + Len(d))]
    <2> DEFINE front == three \o c \o d
    <2> HIDE DEF front
    <2>1. IsSequence(front) /\ Len(front) = 3 + Len(c) + Len(d)
        BY <1>6 DEF front
    <2>2. row = front \o more
        BY <1>8 DEF front
    <2>3. /\ IsSequence(front \o more)
          /\ Len(front \o more) = 3 + Len(c) + Len(d) + Len(more)
          /\ \A i \in 1..3 + Len(c) + Len(d) + Len(more) :
                (front \o more)[i] = IF i <= 3 + Len(c) + Len(d) THEN front[i]
                                     ELSE more[i - (3 + Len(c) + Len(d))]
        BY <2>1, ConcatSequence
    <2> QED
        BY <2>2, <2>3 DEF front
<1>9. row[1] = mnt /\ (opts # Defaults => row[4] = opts)
    BY <1>2, <1>3, <1>4, <1>6, <1>7
<1>10. ASSUME opts = Defaults, flags = {"defaults"}
       PROVE  /\ Len(row) = 3 + Len(more)
              /\ Len(row) > 3 => row[4] = more[1]
    <2>1. Len(c) = 0 /\ Len(d) = 0
        BY <1>2, <1>3, <1>10
    <2>2. Len(row) = 3 + Len(more)
        BY <1>4, <1>7, <2>1
    <2>3. Len(row) > 3 =>
              1 \in 1..Len(more) /\ 4 = Len(three \o c \o d) + 1
        BY <1>4, <1>6, <2>1, <2>2
    <2>4. Len(row) > 3 => ((three \o c \o d) \o more)[4] = more[1]
        <3> SUFFICES ASSUME Len(row) > 3
                     PROVE  ((three \o c \o d) \o more)[4] = more[1]
            OBVIOUS
        <3>1. /\ IsSequence(three \o c \o d) /\ 4 \in Nat
              /\ 1 \in 1..Len(more) /\ 4 = Len(three \o c \o d) + 1
            BY <1>6, <2>3
        <3> QED
            BY <3>1, ConcatRight
    <2> QED
        BY <1>8, <2>2, <2>4
<1>11. Len(row) >= 3
    BY <1>2, <1>3, <1>4, <1>7
<1> QED
    BY <1>7, <1>9, <1>10, <1>11, Zenon

LEMMA TwrpRows ==
    ASSUME GuestsWrite, Shape, NEW t \in 1..Len(tables),
           NEW i \in 1..Len(tables[t].recs), NEW junk, tables[t].twrp
    PROVE  LET r == tables[t].recs[i]
               rows == Rows(TRUE, r, junk)
           IN  /\ IsSequence(rows)
               /\ \A k \in 1..Len(rows) : ~Harmful(rows[k])
<1> DEFINE r == tables[t].recs[i]
           f == tables[t].name
           row == Content[f][i]
           so == Source_and_options(r, junk)
           main == TwrpLine(r.mnt, r.fs, so[1], so[2], r.flags, r.more)
           flag == TwrpLine(r.mnt, r.fs, so[1], <<"remount">> \o r.opts,
                            {"wait"}, r.more)
<1>1. /\ f \in DOMAIN Content /\ Readable(Content[f], TRUE)
      /\ i \in 1..Len(Content[f])
      /\ r.mnt = row[1] /\ r.opts = Defaults /\ r.flags = {"defaults"}
      /\ r.more = SubSeq(row, 4, Len(row))
    BY DEF Shape, TableFrom, FromRow
<1>2. ~Harmful(row)
    BY <1>1 DEF GuestsWrite
<1>3. IsSequence(row) /\ Len(row) \in Nat /\ Len(row) >= 3
    BY <1>1, ContentAssumption DEF IsSequence, Readable, Columns
<1> HIDE DEF r, f, row
<1>4. /\ IsSequence(r.more) /\ Len(r.more) = Len(row) - 3
      /\ Len(row) > 3 => r.more[1] = row[4]
    <2>1. /\ IsSequence(r.more)
          /\ Len(r.more) = IF 4 <= Len(row) THEN Len(row) - 4 + 1 ELSE 0
        <3>1. 4 \in Nat \ {0} /\ Len(row) \in 0..Len(row)
            BY <1>3
        <3>2. /\ IsSequence(SubSeq(row, 4, Len(row)))
              /\ Len(SubSeq(row, 4, Len(row))) =
                     IF 4 <= Len(row) THEN Len(row) - 4 + 1 ELSE 0
            BY <1>3, <3>1, SubSequence
        <3> QED
            BY <1>1, <3>2
    <2>2. Len(r.more) = Len(row) - 3
        <3>1. ASSUME NEW n \in Nat, n >= 3
              PROVE  (IF 4 <= n THEN n - 4 + 1 ELSE 0) = n - 3
            <4>1. CASE 4 <= n
                <5>1. n - 4 + 1 = n - 3
                    OBVIOUS
                <5> QED
                    BY <4>1, <5>1, Zenon
            <4>2. CASE ~(4 <= n)
                <5>1. 0 = n - 3
                    BY <3>1, <4>2
                <5> QED
                    BY <4>2, <5>1, Zenon
            <4> QED
                BY <4>1, <4>2
        <3> QED
            BY <1>3, <2>1, <3>1
    <2>6. Len(row) > 3 => r.more[1] = row[4]
        <3> SUFFICES ASSUME Len(row) > 3
                     PROVE  r.more[1] = row[4]
            OBVIOUS
        <3>1. IsSequence(row) /\ 4 \in Nat \ {0} /\ 4 <= Len(row)
            BY <1>3
        <3>2. SubSeq(row, 4, Len(row))[1] = row[4]
            BY <3>1, SubFirst
        <3> QED
            BY <1>1, <3>2
    <2> QED
        BY <2>1, <2>2, <2>6
<1>5. so[2] \in {<<"bind">>, Defaults}
    BY <1>1 DEF Source_and_options
<1> HIDE DEF so
<1>6. ~Harmful(main)
    <2>1. CASE so[2] = Defaults
        <3>1. /\ main[1] = r.mnt /\ Len(main) = 3 + Len(r.more)
              /\ Len(main) > 3 => main[4] = r.more[1]
            <4>1. main = TwrpLine(r.mnt, r.fs, so[1], so[2], r.flags, r.more)
                OBVIOUS
            <4>2. IsSequence(r.more) /\ r.flags = {"defaults"}
                BY <1>1, <1>4
            <4> HIDE DEF main
            <4> QED
                BY <2>1, <4>1, <4>2, TwrpColumns
        <3> HIDE DEF main
        <3>2. main[1] = row[1] /\ Len(main) = Len(row)
              /\ (Len(row) > 3 => main[4] = row[4])
            BY <1>1, <1>3, <1>4, <3>1
        <3> QED
            BY <1>2, <1>3, <3>2 DEF Harmful, Columns
    <2>2. CASE so[2] # Defaults
        <3>1. main[4] = so[2]
            <4>1. main = TwrpLine(r.mnt, r.fs, so[1], so[2], r.flags, r.more)
                OBVIOUS
            <4>2. IsSequence(r.more)
                BY <1>4
            <4> HIDE DEF main
            <4> QED
                BY <2>2, <4>1, <4>2, TwrpColumns
        <3> HIDE DEF main
        <3>2. so[2] = <<"bind">>
            BY <1>5, <2>2
        <3>3. Head(main[4]) = "bind"
            BY <3>1, <3>2
        <3> QED
            BY <3>3 DEF Harmful
    <2> QED
        BY <2>1, <2>2
<1>7. ~Harmful(flag)
    <2>1. IsSequence(Defaults) /\ ~SaysRo(Defaults) /\ Len(Defaults) = 1
        BY OneSequence DEF Defaults, SaysRo
    <2>2. /\ ~SaysRo(<<"remount">> \o r.opts)
          /\ Len(<<"remount">> \o r.opts) = Len(r.opts) + 1
        <3>1. IsSequence(r.opts) /\ ~SaysRo(r.opts)
            BY <1>1, <2>1
        <3> QED
            BY <3>1, RemountOptions, Zenon
    <2>3. <<"remount">> \o r.opts # Defaults
        BY <1>1, <2>1, <2>2
    <2>4. flag[4] = <<"remount">> \o r.opts
        <3> DEFINE opts == <<"remount">> \o r.opts
        <3>1. flag = TwrpLine(r.mnt, r.fs, so[1], opts, {"wait"}, r.more)
            OBVIOUS
        <3>2. IsSequence(r.more)
            BY <1>4
        <3>3. opts # Defaults
            BY <2>3
        <3> HIDE DEF flag, opts
        <3>4. flag[4] = opts
            BY <3>1, <3>2, <3>3, TwrpColumns
        <3> QED
            BY <3>4 DEF opts
    <2> HIDE DEF flag
    <2> QED
        BY <2>2, <2>4 DEF Harmful
<1>8. Rows(TRUE, r, junk) =
          <<main>> \o (IF NeedsRemount(r) THEN <<flag>> ELSE <<>>)
    BY DEF Rows, so, TwrpLine, file_write_fstabrec
<1> HIDE DEF main, flag
<1> QED
    BY <1>6, <1>7, <1>8, RowsHarmless DEF r

\* Writing harmless rows to a file leaves it without a harmful one.
LEMMA RowsWritten ==
    ASSUME NEW old, IsSequence(old), \A k \in 1..Len(old) : ~Harmful(old[k]),
           NEW rows, IsSequence(rows),
           \A k \in 1..Len(rows) : ~Harmful(rows[k]), NEW n \in 0..Len(rows)
    PROVE  LET new == old \o SubSeq(rows, 1, n)
           IN  IsSequence(new) /\ \A k \in 1..Len(new) : ~Harmful(new[k])
<1> DEFINE part == SubSeq(rows, 1, n)
<1>1. Len(rows) \in Nat /\ Len(old) \in Nat
    BY DEF IsSequence
<1>2. /\ IsSequence(part) /\ Len(part) = (IF 1 <= n THEN n - 1 + 1 ELSE 0)
      /\ \A i \in 1..Len(part) : part[i] = rows[1 + i - 1]
    BY SubSequence
<1> HIDE DEF part
<1>3. Len(part) = n
    BY <1>1, <1>2
<1>4. ASSUME NEW i \in 1..Len(part)
      PROVE  ~Harmful(part[i])
    <2>1. 1 + i - 1 = i /\ i \in 1..Len(rows)
        BY <1>1, <1>3
    <2>2. part[i] = rows[i]
        BY <1>2, <2>1
    <2> QED
        BY <2>1, <2>2
<1> DEFINE new == old \o part
<1>5. /\ IsSequence(new) /\ Len(new) = Len(old) + Len(part)
      /\ \A k \in 1..Len(new) :
            new[k] = IF k <= Len(old) THEN old[k] ELSE part[k - Len(old)]
    BY <1>2, ConcatSequence
<1> HIDE DEF new
<1>6. ASSUME NEW k \in 1..Len(new)
      PROVE  ~Harmful(new[k])
    <2>1. CASE k <= Len(old)
        BY <1>1, <1>5, <2>1
    <2>2. CASE ~(k <= Len(old))
        <3>1. k - Len(old) \in 1..Len(part)
            BY <1>1, <1>3, <1>5, <2>2
        <3>2. new[k] = part[k - Len(old)]
            BY <1>5, <2>2
        <3> QED
            BY <1>4, <3>1, <3>2
    <2> QED
        BY <2>1, <2>2
<1> QED
    BY <1>5, <1>6 DEF new, part

\* The files of the guest have no harmful row.
Harmless ==
    \A f \in DOMAIN file : \A k \in 1..Len(file[f]) : ~Harmful(file[f][k])

LEMMA PatchHarmless ==
    ASSUME GuestsWrite, Shape, FilesInv, Harmless, PatchRecord
    PROVE  Harmless'
<1> DEFINE t == tables[at[1]]
           old == IF at[2] = 1 THEN <<>> ELSE file[t.name]
<1>1. pc = "patch"
    BY DEF PatchRecord
<1>2. /\ at[1] \in 1..Len(tables) /\ at[2] \in 1..Len(t.recs)
      /\ t.twrp \in BOOLEAN /\ t.name \in DOMAIN file /\ IsSequence(old)
    BY PatchFile DEF TableFrom
<1>3. PICK junk \in Junk :
          \E n \in 0..Len(Rows(t.twrp, t.recs[at[2]], junk)) :
              file' = [file EXCEPT ![t.name] =
                  old \o SubSeq(Rows(t.twrp, t.recs[at[2]], junk), 1, n)]
    BY PatchFile
<1> DEFINE rows == Rows(t.twrp, t.recs[at[2]], junk)
<1>4. IsSequence(rows) /\ \A k \in 1..Len(rows) : ~Harmful(rows[k])
    <2>1. CASE t.twrp = TRUE
        BY <1>2, <2>1, TwrpRows
    <2>2. CASE t.twrp = FALSE
        BY <1>1, <1>2, <2>2, AndroidRows
    <2> QED
        BY <1>2, <2>1, <2>2
<1>5. \A k \in 1..Len(old) : ~Harmful(old[k])
    <2>1. CASE at[2] = 1
        BY <2>1, EmptySequence
    <2>2. CASE at[2] # 1
        BY <1>2, <2>2 DEF Harmless
    <2> QED
        BY <2>1, <2>2
<1>6. PICK n \in 0..Len(rows) :
          file' = [file EXCEPT ![t.name] = old \o SubSeq(rows, 1, n)]
    BY <1>3
<1> HIDE DEF old, rows
<1> DEFINE new == old \o SubSeq(rows, 1, n)
<1>7. \A k \in 1..Len(new) : ~Harmful(new[k])
    BY <1>2, <1>4, <1>5, RowsWritten
<1>8. file' = [file EXCEPT ![t.name] = new]
    BY <1>6
<1> HIDE DEF new
<1> QED
    BY <1>7, <1>8 DEF Harmless

LEMMA NextHarmless ==
    GuestsWrite /\ Shape /\ FilesInv /\ Harmless /\ [Next]_vars => Harmless'
<1> SUFFICES ASSUME GuestsWrite, Shape, FilesInv, Harmless, [Next]_vars
             PROVE  Harmless'
    OBVIOUS
<1>1. CASE PatchRecord
    BY <1>1, PatchHarmless
<1>2. ASSUME UNCHANGED file PROVE Harmless'
    BY <1>2 DEF Harmless
<1> QED
    BY <1>1, <1>2 DEF Next, ImportParam, CmdlineEnds, ReadUevent, EarlyInit,
       LoadMultibootFstab, AddFstab, PrepareFstab, PatchEnds, vars, disk

\* A guest that asks for ro only where nothing, or /system, is replaced by a
\* directory finds in no table that fstab_patcher has written, whole or with
\* lost rows, a remount of the replacement that makes the source partition
\* read-only: patch_fstab writes a remount row only with the guest's own
\* options, and none for /system.
THEOREM SourceAlwaysWritable ==
    ASSUME GuestsWrite
    PROVE  Spec => []SourceStaysWritable
<1>1. ASSUME Shape, Harmless PROVE SourceStaysWritable
    <2> SUFFICES ASSUME pc = "done", NEW t \in 1..Len(tables),
                        NEW i \in 1..Len(mb), mb[i].bind,
                        TurnsReadOnly(GuestTable(file[tables[t].name]),
                                      mb[i].repl)
                 PROVE  FALSE
        BY DEF SourceStaysWritable
    <2> DEFINE rows == file[tables[t].name]
               recs == GuestTable(rows)
    <2>1. tables[t].name \in DOMAIN file
        BY <1>1 DEF Shape, TableFrom
    <2>2. IsSequence(rows) /\ \A k \in 1..Len(rows) : ~Harmful(rows[k])
        BY <1>1, <2>1 DEF Shape, Harmless
    <2>3. ReplacedAs(mb[i], mbfile[i]) /\ mb[i].repl.kind = "dir"
        BY <1>1 DEF Shape, ReplacedAs
    <2> HIDE DEF rows
    <2>4. PICK k \in 1..Len(recs) :
              /\ Head(recs[k].opts) = "remount"
              /\ recs[k].blk = mb[i].repl
              /\ SaysRo(recs[k].opts)
        BY DEF TurnsReadOnly, IsRemount, rows
    <2>5. CASE ~Readable(rows, FALSE)
        <3>1. recs = <<>>
            BY <2>5 DEF GuestTable
        <3> QED
            BY <2>4, <3>1, EmptySequence
    <2>6. CASE Readable(rows, FALSE)
        <3>1. recs = [j \in 1..Len(rows) |-> ParseAndroid(rows[j])]
            BY <2>6 DEF GuestTable, do_fs_mgr_read_fstab
        <3>2. Len(rows) \in Nat
            BY <2>2 DEF IsSequence
        <3> HIDE DEF recs
        <3>3. Len(recs) = Len(rows)
            BY <3>1, <3>2
        <3>4. recs[k] = ParseAndroid(rows[k]) /\ k \in 1..Len(rows)
            BY <3>1, <3>3
        <3>5. recs[k].blk = rows[k][1] /\ recs[k].opts = rows[k][4]
            BY <3>4 DEF ParseAndroid, Parsed
        <3>6. Len(rows[k]) >= Columns(FALSE)
            BY <2>6, <3>4 DEF Readable
        <3>7. Harmful(rows[k])
            BY <2>3, <2>4, <3>5, <3>6 DEF Harmful
        <3> QED
            BY <2>2, <3>4, <3>7
    <2> QED
        BY <2>5, <2>6
<1>2. Init => Harmless
    BY DEF GuestsWrite, Init, Harmless
<1>3. Shape /\ FilesInv /\ Harmless /\ [Next]_vars => Harmless'
    BY NextHarmless
<1> QED
    BY <1>1, <1>2, <1>3, SpecTables, PTL DEF Spec

-----------------------------------------------------------------------------
(***************************************************************************)
(* A guest mounts what its tables ask for                                  *)
(***************************************************************************)
\* The parameters are those of a command line, and the device of the
\* bootloader is that of one.
Given ==
    /\ \A i \in 1..Len(params) :
          \E c \in Cmdlines : \E j \in 1..Len(c) : params[i] = c[j]
    /\ md.grubdev # Null =>
          \E c \in Cmdlines : \E j \in 1..Len(c) :
              /\ c[j].key = "multiboot.grubdir" /\ c[j].scans
              /\ md.grubdev = MmcPath(c[j].part)

\* Behind ep_early_init there is a source partition, and where the command
\* line names a partition of the bootloader, block_info has it.
Found ==
    pc \in {"mbfstab", "fstabs", "patch", "done"} =>
        /\ md.multiboot
        /\ HasGrub => /\ md.grubdev \in Nodes(info)
                      /\ grubinfo = get_blockinfo_for_path(info, md.grubdev,
                                                           Null)

LEMMA InitGiven == Init => Given
<1> SUFFICES ASSUME Init
             PROVE  Given
    OBVIOUS
<1>1. params \in Cmdlines /\ md.grubdev = Null
    BY DEF Init, NoParams
<1> QED
    BY <1>1 DEF Given

LEMMA ImportGiven ==
    ASSUME TInv, Given, ImportParam
    PROVE  Given'
<1>1. params # <<>> /\ params' = Tail(params)
    BY DEF ImportParam
<1>2. /\ Head(params) = params[1] /\ 1 \in 1..Len(params)
      /\ \A i \in 1..Len(params') :
            i + 1 \in 1..Len(params) /\ params'[i] = params[i + 1]
    BY <1>1, RestSequence DEF TInv
<1>3. \A i \in 1..Len(params') :
          \E c \in Cmdlines : \E j \in 1..Len(c) : params'[i] = c[j]
    BY <1>2 DEF Given
<1>4. "grubdev" \in DOMAIN md
    BY DEF TInv
<1>5. ASSUME md'.grubdev # Null
      PROVE  \E c \in Cmdlines : \E j \in 1..Len(c) :
                 /\ c[j].key = "multiboot.grubdir" /\ c[j].scans
                 /\ md'.grubdev = MmcPath(c[j].part)
    <2> DEFINE p == Head(params)
    <2>1. PICK c \in Cmdlines : \E j \in 1..Len(c) : p = c[j]
        BY <1>2 DEF Given
    <2>2. \/ /\ p.key = "multiboot.grubdir" /\ p.scans
             /\ md' = [md EXCEPT !.grubpath = p.dir,
                                 !.grubdev = MmcPath(p.part)]
          \/ md' = SourceSet(p)
          \/ md' = [md EXCEPT !.grubpath = Null]
          \/ md' = [md EXCEPT !.sndstage = p.val # 0]
          \/ UNCHANGED md
        BY DEF ImportParam
    <2> HIDE DEF p
    <2>3. CASE /\ p.key = "multiboot.grubdir" /\ p.scans
               /\ md' = [md EXCEPT !.grubpath = p.dir,
                                   !.grubdev = MmcPath(p.part)]
        <3>1. md'.grubdev = MmcPath(p.part)
            BY <1>4, <2>3
        <3> QED
            BY <2>1, <2>3, <3>1
    <2>4. CASE \/ md' = SourceSet(p)
               \/ md' = [md EXCEPT !.grubpath = Null]
               \/ md' = [md EXCEPT !.sndstage = p.val # 0]
               \/ UNCHANGED md
        <3>1. md'.grubdev = md.grubdev
            BY <1>4, <2>4 DEF SourceSet
        <3> QED
            BY <1>5, <3>1 DEF Given
    <2> QED
        BY <2>2, <2>3, <2>4
<1> QED
    BY <1>3, <1>5 DEF Given

LEMMA NextGiven == TInv /\ Given /\ [Next]_vars => Given'
<1> SUFFICES ASSUME TInv, Given, [Next]_vars
             PROVE  Given'
    OBVIOUS
<1>1. CASE ImportParam
    BY <1>1, ImportGiven
<1>2. ASSUME UNCHANGED <<params, md>> PROVE Given'
    BY <1>2 DEF Given
<1> QED
    BY <1>1, <1>2 DEF Next, CmdlineEnds, ReadUevent, EarlyInit,
       LoadMultibootFstab, AddFstab, PrepareFstab, PatchRecord, PatchEnds, vars

LEMMA EarlyFound ==
    ASSUME TInv, EarlyInit
    PROVE  Found'
<1>1. UNCHANGED <<md, info>>
    BY DEF EarlyInit
<1>2. CASE pc' = "failed"
    BY <1>2 DEF Found
<1>3. CASE pc' # "failed"
    <2>1. /\ HasGrub =>
                /\ grubinfo' = get_blockinfo_for_path(info, md.grubdev, Null)
                /\ md.grubdev \in Nodes(info)
          /\ md.dev \in Nodes(info)
        BY <1>3 DEF EarlyInit
    <2>2. PICK i \in 1..Len(info) : md.dev = info[i].devname
        BY <2>1 DEF Nodes
    <2>3. PICK d \in SysBlock : info[i] = add_uevent_entry(d)
        BY DEF TInv, TypeOK
    <2>4. info[i].devname = d.devname
        BY <2>3 DEF add_uevent_entry
    <2>5. md.dev # Null
        BY <2>2, <2>4, SysBlockAssumption
    <2>6. md.multiboot
        BY <2>5 DEF TInv, TypeOK
    <2> QED
        BY <1>1, <2>1, <2>6 DEF Found, HasGrub, Nodes
<1> QED
    BY <1>2, <1>3

LEMMA NextFound == TInv /\ Found /\ [Next]_vars => Found'
<1> SUFFICES ASSUME TInv, Found, [Next]_vars
             PROVE  Found'
    OBVIOUS
<1>1. CASE EarlyInit
    BY <1>1, EarlyFound
<1>2. CASE ImportParam
    BY <1>2 DEF ImportParam, Found
<1>3. CASE CmdlineEnds
    BY <1>3 DEF CmdlineEnds, Found
<1>4. ASSUME NEW d \in SysBlock, ReadUevent(d) PROVE Found'
    BY <1>4 DEF ReadUevent, Found
<1>5. ASSUME UNCHANGED <<md, info, grubinfo>>,
             pc' \in {"mbfstab", "fstabs", "patch", "done"} =>
                 pc \in {"mbfstab", "fstabs", "patch", "done"}
      PROVE  Found'
    BY <1>5 DEF Found, HasGrub, Nodes
<1>6. CASE LoadMultibootFstab
    BY <1>5, <1>6 DEF LoadMultibootFstab
<1>7. ASSUME NEW e \in UNION RootDirs, AddFstab(e) PROVE Found'
    BY <1>5, <1>7 DEF AddFstab
<1>8. CASE PrepareFstab
    BY <1>5, <1>8 DEF PrepareFstab
<1>9. CASE PatchRecord
    BY <1>5, <1>9 DEF PatchRecord
<1>10. CASE PatchEnds
    BY <1>5, <1>10 DEF PatchEnds
<1>11. CASE UNCHANGED vars
    BY <1>5, <1>11 DEF vars
<1> QED
    BY <1>1, <1>2, <1>3, <1>4, <1>6, <1>7, <1>8, <1>9, <1>10, <1>11 DEF Next

\* Row p of a file mounts the file system that stands for record r, and a row
\* of flags is right behind it where it needs one.
IsFlagRow(row, r) ==
    /\ NeedsRemount(r)
    /\ Len(row) = 5 /\ row[2] = r.mnt /\ row[4] = <<"remount">> \o r.opts

IsMainRow(row, r) ==
    /\ Len(row) = 5 /\ row[2] = r.mnt
    /\ \E junk \in Junk : /\ row[1] = Source_and_options(r, junk)[1]
                          /\ row[4] = Source_and_options(r, junk)[2]

MountsAt(rows, p, r) ==
    /\ IsMainRow(rows[p], r)
    /\ NeedsRemount(r) => p + 1 \in 1..Len(rows) /\ IsFlagRow(rows[p + 1], r)

\* The rows are those of the first n records.
Complete(recs, rows, n) ==
    /\ \A i \in 1..n : \E p \in 1..Len(rows) : MountsAt(rows, p, recs[i])
    /\ \A p \in 1..Len(rows) : \E i \in 1..n :
          MountsAt(rows, p, recs[i]) \/ IsFlagRow(rows[p], recs[i])

\* A file has at most the rows of the first n records, and if it has as many
\* rows, it has them.
Remounted(recs, n) == {i \in 1..n : NeedsRemount(recs[i])}

Written(recs, rows, n) ==
    /\ Len(rows) <= n + Cardinality(Remounted(recs, n))
    /\ Len(rows) = n + Cardinality(Remounted(recs, n)) =>
          Complete(recs, rows, n)

\* What patch_fstab has come to.
Patched ==
    /\ pc \notin {"patch", "done"} => at = <<1, 1>>
    /\ pc = "done" /\ mode # "recovery" => at[1] > Len(tables)
    /\ \A t \in 1..Len(tables) : ~tables[t].twrp =>
          LET recs == tables[t].recs
              rows == file[tables[t].name]
          IN  /\ t < at[1] => Written(recs, rows, Len(recs))
              /\ t = at[1] /\ at[2] > 1 => Written(recs, rows, at[2] - 1)

\* Steps that leave setup's records alone do not change what stands for a
\* record, nor what its rows look like.
LEMMA ReplacingKept ==
    ASSUME UNCHANGED <<md, mb, info, grubinfo>>, NEW r
    PROVE  /\ Replacing(r)' = Replacing(r)
           /\ NeedsRemount(r)' <=> NeedsRemount(r)
           /\ \A junk : OnGrubDevice(r, junk)' <=> OnGrubDevice(r, junk)
<1>1. Replacing(r)' = Replacing(r)
    BY DEF Replacing
<1>2. NeedsRemount(r)' <=> NeedsRemount(r)
    BY <1>1 DEF NeedsRemount
<1>3. \A junk : OnGrubDevice(r, junk)' <=> OnGrubDevice(r, junk)
    BY DEF OnGrubDevice, HasGrub
<1> QED
    BY <1>1, <1>2, <1>3

LEMMA SourceKept ==
    ASSUME UNCHANGED <<md, mb, info, grubinfo>>, NEW r, NEW junk
    PROVE  Source_and_options(r, junk)' = Source_and_options(r, junk)
<1>1. /\ Replacing(r)' = Replacing(r)
      /\ OnGrubDevice(r, junk)' <=> OnGrubDevice(r, junk)
    BY ReplacingKept
<1> QED
    BY <1>1 DEF Source_and_options

LEMMA MountsAtKept ==
    ASSUME UNCHANGED <<md, mb, info, grubinfo>>, NEW r
    PROVE  /\ \A row : IsFlagRow(row, r)' <=> IsFlagRow(row, r)
           /\ \A row : IsMainRow(row, r)' <=> IsMainRow(row, r)
           /\ \A rows, p : MountsAt(rows, p, r)' <=> MountsAt(rows, p, r)
<1>1. NeedsRemount(r)' <=> NeedsRemount(r)
    BY ReplacingKept
<1>2. \A row : IsFlagRow(row, r)' <=> IsFlagRow(row, r)
    BY <1>1 DEF IsFlagRow
<1>3. \A junk : Source_and_options(r, junk)' = Source_and_options(r, junk)
    BY SourceKept
<1>4. \A row : IsMainRow(row, r)' <=> IsMainRow(row, r)
    BY <1>3 DEF IsMainRow
<1>5. \A rows, p : MountsAt(rows, p, r)' <=> MountsAt(rows, p, r)
    BY <1>1, <1>2, <1>4 DEF MountsAt
<1> QED
    BY <1>2, <1>4, <1>5

LEMMA WrittenKept ==
    ASSUME UNCHANGED <<md, mb, info, grubinfo>>, NEW recs, NEW rows, NEW n
    PROVE  Written(recs, rows, n)' <=> Written(recs, rows, n)
<1>1. \A r : NeedsRemount(r)' <=> NeedsRemount(r)
    BY ReplacingKept
<1>2. Remounted(recs, n)' = Remounted(recs, n)
    BY <1>1 DEF Remounted
<1>3. \A r : /\ \A row : IsFlagRow(row, r)' <=> IsFlagRow(row, r)
             /\ \A p : MountsAt(rows, p, r)' <=> MountsAt(rows, p, r)
    BY MountsAtKept
<1>4. Complete(recs, rows, n)' <=> Complete(recs, rows, n)
    BY <1>3 DEF Complete
<1> QED
    BY <1>2, <1>4 DEF Written

LEMMA RemountedGrows ==
    ASSUME NEW recs, NEW n \in Nat
    PROVE  /\ Cardinality(Remounted(recs, n)) \in Nat
           /\ Cardinality(Remounted(recs, 0)) = 0
           /\ Cardinality(Remounted(recs, n + 1)) =
                 Cardinality(Remounted(recs, n))
                     + (IF NeedsRemount(recs[n + 1]) THEN 1 ELSE 0)
<1> DEFINE S == Remounted(recs, n)
<1>1. IsFiniteSet(S)
    <2>1. IsFiniteSet(1..n)
        BY FS_Interval
    <2>2. S \in SUBSET (1..n)
        BY DEF Remounted
    <2> QED
        BY <2>1, <2>2, FS_Subset
<1>2. Cardinality(S) \in Nat
    BY <1>1, FS_CardinalityType
<1>3. Remounted(recs, 0) = {}
    BY DEF Remounted
<1>4. CASE NeedsRemount(recs[n + 1])
    <2>1. Remounted(recs, n + 1) = S \cup {n + 1} /\ n + 1 \notin S
        BY <1>4 DEF Remounted
    <2>2. Cardinality(S \cup {n + 1}) = Cardinality(S) + 1
        <3> HIDE DEF S
        <3> QED
            BY <1>1, <2>1, FS_AddElement
    <2> QED
        BY <1>2, <1>3, <1>4, <2>1, <2>2, FS_EmptySet
<1>5. CASE ~NeedsRemount(recs[n + 1])
    <2>1. Remounted(recs, n + 1) = S
        BY <1>5 DEF Remounted
    <2> QED
        BY <1>2, <1>3, <1>5, <2>1, FS_EmptySet
<1> QED
    BY <1>4, <1>5

LEMMA NothingWritten ==
    ASSUME NEW recs
    PROVE  Written(recs, <<>>, 0)
<1>1. Cardinality(Remounted(recs, 0)) = 0
    BY RemountedGrows
<1>2. Len(<<>>) = 0
    BY EmptySequence
<1>3. Complete(recs, <<>>, 0)
    BY <1>2 DEF Complete
<1> QED
    BY <1>1, <1>2, <1>3 DEF Written

\* The rows that patch_fstab writes for a record of a table of Android's.
LEMMA RowsMount ==
    ASSUME NEW r, NEW junk \in Junk
    PROVE  LET rows == Rows(FALSE, r, junk)
           IN  /\ IsMainRow(rows[1], r)
               /\ NeedsRemount(r) => IsFlagRow(rows[2], r)
<1> DEFINE so == Source_and_options(r, junk)
           main == file_write_fstabrec(FALSE, so[1], r.mnt, r.fs, so[2],
                                       r.flags, r.more)
           flag == file_write_fstabrec(FALSE, so[1], r.mnt, r.fs,
                                       <<"remount">> \o r.opts, {"wait"},
                                       r.more)
           rows == Rows(FALSE, r, junk)
           need == NeedsRemount(r)
<1>1. rows = <<main>> \o (IF need THEN <<flag>> ELSE <<>>)
    BY DEF Rows
<1>2. /\ Len(main) = 5 /\ main[1] = so[1] /\ main[2] = r.mnt
      /\ main[4] = so[2]
    <2> HIDE DEF so
    <2> QED
        BY DEF file_write_fstabrec
<1>3. /\ Len(flag) = 5 /\ flag[2] = r.mnt
      /\ flag[4] = <<"remount">> \o r.opts
    <2> HIDE DEF so
    <2> QED
        BY DEF file_write_fstabrec
<1>4. IsMainRow(main, r)
    <2> HIDE DEF main
    <2> QED
        BY <1>2 DEF IsMainRow
<1>5. NeedsRemount(r) => IsFlagRow(flag, r)
    <2> HIDE DEF flag
    <2> QED
        BY <1>3 DEF IsFlagRow
<1> HIDE DEF so, main, flag, rows, need
<1>6. rows[1] = main /\ (need => rows[2] = flag)
    BY <1>1, RowsJoined
<1> QED
    BY <1>4, <1>5, <1>6 DEF rows, need

\* The rows of one more record, or some of them, behind those of the first n.
LEMMA RowsAdded ==
    ASSUME NEW recs, NEW n \in Nat, NEW old, IsSequence(old),
           Complete(recs, old, n),
           NEW rows, IsSequence(rows), IsMainRow(rows[1], recs[n + 1]),
           Len(rows) = IF NeedsRemount(recs[n + 1]) THEN 2 ELSE 1,
           NeedsRemount(recs[n + 1]) => IsFlagRow(rows[2], recs[n + 1])
    PROVE  Complete(recs, old \o rows, n + 1)
<1> DEFINE new == old \o rows
           r == recs[n + 1]
           m == Len(old)
<1>1. m \in Nat /\ Len(rows) \in {1, 2}
    BY DEF IsSequence
<1>2. /\ IsSequence(new) /\ Len(new) = m + Len(rows)
      /\ \A k \in 1..m : new[k] = old[k]
    <2>1. /\ IsSequence(new) /\ Len(new) = Len(old) + Len(rows)
          /\ \A k \in 1..Len(new) :
                new[k] = IF k <= Len(old) THEN old[k] ELSE rows[k - Len(old)]
        BY ConcatSequence
    <2> HIDE DEF new
    <2> QED
        BY <1>1, <2>1
<1>3. new[m + 1] = rows[1]
    <2>1. 1 \in 1..Len(rows) /\ m + 1 \in Nat /\ m + 1 = Len(old) + 1
        BY <1>1
    <2>2. IsSequence(old) /\ IsSequence(rows)
        OBVIOUS
    <2> HIDE DEF m
    <2> QED
        BY <2>1, <2>2, ConcatRight
<1>4. ASSUME NeedsRemount(r)
      PROVE  Len(rows) = 2 /\ new[m + 2] = rows[2]
    <2>1. Len(rows) = 2
        BY <1>4
    <2>2. 2 \in 1..Len(rows) /\ m + 2 \in Nat /\ m + 2 = Len(old) + 2
        BY <1>1, <2>1
    <2>3. IsSequence(old) /\ IsSequence(rows)
        OBVIOUS
    <2> HIDE DEF m
    <2>4. (old \o rows)[m + 2] = rows[2]
        BY <2>2, <2>3, ConcatRight
    <2> QED
        BY <2>1, <2>4
<1>5. m + 1 \in 1..Len(new)
    BY <1>1, <1>2
<1> HIDE DEF new, r
<1>6. MountsAt(new, m + 1, r)
    <2>1. IsMainRow(new[m + 1], r)
        BY <1>3 DEF r
    <2>2. ASSUME NeedsRemount(r)
          PROVE  m + 1 + 1 \in 1..Len(new) /\ IsFlagRow(new[m + 1 + 1], r)
        <3>1. m + 1 + 1 = m + 2 /\ m + 2 \in 1..Len(new)
            BY <1>1, <1>2, <1>4, <2>2
        <3>2. IsFlagRow(new[m + 2], r)
            BY <1>4, <2>2 DEF r
        <3> QED
            BY <3>1, <3>2
    <2> QED
        BY <2>1, <2>2 DEF MountsAt
<1>7. ASSUME NEW i \in 1..n, NEW p \in 1..m, MountsAt(old, p, recs[i])
      PROVE  MountsAt(new, p, recs[i])
    <2>1. IsMainRow(new[p], recs[i])
        BY <1>2, <1>7 DEF MountsAt
    <2>2. ASSUME NeedsRemount(recs[i])
          PROVE  p + 1 \in 1..Len(new) /\ IsFlagRow(new[p + 1], recs[i])
        <3>1. p + 1 \in 1..m /\ IsFlagRow(old[p + 1], recs[i])
            BY <1>7, <2>2 DEF MountsAt
        <3>2. p + 1 \in 1..Len(new)
            BY <1>1, <1>2, <3>1
        <3> QED
            BY <1>2, <3>1, <3>2
    <2> QED
        BY <2>1, <2>2 DEF MountsAt
<1>8. \A i \in 1..n + 1 : i \in 1..n \/ i = n + 1
    OBVIOUS
<1>9. ASSUME NEW i \in 1..n + 1
      PROVE  \E p \in 1..Len(new) : MountsAt(new, p, recs[i])
    <2>1. CASE i \in 1..n
        <3>1. PICK p \in 1..m : MountsAt(old, p, recs[i])
            BY <2>1 DEF Complete
        <3>2. p \in 1..Len(new)
            BY <1>1, <1>2
        <3> QED
            BY <1>7, <2>1, <3>1, <3>2
    <2>2. CASE i = n + 1
        BY <1>5, <1>6, <2>2 DEF r
    <2> QED
        BY <1>8, <2>1, <2>2
<1>10. ASSUME NEW p \in 1..Len(new)
       PROVE  \E i \in 1..n + 1 :
                 MountsAt(new, p, recs[i]) \/ IsFlagRow(new[p], recs[i])
    <2>1. CASE p \in 1..m
        <3>1. PICK i \in 1..n :
                  MountsAt(old, p, recs[i]) \/ IsFlagRow(old[p], recs[i])
            BY <2>1 DEF Complete
        <3>2. MountsAt(new, p, recs[i]) \/ IsFlagRow(new[p], recs[i])
            BY <1>2, <1>7, <2>1, <3>1
        <3>3. i \in 1..n + 1
            OBVIOUS
        <3> QED
            BY <3>2, <3>3
    <2>2. CASE p \notin 1..m
        <3>1. n + 1 \in 1..n + 1
            OBVIOUS
        <3>2. p = m + 1 \/ (p = m + 2 /\ Len(rows) = 2)
            BY <1>1, <1>2, <2>2
        <3>3. CASE p = m + 1
            BY <1>6, <3>1, <3>3 DEF r
        <3>4. CASE p = m + 2 /\ Len(rows) = 2
            <4>1. NeedsRemount(r)
                BY <3>4 DEF r
            <4>2. IsFlagRow(new[p], r)
                BY <1>4, <3>4, <4>1 DEF r
            <4> QED
                BY <3>1, <4>2 DEF r
        <3> QED
            BY <3>2, <3>3, <3>4
    <2> QED
        BY <2>1, <2>2
<1> QED
    BY <1>9, <1>10 DEF Complete, new

LEMMA WriteMore ==
    ASSUME NEW recs, NEW n \in Nat, NEW old, IsSequence(old),
           Written(recs, old, n), NEW junk \in Junk,
           NEW k \in 0..Len(Rows(FALSE, recs[n + 1], junk))
    PROVE  Written(recs, old \o SubSeq(Rows(FALSE, recs[n + 1], junk), 1, k),
                   n + 1)
<1> DEFINE rows == Rows(FALSE, recs[n + 1], junk)
           need == NeedsRemount(recs[n + 1])
           part == SubSeq(rows, 1, k)
           card == Cardinality(Remounted(recs, n))
           more == Cardinality(Remounted(recs, n + 1))
<1>1. IsSequence(rows) /\ Len(rows) = IF need THEN 2 ELSE 1
    BY RowsSequence
<1>2. IsMainRow(rows[1], recs[n + 1]) /\ (need => IsFlagRow(rows[2], recs[n + 1]))
    BY RowsMount
<1>3. card \in Nat /\ more = card + (IF need THEN 1 ELSE 0)
    BY RemountedGrows
<1>4. k \in 0..Len(rows)
    OBVIOUS
<1>5. Written(recs, old, n)
    OBVIOUS
<1> HIDE DEF rows, need
<1>6. Len(rows) \in {1, 2} /\ k \in Nat /\ Len(old) \in Nat
    BY <1>1, <1>4 DEF IsSequence
<1>7. IsSequence(part) /\ Len(part) = k
    <2>1. IsSequence(part) /\ Len(part) = IF 1 <= k THEN k - 1 + 1 ELSE 0
        <3>1. 1 \in Nat \ {0}
            OBVIOUS
        <3> QED
            BY <1>1, <1>4, <3>1, SubSequence
    <2> HIDE DEF part
    <2> QED
        BY <1>6, <2>1
<1>8. Len(old \o part) = Len(old) + k
    <2> HIDE DEF part
    <2> QED
        BY <1>7, ConcatSequence
<1>9. /\ Len(old) <= n + card
      /\ Len(old) = n + card => Complete(recs, old, n)
    BY <1>5 DEF Written
<1>10. n + 1 + more = n + card + Len(rows)
    <2>1. CASE need
        BY <1>1, <1>3, <2>1
    <2>2. CASE ~need
        BY <1>1, <1>3, <2>2
    <2> QED
        BY <2>1, <2>2
<1> HIDE DEF card, more
<1>11. Len(old \o part) <= n + 1 + more
    BY <1>3, <1>4, <1>6, <1>8, <1>9, <1>10 DEF card
<1>12. ASSUME Len(old \o part) = n + 1 + more
       PROVE  Complete(recs, old \o part, n + 1)
    <2>1. Len(old) = n + card /\ k = Len(rows)
        BY <1>3, <1>4, <1>6, <1>8, <1>9, <1>10, <1>12 DEF card
    <2>2. part = rows
        <3>1. \A i \in 1..Len(part) : part[i] = rows[1 + i - 1]
            BY <1>1, <1>4, SubSequence
        <3>2. Len(part) = Len(rows)
            BY <1>7, <2>1
        <3> HIDE DEF part
        <3>3. \A i \in 1..Len(part) : 1 + i - 1 = i
            BY <1>6, <3>2
        <3>4. \A i \in 1..Len(part) : part[i] = rows[i]
            BY <3>1, <3>3
        <3> QED
            BY <1>1, <1>7, <3>2, <3>4 DEF IsSequence
    <2> HIDE DEF part
    <2>3. Complete(recs, old, n)
        BY <1>9, <2>1
    <2>4. Complete(recs, old \o rows, n + 1)
        BY <1>1, <1>2, <2>3, RowsAdded DEF need
    <2> QED
        BY <2>2, <2>4
<1> QED
    BY <1>11, <1>12 DEF Written, part, rows, more

LEMMA PatchPatched ==
    ASSUME IInv, Shape, FilesInv, Patched, PatchRecord
    PROVE  Patched'
<1> DEFINE a == at[1]
           b == at[2]
           now == tables[a]
           old == IF b = 1 THEN <<>> ELSE file[now.name]
<1>1. /\ pc = "patch" /\ UNCHANGED <<pc, mode, md, mb, info, grubinfo, tables>>
    BY DEF PatchRecord
<1>2. /\ a \in 1..Len(tables) /\ b \in 1..Len(now.recs)
      /\ Len(tables) \in Nat /\ Len(now.recs) \in Nat \ {0}
      /\ now.name \in DOMAIN file /\ IsSequence(old)
      /\ at' = IF b = Len(now.recs) THEN <<a + 1, 1>> ELSE <<a, b + 1>>
    BY PatchFile
<1>3. PICK junk \in Junk :
          \E n \in 0..Len(Rows(now.twrp, now.recs[b], junk)) :
              file' = [file EXCEPT ![now.name] =
                  old \o SubSeq(Rows(now.twrp, now.recs[b], junk), 1, n)]
    BY PatchFile
<1>4. PICK n \in 0..Len(Rows(now.twrp, now.recs[b], junk)) :
          file' = [file EXCEPT ![now.name] =
              old \o SubSeq(Rows(now.twrp, now.recs[b], junk), 1, n)]
    BY <1>3
<1>5. ASSUME ~now.twrp
      PROVE  Written(now.recs, file'[now.name], b)
    <2>1. now.twrp = FALSE
        BY <1>2, <1>5 DEF Shape, TableFrom
    <2>2. b - 1 \in Nat /\ b - 1 + 1 = b
        <3>1. b \in Nat \ {0}
            BY DEF Shape
        <3> HIDE DEF b
        <3> QED
            BY <3>1
    <2>3. Written(now.recs, old, b - 1)
        <3>1. CASE b = 1
            <4>1. old = <<>> /\ b - 1 = 0
                BY <3>1
            <4> HIDE DEF old, b, now
            <4> QED
                BY <4>1, NothingWritten
        <3>2. CASE b # 1
            <4>1. b > 1 /\ old = file[now.name]
                BY <1>2, <3>2
            <4> QED
                BY <1>2, <1>5, <4>1 DEF Patched
        <3> QED
            BY <3>1, <3>2
    <2>4. file'[now.name] = old \o SubSeq(Rows(FALSE, now.recs[b], junk), 1, n)
        BY <1>2, <1>4, <2>1
    <2>5. n \in 0..Len(Rows(FALSE, now.recs[b - 1 + 1], junk))
        BY <2>1, <2>2
    <2> HIDE DEF old, now, b
    <2>6. Written(now.recs,
                  old \o SubSeq(Rows(FALSE, now.recs[b - 1 + 1], junk), 1, n),
                  b - 1 + 1)
        BY <1>2, <2>2, <2>3, <2>5, WriteMore
    <2> QED
        BY <2>2, <2>4, <2>6
<1>6. ASSUME NEW t \in 1..Len(tables), t # a
      PROVE  file'[tables[t].name] = file[tables[t].name]
    <2>1. tables[t].name # now.name
        BY <1>2, <1>6 DEF FilesInv, NamesDiffer
    <2>2. tables[t].name \in DOMAIN file
        BY DEF Shape, TableFrom
    <2> HIDE DEF now, old
    <2> QED
        BY <1>4, <2>1, <2>2
<1>7. ASSUME NEW t \in 1..Len(tables), ~tables[t].twrp
      PROVE  LET recs == tables[t].recs
                 rows == file'[tables[t].name]
             IN  /\ t < at'[1] => Written(recs, rows, Len(recs))
                 /\ t = at'[1] /\ at'[2] > 1 => Written(recs, rows, at'[2] - 1)
    <2>1. CASE t = a
        <3>1. Written(now.recs, file'[now.name], b)
            BY <1>5, <1>7, <2>1
        <3> HIDE DEF old
        <3>2. CASE b = Len(now.recs)
            <4>1. at'[1] = a + 1
                BY <1>2, <3>2
            <4>2. ~(t = at'[1])
                BY <1>2, <2>1, <4>1
            <4> QED
                BY <2>1, <3>1, <3>2, <4>2
        <3>3. CASE b # Len(now.recs)
            <4>1. at'[1] = a /\ at'[2] = b + 1
                BY <1>2, <3>3
            <4>2. ~(t < at'[1]) /\ at'[2] - 1 = b
                BY <1>2, <2>1, <4>1
            <4> QED
                BY <2>1, <3>1, <4>2
        <3> QED
            BY <3>2, <3>3
    <2>2. CASE t # a
        <3>1. file'[tables[t].name] = file[tables[t].name]
            BY <1>6, <2>2
        <3> HIDE DEF old
        <3>2. t < at'[1] => t < a
            BY <1>2, <2>2
        <3>3. ~(t = at'[1] /\ at'[2] > 1)
            BY <1>2, <2>2
        <3> QED
            BY <1>7, <3>1, <3>2, <3>3 DEF Patched
    <2> QED
        BY <2>1, <2>2
<1>8. \A recs, rows, m : Written(recs, rows, m)' <=> Written(recs, rows, m)
    BY <1>1, WrittenKept
<1> HIDE DEF a, b, now, old
<1> QED
    BY <1>1, <1>7, <1>8 DEF Patched

LEMMA NextPatched ==
    IInv /\ Shape /\ FilesInv /\ Patched /\ [Next]_vars => Patched'
<1> SUFFICES ASSUME IInv, Shape, FilesInv, Patched, [Next]_vars
             PROVE  Patched'
    OBVIOUS
<1>1. ASSUME pc \notin {"patch", "done"}, UNCHANGED at,
             pc' = "done" => mode' = "recovery"
      PROVE  Patched'
    <2>1. at' = <<1, 1>>
        BY <1>1 DEF Patched
    <2>2. at'[1] = 1 /\ at'[2] = 1
        BY <2>1
    <2> QED
        BY <1>1, <2>1, <2>2 DEF Patched
<1>2. ASSUME UNCHANGED <<mode, md, mb, info, grubinfo, tables, at, file>>,
             pc' = "done" => pc = "done" \/ at[1] > Len(tables),
             pc' \notin {"patch", "done"} => pc \notin {"patch", "done"}
      PROVE  Patched'
    <2>1. \A recs, rows, n : Written(recs, rows, n)' <=> Written(recs, rows, n)
        BY <1>2, WrittenKept
    <2> QED
        BY <1>2, <2>1 DEF Patched
<1>3. CASE ImportParam
    BY <1>1, <1>3 DEF ImportParam
<1>4. CASE CmdlineEnds
    BY <1>1, <1>4 DEF CmdlineEnds
<1>5. ASSUME NEW d \in SysBlock, ReadUevent(d) PROVE Patched'
    BY <1>1, <1>5 DEF ReadUevent
<1>6. CASE EarlyInit
    BY <1>1, <1>6 DEF EarlyInit
<1>7. CASE LoadMultibootFstab
    BY <1>1, <1>7 DEF LoadMultibootFstab
<1>8. ASSUME NEW e \in UNION RootDirs, AddFstab(e) PROVE Patched'
    BY <1>1, <1>8 DEF AddFstab
<1>9. CASE PrepareFstab
    BY <1>1, <1>9 DEF PrepareFstab
<1>10. CASE PatchRecord
    BY <1>10, PatchPatched
<1>11. CASE PatchEnds
    BY <1>2, <1>11 DEF PatchEnds, disk
<1>12. CASE UNCHANGED vars
    BY <1>2, <1>12 DEF vars, disk
<1> QED
    BY <1>3, <1>4, <1>5, <1>6, <1>7, <1>8, <1>9, <1>10, <1>11, <1>12 DEF Next

\* What a guest's mounts rest on, at every step.
LEMMA SpecPatched == Spec => [](TInv /\ Given /\ Found /\ Patched)
<1>1. Init => Found /\ Patched
    <2> SUFFICES ASSUME Init
                 PROVE  Found /\ Patched
        OBVIOUS
    <2>1. Len(tables) = 0 /\ at = <<1, 1>> /\ pc = "cmdline"
        BY EmptySequence DEF Init
    <2> QED
        BY <2>1 DEF Found, Patched
<1>2. Init => TInv /\ Given
    BY InitTypes, InitGiven
<1>3. /\ TInv /\ Given /\ Found /\ Patched
      /\ IInv /\ Shape /\ FilesInv /\ [Next]_vars
      => TInv' /\ Given' /\ Found' /\ Patched'
    BY NextTypes, NextGiven, NextFound, NextPatched
<1> QED
    BY <1>1, <1>2, <1>3, SpecTables, PTL DEF Spec

\* Record r is that of a row of the guest's table, which asks clearly.
Asked(r, row) ==
    /\ r.mnt = row[2] /\ r.opts = row[4]
    /\ IsSequence(row[4]) /\ row[4] # <<>>
    /\ \E junk \in Junk : r.blk = RealPath(row[1], junk)
    /\ row[1].kind # "dir"
    /\ row[1].kind = "mmc" => row[1] = MmcPath(row[1].part)
    /\ Head(row[4]) \notin {"bind", "remount"}
    /\ \A i \in 1..Len(mbfile) :
          Below(mbfile[i][2], row[2]) => Clear(mbfile, i, row)

\* What prepare_fstab leaves to patch_fstab.
Settled ==
    /\ Prepared /\ LookupsTell
    /\ Shape /\ Entries /\ Given /\ Found

\* The record that stands for the mount point is the one wanted there.
LEMMA ReplacingWanted ==
    ASSUME Settled, NEW r, NEW row, Asked(r, row)
    PROVE  LET i == Replacing(r) IN
           /\ i = 0 => Wanted(row[2]) = {}
           /\ i # 0 => /\ i \in Wanted(row[2])
                       /\ mb[i].bind => mb[i].repl.kind = "dir"
                       /\ ~mb[i].bind => /\ mb[i].repl.kind = "loop"
                                         /\ ~NamesGrub(row[1])
<1> DEFINE i == Replacing(r)
           e == fs_mgr_get_entry_for_mount_point(mb, r.mnt)
<1>1. /\ Shape /\ Prepared /\ md.multiboot
      /\ Len(mb) = Len(mbfile) /\ Len(mb) \in Nat
      /\ \A k \in 1..Len(mb) : ReplacedAs(mb[k], mbfile[k])
    BY MbFilesAssumption DEF Settled, Found, Shape, Prepared
<1>2. r.mnt = row[2]
    BY DEF Asked
<1>3. ASSUME NEW k \in Wanted(row[2])
      PROVE  i # 0
    <2>1. k \in 1..Len(mb) /\ mb[k].mnt = row[2] /\ "multiboot" \in mb[k].flags
        BY DEF Wanted
    <2>2. Below(mb[k].mnt, r.mnt)
        BY <1>2, <2>1 DEF Below
    <2>3. e # 0
        <3> DEFINE S == {j \in 1..Len(mb) : Below(mb[j].mnt, r.mnt)}
        <3>1. S # {} /\ S \subseteq Nat
            BY <2>1, <2>2
        <3>2. \E x \in S : \A j \in S : x <= j
            <4> HIDE DEF S
            <4> QED
                BY <3>1, LeastIndex
        <3>3. e = CHOOSE x \in S : \A j \in S : x <= j
            BY <3>1 DEF fs_mgr_get_entry_for_mount_point
        <3>4. e \in S
            <4> HIDE DEF S, e
            <4> QED
                BY <3>2, <3>3
        <3> QED
            BY <3>4
    <2>4. e \in 1..Len(mb) /\ Below(mb[e].mnt, r.mnt)
        BY <1>1, <2>3, EntryFound
    <2> HIDE DEF e
    <2>5. /\ mb[e].mnt = mbfile[e][2] /\ mb[k].mnt = mbfile[k][2]
        BY <1>1, <2>1, <2>4 DEF ReplacedAs
    <2>6. Clear(mbfile, e, row)
        BY <1>1, <1>2, <2>4, <2>5 DEF Asked
    <2>7. k = e
        BY <1>1, <1>2, <2>1, <2>2, <2>5, <2>6 DEF Clear
    <2>8. fs_mgr_is_multiboot(mb[e])
        BY <2>1, <2>7 DEF fs_mgr_is_multiboot, MF_MULTIBOOT
    <2> QED
        BY <1>1, <2>3, <2>8 DEF Replacing, e
<1>4. ASSUME i # 0
      PROVE  /\ i \in Wanted(row[2])
             /\ mb[i].bind => mb[i].repl.kind = "dir"
             /\ ~mb[i].bind => mb[i].repl.kind = "loop" /\ ~NamesGrub(row[1])
    <2>1. /\ i \in 1..Len(mbfile)
          /\ Below(mbfile[i][2], r.mnt)
          /\ mbfile[i][5] \cap MF_MULTIBOOT # {}
          /\ mb[i].bind <=> mbfile[i][3] \in BindType
          /\ mb[i].bind => mb[i].repl.kind = "dir"
          /\ ~mb[i].bind => mb[i].repl.kind = "loop"
        BY <1>1, <1>4, ReplacingRow
    <2> HIDE DEF i
    <2>2. Clear(mbfile, i, row)
        BY <1>2, <2>1 DEF Asked
    <2>3. /\ mb[i].mnt = mbfile[i][2] /\ mb[i].flags = mbfile[i][5]
        BY <1>1, <2>1 DEF ReplacedAs
    <2>4. "multiboot" \in mbfile[i][5]
        BY <2>1, <2>2 DEF Clear, MF_MULTIBOOT
    <2>5. i \in Wanted(row[2])
        BY <1>1, <2>1, <2>2, <2>3, <2>4 DEF Wanted, Clear
    <2>6. ~mb[i].bind => ~NamesGrub(row[1])
        BY <2>1, <2>2, <2>4 DEF Clear
    <2> QED
        BY <2>1, <2>5, <2>6
<1> QED
    BY <1>3, <1>4

\* The device of the bootloader has an entry, and is the only one its path
\* names.
LEMMA GrubNamed ==
    ASSUME Settled, HasGrub
    PROVE  \E g \in SysBlock :
              /\ Named(md.grubdev) = {g}
              /\ g.devname = md.grubdev /\ g.devname.kind = "mmc"
              /\ g.devname = MmcPath(g.devname.part)
              /\ info[grubinfo].rdev = g.rdev
              /\ \E c \in Cmdlines : \E j \in 1..Len(c) :
                    /\ c[j].key = "multiboot.grubdir" /\ c[j].scans
                    /\ md.grubdev = MmcPath(c[j].part)
<1>1. /\ Entries /\ LookupsTell
      /\ md.grubdev \in Nodes(info)
      /\ grubinfo = get_blockinfo_for_path(info, md.grubdev, Null)
    BY DEF Settled, Found, Prepared
<1>2. \E c \in Cmdlines : \E j \in 1..Len(c) :
          /\ c[j].key = "multiboot.grubdir" /\ c[j].scans
          /\ md.grubdev = MmcPath(c[j].part)
    BY DEF Settled, Given, HasGrub
<1>3. md.grubdev.kind = "mmc"
    BY <1>2 DEF MmcPath
<1>4. PICK i \in 1..Len(info) : md.grubdev = info[i].devname
    BY <1>1 DEF Nodes
<1>5. PICK g \in SysBlock : info[i] = add_uevent_entry(g)
    BY <1>1 DEF Entries
<1>6. info[i].devname = g.devname /\ info[i].rdev = g.rdev
    BY <1>5 DEF add_uevent_entry
<1>7. g.devname = md.grubdev
    BY <1>4, <1>6
<1>8. g.devname = MmcPath(g.devname.part)
    BY <1>3, <1>7, SysBlockAssumption
<1>9. g \in Named(md.grubdev)
    BY <1>3, <1>6, <1>7 DEF Named, Known
<1>10. \A d \in Named(md.grubdev) : d = g
    BY <1>3, <1>7, SysBlockAssumption DEF Named, Known
<1>11. Named(md.grubdev) = {g}
    BY <1>9, <1>10
<1>12. info[grubinfo] = add_uevent_entry(g)
    BY <1>1, <1>3, <1>9, NamedFound
<1>13. info[grubinfo].rdev = g.rdev
    BY <1>12 DEF add_uevent_entry
<1> QED
    BY <1>2, <1>3, <1>7, <1>8, <1>11, <1>13

\* A path that leads to a device of the bootloader's number names it.
LEMMA LeadsToNamed ==
    ASSUME Entries, LookupsTell, NEW path, NEW junk \in Junk,
           NEW g \in SysBlock, g.devname.kind = "mmc",
           g.devname = MmcPath(g.devname.part), g \in Known,
           path.kind = "mmc" => path = MmcPath(path.part),
           get_blockinfo_for_path(info, path, junk) # 0,
           info[get_blockinfo_for_path(info, path, junk)].part
               = g.devname.part
    PROVE  g \in Named(path)
<1> DEFINE n == get_blockinfo_for_path(info, path, junk)
<1>1. n \in 1..Len(info) /\ Answers(info[n], path, junk)
    BY FoundAnswers DEF Answering
<1>2. PICK f \in SysBlock : info[n] = add_uevent_entry(f)
    BY <1>1 DEF Entries
<1>3. info[n].part = g.devname.part
    OBVIOUS
<1> HIDE DEF n
<1>4. CASE path.kind = "mmc"
    <2>1. path.part = g.devname.part
        BY <1>1, <1>3, <1>4 DEF Answers
    <2>2. path = g.devname
        BY <1>4, <2>1
    <2> QED
        BY <1>4, <2>2 DEF Named
<1>5. CASE path.kind # "mmc"
    <2>1. path.kind = "byname"
        BY <1>1, <1>5 DEF Answers
    <2>2. info[n].part # junk
        BY <1>2 DEF LookupsTell
    <2>3. f.partname # Null /\ f.partname = path.name
        BY <1>1, <1>2, <1>5, <2>2 DEF Answers, add_uevent_entry
    <2>4. f.devname.kind = "mmc"
        BY <2>3 DEF LookupsTell
    <2>5. f.devname.part = g.devname.part
        BY <1>2, <1>3, <2>4 DEF add_uevent_entry
    <2>6. f.devname = g.devname
        BY <2>4, <2>5, SysBlockAssumption
    <2>7. f = g
        BY <2>6, SysBlockAssumption
    <2> QED
        BY <2>1, <2>3, <2>7 DEF Named
<1> QED
    BY <1>4, <1>5

\* patch_fstab finds the partition of the bootloader behind a record exactly
\* if the guest's row and the command line name one.
LEMMA GrubTells ==
    ASSUME Settled, NEW r, NEW row, Asked(r, row), NEW junk \in Junk
    PROVE  OnGrubDevice(r, junk) <=> OnBusyPartition(ParseAndroid(row))
<1>1. ParseAndroid(row).blk = row[1]
    BY DEF ParseAndroid, Parsed
<1>2. CASE ~(md.sndstage /\ HasGrub)
    BY <1>2 DEF OnGrubDevice, OnBusyPartition
<1>3. CASE md.sndstage /\ HasGrub
    <2>1. PICK g \in SysBlock :
              /\ Named(md.grubdev) = {g}
              /\ g.devname = md.grubdev /\ g.devname.kind = "mmc"
              /\ g.devname = MmcPath(g.devname.part)
              /\ info[grubinfo].rdev = g.rdev
        BY <1>3, GrubNamed
    <2>2. Entries /\ LookupsTell /\ g \in Known
        BY <2>1 DEF Settled, Named
    <2>3. PICK j \in Junk : r.blk = RealPath(row[1], j)
        BY DEF Asked
    <2> DEFINE i == get_blockinfo_for_path(info, r.blk, junk)
               n == get_blockinfo_for_path(info, row[1], j)
    <2>4. ASSUME g \in Named(row[1])
          PROVE  i # 0 /\ info[i].rdev = info[grubinfo].rdev
        <3>1. r.blk = g.devname
            BY <2>2, <2>3, <2>4, TranslatedProtects
        <3>2. g \in Named(r.blk) /\ r.blk.kind = "mmc"
            BY <2>1, <2>2, <3>1 DEF Named
        <3>3. i # 0 /\ info[i] = add_uevent_entry(g)
            BY <2>2, <3>2, NamedFound
        <3>4. info[i].rdev = g.rdev
            BY <3>3 DEF add_uevent_entry
        <3> QED
            BY <2>1, <3>3, <3>4
    <2>5. ASSUME i # 0, info[i].rdev = info[grubinfo].rdev
          PROVE  g \in Named(row[1])
        <3>1. i \in 1..Len(info) /\ Answers(info[i], r.blk, junk)
            BY <2>5, FoundAnswers DEF Answering
        <3>2. PICK e \in SysBlock : info[i] = add_uevent_entry(e)
            BY <2>2, <3>1 DEF Entries
        <3>3. e.rdev = g.rdev
            BY <2>1, <2>5, <3>2 DEF add_uevent_entry
        <3>4. e = g
            BY <3>3, SysBlockAssumption
        <3>5. info[i].part = g.devname.part
            BY <2>1, <3>2, <3>4 DEF add_uevent_entry
        <3>6. row[1].kind = "mmc" => row[1] = MmcPath(row[1].part)
            BY DEF Asked
        <3>7. CASE r.blk = row[1]
            BY <2>1, <2>2, <2>5, <3>5, <3>6, <3>7, LeadsToNamed
        <3>8. CASE n # 0 /\ r.blk = MmcPath(info[n].part)
            <4>1. r.blk.kind = "mmc" /\ r.blk.part = info[n].part
                BY <3>8 DEF MmcPath
            <4>2. info[i].part = r.blk.part
                BY <3>1, <4>1 DEF Answers
            <4>3. info[n].part = g.devname.part
                BY <3>5, <4>1, <4>2
            <4> QED
                BY <2>1, <2>2, <3>6, <3>8, <4>3, LeadsToNamed
        <3>9. r.blk = row[1] \/ (n # 0 /\ r.blk = MmcPath(info[n].part))
            BY <2>3 DEF RealPath, uevent_realpath
        <3> QED
            BY <3>7, <3>8, <3>9
    <2>6. OnGrubDevice(r, junk) <=> i # 0 /\ info[i].rdev = info[grubinfo].rdev
        BY <1>3 DEF OnGrubDevice
    <2>7. OnBusyPartition(ParseAndroid(row)) <=> g \in Named(row[1])
        BY <1>1, <1>3, <2>1 DEF OnBusyPartition
    <2> QED
        BY <2>4, <2>5, <2>6, <2>7
<1> QED
    BY <1>2, <1>3

LEMMA HeadTailOfRemount ==
    ASSUME NEW opts, IsSequence(opts)
    PROVE  /\ Head(<<"remount">> \o opts) = "remount"
           /\ Tail(<<"remount">> \o opts) = opts
<1> DEFINE s == <<"remount">> \o opts
<1>1. /\ IsSequence(<<"remount">>) /\ Len(<<"remount">>) = 1
      /\ <<"remount">>[1] = "remount"
    BY OneSequence
<1>2. Len(opts) \in Nat
    BY DEF IsSequence
<1>3. /\ IsSequence(s) /\ Len(s) = 1 + Len(opts)
      /\ \A i \in 1..1 + Len(opts) :
            s[i] = IF i <= 1 THEN <<"remount">>[i] ELSE opts[i - 1]
    BY <1>1, <1>2, ConcatSequence
<1> HIDE DEF s
<1>4. s[1] = "remount" /\ s # <<>>
    BY <1>1, <1>2, <1>3, EmptySequence
<1>5. /\ IsSequence(Tail(s)) /\ Head(s) = s[1]
      /\ \A i \in 1..Len(Tail(s)) : Tail(s)[i] = s[i + 1]
    BY <1>3, <1>4, RestSequence
<1>6. Len(Tail(s)) = Len(opts)
    <2> DEFINE S == {s[i] : i \in 1..Len(s)}
    <2>1. s \in Seq(S)
        BY <1>3, SequenceSeq
    <2> HIDE DEF S
    <2>2. Len(Tail(s)) = Len(s) - 1
        BY <1>4, <2>1, HeadTailProperties
    <2> QED
        BY <1>2, <1>3, <2>2
<1>7. ASSUME NEW i \in 1..Len(opts)
      PROVE  Tail(s)[i] = opts[i]
    <2>1. i + 1 \in 1..1 + Len(opts) /\ ~(i + 1 <= 1) /\ i + 1 - 1 = i
        BY <1>2
    <2>2. s[i + 1] = opts[i]
        BY <1>3, <2>1
    <2> QED
        BY <1>5, <1>6, <2>2
<1>8. Tail(s) = opts
    BY <1>5, <1>6, <1>7 DEF IsSequence
<1> QED
    BY <1>4, <1>5, <1>8 DEF s

\* The row of a record mounts what stands for the mount point.
LEMMA MainRowMounts ==
    ASSUME Settled, NEW r, NEW row, Asked(r, row),
           NEW line, IsMainRow(line, r)
    PROVE  LET m == ParseAndroid(line)
               i == Replacing(r)
               busy == OnBusyPartition(ParseAndroid(row))
           IN  /\ Mounts(m)
               /\ \/ i # 0 /\ m.blk = mb[i].repl /\ mb[i].bind
                  \/ i # 0 /\ m.blk = mb[i].repl /\ ~mb[i].bind
                     /\ m.opts = row[4]
                  \/ i = 0 /\ busy /\ m.blk = Grub
                  \/ i = 0 /\ ~busy /\ m.blk = r.blk /\ m.opts = row[4]
<1> DEFINE m == ParseAndroid(line)
           i == Replacing(r)
           busy == OnBusyPartition(ParseAndroid(row))
<1>1. PICK junk \in Junk :
          /\ line[1] = Source_and_options(r, junk)[1]
          /\ line[4] = Source_and_options(r, junk)[2]
    BY DEF IsMainRow
<1> DEFINE so == Source_and_options(r, junk)
<1>2. m.blk = so[1] /\ m.opts = so[2]
    BY <1>1 DEF ParseAndroid, Parsed
<1>3. /\ r.opts = row[4] /\ Head(row[4]) \notin {"bind", "remount"}
      /\ r.blk.kind # "dir"
    <2>1. PICK j \in Junk : r.blk = RealPath(row[1], j)
        BY DEF Asked
    <2>2. row[1].kind # "dir"
        BY DEF Asked
    <2> QED
        BY <2>1, <2>2, NodeIsNoDirectory DEF Asked
<1>4. OnGrubDevice(r, junk) <=> busy
    BY GrubTells
<1>5. /\ i # 0 => /\ mb[i].bind => mb[i].repl.kind = "dir"
                  /\ ~mb[i].bind => mb[i].repl.kind = "loop"
                                    /\ ~NamesGrub(row[1])
    BY ReplacingWanted
<1>6. NamesGrub(row[1]) \/ ~busy
    <2> SUFFICES ASSUME busy
                 PROVE  NamesGrub(row[1])
        OBVIOUS
    <2>1. /\ HasGrub /\ Named(row[1]) \cap Named(md.grubdev) # {}
        BY DEF OnBusyPartition, ParseAndroid, Parsed
    <2>2. PICK g \in SysBlock :
              /\ Named(md.grubdev) = {g} /\ g.devname = md.grubdev
              /\ \E c \in Cmdlines : \E j \in 1..Len(c) :
                    /\ c[j].key = "multiboot.grubdir" /\ c[j].scans
                    /\ md.grubdev = MmcPath(c[j].part)
        BY <2>1, GrubNamed
    <2>3. g \in Named(row[1])
        BY <2>1, <2>2
    <2>4. \/ row[1].kind = "byname" /\ g.partname = row[1].name
          \/ row[1] = g.devname
        BY <2>3 DEF Named
    <2> QED
        BY <2>2, <2>4 DEF NamesGrub
<1>7. Head(<<"bind">>) = "bind" /\ Grub.kind = "dir"
    BY DEF Grub, Directory
<1> HIDE DEF m, i, busy
<1>8. CASE i # 0 /\ mb[i].bind
    <2>1. so[1] = mb[i].repl /\ so[2] = <<"bind">>
        BY <1>8 DEF Source_and_options, i
    <2> HIDE DEF so
    <2> QED
        BY <1>2, <1>5, <1>7, <1>8, <2>1
           DEF Mounts, IsRemount, IsBind, m, i, busy
<1>9. CASE i # 0 /\ ~mb[i].bind
    <2>1. ~OnGrubDevice(r, junk)
        BY <1>4, <1>5, <1>6, <1>9
    <2>2. so[1] = mb[i].repl /\ so[2] = r.opts
        BY <1>9, <2>1 DEF Source_and_options, i
    <2>3. mb[i].repl.kind = "loop"
        BY <1>5, <1>9
    <2> HIDE DEF so
    <2> QED
        BY <1>2, <1>3, <1>9, <2>2, <2>3
           DEF Mounts, IsRemount, IsBind, m, i, busy
<1>10. CASE i = 0 /\ busy
    <2>1. so[1] = Grub /\ so[2] = <<"bind">>
        BY <1>4, <1>10 DEF Source_and_options, i
    <2> HIDE DEF so
    <2> QED
        BY <1>2, <1>7, <1>10, <2>1 DEF Mounts, IsRemount, IsBind, m, i, busy
<1>11. CASE i = 0 /\ ~busy
    <2>1. so[1] = r.blk /\ so[2] = r.opts
        BY <1>4, <1>11 DEF Source_and_options, i
    <2> HIDE DEF so
    <2> QED
        BY <1>2, <1>3, <1>11, <2>1 DEF Mounts, IsRemount, IsBind, m, i, busy
<1> QED
    BY <1>8, <1>9, <1>10, <1>11

\* The second row of a bind mount sets its flags.
LEMMA FlagRowSets ==
    ASSUME NEW r, NEW row, Asked(r, row), NEW line, IsFlagRow(line, r)
    PROVE  LET m == ParseAndroid(line)
           IN  /\ IsRemount(m) /\ ~Mounts(m) /\ NeedsRemount(r)
               /\ Tail(m.opts) = row[4]
<1>1. ParseAndroid(line).opts = <<"remount">> \o row[4] /\ NeedsRemount(r)
    BY DEF IsFlagRow, Asked, ParseAndroid, Parsed
<1>2. /\ Head(<<"remount">> \o row[4]) = "remount"
      /\ Tail(<<"remount">> \o row[4]) = row[4]
    BY HeadTailOfRemount DEF Asked
<1> QED
    BY <1>1, <1>2 DEF IsRemount, Mounts

\* The guest reads what has been written.
LEMMA GuestReads ==
    ASSUME NEW rows, IsSequence(rows), rows # <<>>,
           \A p \in 1..Len(rows) : Len(rows[p]) = 5
    PROVE  /\ Len(GuestTable(rows)) = Len(rows)
           /\ \A p \in 1..Len(rows) :
                 GuestTable(rows)[p] = ParseAndroid(rows[p])
<1>1. Readable(rows, FALSE)
    <2>1. Columns(FALSE) = 5
        BY DEF Columns
    <2>2. 5 >= Columns(FALSE)
        <3>1. 5 >= 5
            OBVIOUS
        <3> QED
            BY <2>1, <3>1, Zenon
    <2>3. \A p \in 1..Len(rows) : Len(rows[p]) >= Columns(FALSE)
        BY <2>2, Zenon
    <2> QED
        BY <2>3 DEF Readable
<1>2. GuestTable(rows) = [p \in 1..Len(rows) |-> ParseAndroid(rows[p])]
    BY <1>1 DEF GuestTable, do_fs_mgr_read_fstab
<1>3. Len(rows) \in Nat
    BY DEF IsSequence
<1> QED
    BY <1>2, <1>3

\* A bounded set of indices that is not empty has a greatest element.
LEMMA GreatestIndex ==
    ASSUME NEW n \in Nat, NEW S, S \subseteq 1..n, S # {}
    PROVE  \E i \in S : \A j \in S : j <= i
<1> DEFINE D == {n - i : i \in S}
<1>1. D \subseteq Nat /\ D # {}
    <2>1. \A i \in S : n - i \in Nat
        OBVIOUS
    <2> QED
        BY <2>1
<1>2. \E x \in D : \A y \in D : x <= y
    <2> HIDE DEF D
    <2> QED
        BY <1>1, LeastIndex
<1>3. PICK i \in S : \A y \in D : n - i <= y
    BY <1>2
<1>4. ASSUME NEW j \in S PROVE j <= i
    <2>1. n - i <= n - j
        BY <1>3
    <2> QED
        BY <2>1
<1> QED
    BY <1>4

\* A file that has all rows of a table mounts what each record asks for.
LEMMA RowMounted ==
    ASSUME Settled, NEW recs, NEW n \in Nat, NEW asked,
           \A i \in 1..n : Asked(recs[i], asked[i]),
           \A i, j \in 1..n : asked[i][2] = asked[j][2] => i = j,
           NEW rows, IsSequence(rows), Complete(recs, rows, n),
           NEW i \in 1..n
    PROVE  MountedAsAsked(GuestTable(rows), ParseAndroid(asked[i]))
<1> DEFINE new == GuestTable(rows)
           r == recs[i]
           row == asked[i]
           old == ParseAndroid(row)
           S == {k \in 1..Len(new) : new[k].mnt = row[2] /\ Mounts(new[k])}
           k == Top(new, row[2])
<1>1. PICK p \in 1..Len(rows) : MountsAt(rows, p, r)
    BY DEF Complete
<1>2. \A q \in 1..Len(rows) : Len(rows[q]) = 5
    BY DEF Complete, MountsAt, IsMainRow, IsFlagRow
<1>3. rows # <<>> /\ Len(rows) \in Nat
    BY <1>1, EmptySequence DEF IsSequence
<1>4. /\ Len(new) = Len(rows)
      /\ \A q \in 1..Len(rows) : new[q] = ParseAndroid(rows[q])
    BY <1>2, <1>3, GuestReads
<1>5. /\ old.mnt = row[2] /\ old.opts = row[4] /\ old.blk = row[1]
      /\ r.mnt = row[2] /\ Asked(r, row)
    BY DEF ParseAndroid, Parsed, Asked
<1> HIDE DEF new
<1>6. ASSUME NEW q \in 1..Len(rows), new[q].mnt = row[2]
      PROVE  MountsAt(rows, q, r) \/ IsFlagRow(rows[q], r)
    <2>1. PICK j \in 1..n :
              MountsAt(rows, q, recs[j]) \/ IsFlagRow(rows[q], recs[j])
        BY DEF Complete
    <2>2. rows[q][2] = recs[j].mnt
        BY <2>1 DEF MountsAt, IsMainRow, IsFlagRow
    <2>3. rows[q][2] = row[2]
        <3>1. new[q] = ParseAndroid(rows[q])
            BY <1>4
        <3>2. new[q].mnt = rows[q][2]
            BY <3>1 DEF ParseAndroid, Parsed
        <3> QED
            BY <1>6, <3>2
    <2>4. recs[j].mnt = asked[j][2]
        BY DEF Asked
    <2>5. j = i
        BY <2>2, <2>3, <2>4
    <2> QED
        BY <2>1, <2>5
<1>7. ASSUME NEW q \in 1..Len(rows), MountsAt(rows, q, r)
      PROVE  new[q].mnt = row[2] /\ Mounts(new[q])
    <2>1. rows[q][2] = row[2] /\ IsMainRow(rows[q], r)
        BY <1>5, <1>7 DEF MountsAt, IsMainRow
    <2>2. Mounts(ParseAndroid(rows[q]))
        BY <1>5, <2>1, MainRowMounts
    <2>3. new[q] = ParseAndroid(rows[q])
        BY <1>4
    <2>4. ParseAndroid(rows[q]).mnt = rows[q][2]
        BY DEF ParseAndroid, Parsed
    <2> QED
        BY <2>1, <2>2, <2>3, <2>4
<1>8. ASSUME NEW q \in 1..Len(rows), IsFlagRow(rows[q], r)
      PROVE  /\ new[q].mnt = row[2]
             /\ IsRemount(new[q]) /\ ~Mounts(new[q]) /\ NeedsRemount(r)
             /\ Tail(new[q].opts) = row[4]
    <2>1. /\ IsRemount(ParseAndroid(rows[q])) /\ ~Mounts(ParseAndroid(rows[q]))
          /\ NeedsRemount(r) /\ Tail(ParseAndroid(rows[q]).opts) = row[4]
        BY <1>5, <1>8, FlagRowSets
    <2>2. rows[q][2] = row[2]
        BY <1>5, <1>8 DEF IsFlagRow
    <2>3. new[q] = ParseAndroid(rows[q])
        BY <1>4
    <2>4. ParseAndroid(rows[q]).mnt = rows[q][2]
        BY DEF ParseAndroid, Parsed
    <2> QED
        BY <2>1, <2>2, <2>3, <2>4
<1> HIDE DEF r, row, old
<1>9. k \in S
    <2>1. p \in S
        BY <1>1, <1>4, <1>7
    <2>2. S \subseteq 1..Len(rows) /\ S # {}
        BY <1>4, <2>1
    <2>3. k = CHOOSE x \in S : \A y \in S : y <= x
        BY <2>2 DEF Top
    <2> HIDE DEF S, k
    <2>4. \E x \in S : \A y \in S : y <= x
        BY <1>3, <2>2, GreatestIndex
    <2> QED
        BY <2>3, <2>4
<1> HIDE DEF k
<1>10. /\ k \in 1..Len(rows) /\ new[k].mnt = row[2] /\ Mounts(new[k])
       /\ MountsAt(rows, k, r)
    <2>1. k \in 1..Len(rows) /\ new[k].mnt = row[2] /\ Mounts(new[k])
        BY <1>4, <1>9
    <2> QED
        BY <1>6, <1>8, <2>1
<1> HIDE DEF S
<1> DEFINE F == {j \in k + 1..Len(new) : new[j].mnt = row[2]
                                            /\ IsRemount(new[j])}
<1>11. \A j \in F : j \in 1..Len(rows) /\ IsFlagRow(rows[j], r)
    <2> SUFFICES ASSUME NEW j \in F
                 PROVE  j \in 1..Len(rows) /\ IsFlagRow(rows[j], r)
        OBVIOUS
    <2>1. /\ j \in 1..Len(rows) /\ new[j].mnt = row[2] /\ IsRemount(new[j])
        BY <1>3, <1>4, <1>10
    <2>2. ~Mounts(new[j])
        BY <2>1 DEF Mounts
    <2> QED
        BY <1>6, <1>7, <2>1, <2>2
<1>12. ASSUME NeedsRemount(r)
       PROVE  FlagsAt(new, row[2]) = row[4]
    <2>1. k + 1 \in 1..Len(rows) /\ IsFlagRow(rows[k + 1], r)
        BY <1>10, <1>12 DEF MountsAt
    <2>2. k + 1 \in F
        BY <1>3, <1>4, <1>8, <1>10, <2>1
    <2>3. F \subseteq 1..Len(rows) /\ F # {}
        BY <1>11, <2>2
    <2> DEFINE j == CHOOSE x \in F : \A y \in F : y <= x
    <2>4. FlagsAt(new, row[2]) = Tail(new[j].opts)
        BY <2>3 DEF FlagsAt, k
    <2>5. j \in F
        <3> HIDE DEF F
        <3>1. \E x \in F : \A y \in F : y <= x
            BY <1>3, <2>3, GreatestIndex
        <3> QED
            BY <3>1
    <2> HIDE DEF j, F
    <2>6. Tail(new[j].opts) = row[4]
        BY <1>8, <1>11, <2>5
    <2> QED
        BY <2>4, <2>6
<1>13. ASSUME ~NeedsRemount(r)
       PROVE  FlagsAt(new, row[2]) =
                  IF IsBind(new[k]) THEN <<>> ELSE new[k].opts
    <2>1. F = {}
        BY <1>8, <1>11, <1>13
    <2> QED
        BY <2>1 DEF FlagsAt, k
<1> HIDE DEF F
<1> DEFINE e == Replacing(r)
           busy == OnBusyPartition(old)
<1>14. \/ e # 0 /\ new[k].blk = mb[e].repl /\ mb[e].bind
       \/ e # 0 /\ new[k].blk = mb[e].repl /\ ~mb[e].bind
          /\ new[k].opts = row[4]
       \/ e = 0 /\ busy /\ new[k].blk = Grub
       \/ e = 0 /\ ~busy /\ new[k].blk = r.blk /\ new[k].opts = row[4]
    <2>1. IsMainRow(rows[k], r) /\ new[k] = ParseAndroid(rows[k])
        BY <1>4, <1>10 DEF MountsAt
    <2> QED
        BY <1>5, <2>1, MainRowMounts DEF old
<1>15. /\ e = 0 => Wanted(row[2]) = {}
       /\ e # 0 => e \in Wanted(row[2])
    BY <1>5, ReplacingWanted
<1>16. NeedsRemount(r) <=> e # 0 /\ mb[e].bind /\ row[2] # System
    BY <1>5 DEF NeedsRemount
<1>17. new[k].opts = row[4] => ~IsBind(new[k])
    BY <1>5 DEF Asked, IsBind
<1>18. k # 0
    BY <1>10
<1> HIDE DEF e, busy
<1>19. CASE e # 0
    <2>1. e \in Wanted(row[2]) /\ new[k].blk = mb[e].repl
        BY <1>14, <1>15, <1>19
    <2>2. row[2] # System => FlagsAt(new, row[2]) = row[4]
        BY <1>12, <1>13, <1>14, <1>16, <1>17, <1>19
    <2> QED
        BY <1>5, <1>18, <2>1, <2>2 DEF MountedAsAsked, k, new, old, row
<1>20. CASE e = 0 /\ busy
    <2>1. Wanted(row[2]) = {} /\ new[k].blk = Grub
        BY <1>14, <1>15, <1>20
    <2> QED
        BY <1>5, <1>18, <1>20, <2>1 DEF MountedAsAsked, k, new, old, row, busy
<1>21. CASE e = 0 /\ ~busy
    <2>1. Wanted(row[2]) = {} /\ new[k].blk = r.blk
        BY <1>14, <1>15, <1>21
    <2>2. FlagsAt(new, row[2]) = row[4]
        BY <1>13, <1>14, <1>16, <1>17, <1>21
    <2>3. \A d \in Named(row[1]) : new[k].blk = d.devname
        <3>1. PICK junk \in Junk : r.blk = RealPath(row[1], junk)
            BY <1>5 DEF Asked
        <3> QED
            BY <2>1, <3>1, TranslatedProtects DEF Settled
    <2> QED
        BY <1>5, <1>18, <1>21, <2>1, <2>2, <2>3
           DEF MountedAsAsked, k, new, old, row, busy
<1> QED
    BY <1>19, <1>20, <1>21

\* The rows of the guest's tables ask clearly, and their records are theirs.
LEMMA TablesAsked ==
    ASSUME GuestsAskClearly, Shape, FilesInv, Prepared,
           NEW t \in 1..Len(tables), ~tables[t].twrp
    PROVE  LET recs == tables[t].recs
               rows == Content[tables[t].name]
           IN  /\ Len(recs) = Len(rows) /\ Len(recs) \in Nat
               /\ \A i \in 1..Len(recs) : Asked(recs[i], rows[i])
               /\ \A i, j \in 1..Len(recs) : rows[i][2] = rows[j][2] => i = j
<1> DEFINE recs == tables[t].recs
           f == tables[t].name
           rows == Content[f]
<1>1. /\ f \in DOMAIN Content /\ Readable(rows, FALSE)
      /\ Len(recs) = Len(rows) /\ Len(recs) \in Nat
      /\ \A i \in 1..Len(recs) :
            recs[i].mnt = rows[i][2] /\ recs[i].opts = rows[i][4]
    BY TableLength DEF Shape, TableFrom, FromRow
<1>2. \A i \in 1..Len(recs) :
          \E junk \in Junk : recs[i].blk = RealPath(rows[i][1], junk)
    BY DEF FilesInv, PathsFrom
<1>3. mbfile \in MbFiles /\ Readable(mbfile, FALSE)
    BY DEF Shape, Prepared
<1> HIDE DEF recs, f
<1>4. ASSUME NEW i \in 1..Len(recs)
      PROVE  /\ Asked(recs[i], rows[i])
             /\ \A j \in 1..Len(recs) : rows[j][2] = rows[i][2] => j = i
    <2> DEFINE row == rows[i]
    <2>1. i \in 1..Len(rows)
        BY <1>1
    <2>2. /\ row[1].kind # "dir"
          /\ row[1].kind = "mmc" => row[1] = MmcPath(row[1].part)
          /\ Head(row[4]) \notin {"bind", "remount"}
          /\ \A j \in 1..Len(rows) : rows[j][2] = row[2] => j = i
          /\ \A k \in 1..Len(mbfile) :
                Below(mbfile[k][2], row[2]) => Clear(mbfile, k, row)
        BY <1>1, <1>3, <2>1 DEF GuestsAskClearly
    <2>3. row[4] \in Seq(STRING) \ {<<>>}
        BY <1>1, <2>1, ContentAssumption
    <2>4. IsSequence(row[4]) /\ row[4] # <<>>
        BY <2>3, SeqSequence
    <2> QED
        BY <1>1, <1>2, <2>2, <2>4 DEF Asked
<1> QED
    BY <1>1, <1>4 DEF recs, f

\* A guest whose tables ask clearly, and whose rows have not been lost, finds
\* at every mount point of its tables what it asks for, with its flags: in the
\* rows that patch_fstab writes, the replacement that the multiboot fstab has
\* for that mount point, the bootloader's directory in place of a partition
\* that the bootloader is on, and in place of any other path the node of the
\* partition; and a bind mount gets the flags from the row behind it.
THEOREM GuestsMountAsAsked ==
    ASSUME GuestsAskClearly
    PROVE  Spec => []GuestMountsAsAsked
<1>1. ASSUME IInv, Shape, FilesInv, Given, Found, Patched
      PROVE  GuestMountsAsAsked
    <2> SUFFICES ASSUME pc = "done", mode = "android", LookupsTell,
                        NEW t \in 1..Len(tables), Whole(tables[t]),
                        NEW i \in 1..Len(GuestTable(Content[tables[t].name]))
                 PROVE  MountedAsAsked(GuestTable(file[tables[t].name]),
                            GuestTable(Content[tables[t].name])[i])
        BY DEF GuestMountsAsAsked
    <2> DEFINE asked == Content[tables[t].name]
               recs == tables[t].recs
               rows == file[tables[t].name]
    <2>1. Readable(asked, FALSE)
        <3> SUFFICES ASSUME ~Readable(asked, FALSE)
                     PROVE  FALSE
            OBVIOUS
        <3>1. GuestTable(asked) = <<>>
            BY DEF GuestTable
        <3> QED
            BY <3>1, EmptySequence
    <2>2. ~tables[t].twrp
        BY <1>1, <2>1 DEF Shape, TableFrom
    <2>3. /\ Len(recs) = Len(asked) /\ Len(recs) \in Nat
          /\ \A k \in 1..Len(recs) : Asked(recs[k], asked[k])
          /\ \A k, j \in 1..Len(recs) : asked[k][2] = asked[j][2] => k = j
        BY <1>1, <2>2, TablesAsked DEF Prepared
    <2>4. Complete(recs, rows, Len(recs))
        <3>1. Len(rows) = Len(recs) + Cardinality(Remounted(recs, Len(recs)))
            BY DEF Whole, Remounted
        <3>2. t < at[1]
            <4>1. at[1] > Len(tables)
                BY <1>1 DEF Patched
            <4>2. at[1] \in Nat /\ Len(tables) \in Nat
                BY <1>1 DEF Shape, IsSequence
            <4> QED
                BY <4>1, <4>2
        <3>3. Written(recs, rows, Len(recs))
            BY <1>1, <2>2, <3>2 DEF Patched
        <3> QED
            BY <3>1, <3>3 DEF Written
    <2>5. IsSequence(rows)
        BY <1>1 DEF Shape, TableFrom
    <2>6. /\ i \in 1..Len(recs)
          /\ GuestTable(asked)[i] = ParseAndroid(asked[i])
        <3>1. GuestTable(asked) = [k \in 1..Len(asked) |-> ParseAndroid(asked[k])]
            BY <2>1 DEF GuestTable, do_fs_mgr_read_fstab
        <3>2. Len(GuestTable(asked)) = Len(asked)
            BY <2>3, <3>1
        <3>3. i \in 1..Len(asked)
            BY <3>2
        <3> QED
            BY <2>3, <3>1, <3>3
    <2>7. Settled
        BY <1>1 DEF Settled, Prepared, IInv
    <2> HIDE DEF asked, recs, rows
    <2>8. MountedAsAsked(GuestTable(rows), ParseAndroid(asked[i]))
        BY <2>3, <2>4, <2>5, <2>6, <2>7, RowMounted
    <2> QED
        BY <2>6, <2>8 DEF asked, rows
<1> QED
    BY <1>1, SpecTables, SpecPatched, PTL
=============================================================================
