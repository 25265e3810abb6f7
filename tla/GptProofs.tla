------------------------------ MODULE GptProofs ------------------------------
(***************************************************************************)
(* Theorems about GptEditor, for all values of its constants: devices of   *)
(* any size and content, any number of entries, sessions and faults.       *)
(***************************************************************************)
EXTENDS GptEditor, TLAPS, WellFoundedInduction

(***************************************************************************)
(* Headers and arrays of entries                                           *)
(***************************************************************************)
HeaderShape(h) ==
    /\ {"crc32", "partition_entry_array_crc32", "disk_guid"} \subseteq DOMAIN h
    /\ h.kind = "header"
    /\ h.my_lba \in Nat /\ h.alternative_lba \in Nat
    /\ h.partition_entry_lba \in Int

\* An array in which nothing looks like a header.
Plain(ents) ==
    /\ ents = [i \in Slots |-> ents[i]]
    /\ \A i \in Slots : ents[i].kind # "header"

\* gpt_recompute_crc changes nothing but the checksums, and leaves that of
\* the entries right.
LEMMA RecomputedShape ==
    ASSUME NEW h, HeaderShape(h), NEW ents
    PROVE  /\ HeaderShape(Recomputed(h, ents))
           /\ Recomputed(h, ents).partition_entry_array_crc32 = ents
<1> DEFINE r == Recomputed(h, ents)
<1>1. /\ DOMAIN r = DOMAIN h
      /\ r.partition_entry_array_crc32 = ents
      /\ r.kind = h.kind
      /\ r.my_lba = h.my_lba
      /\ r.alternative_lba = h.alternative_lba
      /\ r.partition_entry_lba = h.partition_entry_lba
    BY DEF Recomputed, HeaderShape
<1> QED
    BY <1>1 DEF HeaderShape

\* The headers that are built have the shape of headers.
LEMMA BuiltShape ==
    ASSUME NEW n \in Nat \ {0}, NEW guid, NEW h, HeaderShape(h)
    PROVE  /\ HeaderShape(NewPrimary(guid, n))
           /\ HeaderShape(NewBackup(h, n))
           /\ HeaderShape(Copied(h, n))
<1>1. ASSUME NEW g, NEW my \in Nat, NEW alt \in Nat, NEW f, NEW l,
             NEW at \in Int, NEW x, NEW y
      PROVE  HeaderShape(Header(g, my, alt, f, l, at, x, y))
    BY <1>1 DEF HeaderShape, Header
<1>2. BackupEntries(n) \in Int /\ n - 1 \in Nat /\ PRIMARY \in Nat
    BY GptAssumption DEF BackupEntries, PRIMARY
<1>3. HeaderShape(NewPrimary(guid, n))
    BY <1>1, <1>2 DEF NewPrimary
<1>4. HeaderShape(NewBackup(h, n))
    BY <1>1, <1>2 DEF NewBackup
<1>5. HeaderShape(Copied(h, n))
    BY <1>1, <1>2 DEF Copied, HeaderShape
<1> QED
    BY <1>3, <1>4, <1>5

(***************************************************************************)
(* What is on the device and in memory                                     *)
(***************************************************************************)
\* Every header on d tells of an array that was once whole.
Known(d) ==
    /\ DOMAIN d = 0..(MaxSize - 1)
    /\ \A s \in DOMAIN d : d[s].kind = "header" =>
          HeaderShape(d[s]) /\ d[s].partition_entry_array_crc32 \in begun

LabelShape(l) ==
    /\ {"p", "b", "ents"} \subseteq DOMAIN l
    /\ HeaderShape(l.p) /\ HeaderShape(l.b) /\ Plain(l.ents)

\* In the middle of a write the headers tell of what is being written.
Writing ==
    /\ open /\ LabelShape(gpt)
    /\ gpt.ents \in begun
    /\ gpt.p.partition_entry_array_crc32 = gpt.ents
    /\ gpt.b.partition_entry_array_crc32 = gpt.ents

IInv ==
    /\ size \in 1..MaxSize
    /\ Known(disk)
    /\ Known(media)
    /\ \A ents \in begun : Plain(ents)
    /\ HasLabel => LabelShape(gpt)
    /\ pc # "idle" => Writing

\* Changed entries and headers keep their shape, and both headers that are
\* sealed tell of the entries.
LEMMA SealedShape ==
    ASSUME NEW l, LabelShape(l)
    PROVE  /\ LabelShape(Sealed(l))
           /\ Sealed(l).ents = l.ents
           /\ Sealed(l).p.partition_entry_array_crc32 = l.ents
           /\ Sealed(l).b.partition_entry_array_crc32 = l.ents
<1>1. /\ DOMAIN Sealed(l) = {"p", "b", "ents"}
      /\ Sealed(l).p = Recomputed(l.p, l.ents)
      /\ Sealed(l).b = Recomputed(l.b, l.ents)
      /\ Sealed(l).ents = l.ents
    BY DEF Sealed, Label
<1> QED
    BY <1>1, RecomputedShape DEF LabelShape

\* What a reader accepts is a header whose array was once whole.
LEMMA ReadKnown ==
    ASSUME NEW d, Known(d), \A ents \in begun : Plain(ents),
           size \in 1..MaxSize, NEW lba \in Nat, Intact(d, size, lba)
    PROVE  /\ HeaderShape(d[lba])
           /\ TableAt(d, lba).ents \in begun
           /\ Plain(TableAt(d, lba).ents)
<1>1. lba \in DOMAIN d
    BY EditorAssumption DEF Known, Intact
<1>2. /\ d[lba].kind = "header"
      /\ EntriesAt(d, d[lba].partition_entry_lba)
            = d[lba].partition_entry_array_crc32
    BY DEF Intact
<1>3. TableAt(d, lba).ents = d[lba].partition_entry_array_crc32
    BY <1>2 DEF TableAt
<1> QED
    BY <1>1, <1>2, <1>3 DEF Known

\* gpt_probe_label puts complete headers and entries into memory.
LEMMA ProbedShape ==
    ASSUME IInv, Probed # NoLabel
    PROVE  LabelShape(Probed)
<1> DEFINE p == disk[PRIMARY]
           alt == IF FdiskReads(disk, size, PRIMARY)
                  THEN p.alternative_lba ELSE size - 1
           pOK == FdiskReads(disk, size, PRIMARY)
           bOK == FdiskReads(disk, size, alt)
           ents == TableAt(disk, IF pOK THEN PRIMARY ELSE alt).ents
           fromB == Recomputed(Copied(disk[alt], size), ents)
           fromP == Recomputed(Copied(p, size), ents)
<1>1. Probed = Label(IF pOK THEN p ELSE fromB, IF bOK THEN disk[alt] ELSE fromP,
                     ents)
    BY Zenon DEF Probed
<1>2. pOK \/ bOK
    BY Zenon DEF Probed
<1>3. size \in Nat \ {0} /\ PRIMARY \in Nat /\ size - 1 \in Nat
    BY EditorAssumption DEF IInv, PRIMARY
<1>4. pOK => HeaderShape(p) /\ Plain(TableAt(disk, PRIMARY).ents)
    BY <1>3, ReadKnown DEF IInv, FdiskReads
<1>5. alt \in Nat
    BY <1>3, <1>4 DEF HeaderShape
<1>6. bOK => HeaderShape(disk[alt]) /\ Plain(TableAt(disk, alt).ents)
    BY <1>5, ReadKnown DEF IInv, FdiskReads
<1>7. Plain(ents)
    BY <1>2, <1>4, <1>6
<1>8. pOK => HeaderShape(fromP)
    BY <1>3, <1>4, BuiltShape, RecomputedShape
<1>9. bOK => HeaderShape(fromB)
    BY <1>3, <1>6, BuiltShape, RecomputedShape
<1>10. /\ HeaderShape(IF pOK THEN p ELSE fromB)
       /\ HeaderShape(IF bOK THEN disk[alt] ELSE fromP)
    BY <1>2, <1>4, <1>6, <1>8, <1>9
<1> QED
    BY <1>1, <1>7, <1>10 DEF LabelShape, Label

(***************************************************************************)
(* The initial state and the steps                                         *)
(***************************************************************************)
LEMMA InitInv == Init => IInv
<1> SUFFICES ASSUME Init PROVE IInv
    OBVIOUS
<1>1. PICK d \in Devices : size = d.size /\ disk = d.disk /\ media = d.disk
    BY DEF Init
<1>2. /\ size \in 1..MaxSize
      /\ DOMAIN disk = 0..(MaxSize - 1)
      /\ \A s \in DOMAIN disk : IsSector(disk[s])
    BY <1>1, DeviceAssumption
<1>3. ASSUME NEW ents, IsTable(ents) PROVE Plain(ents)
    BY <1>3 DEF IsTable, Entries, Plain
<1>4. ASSUME NEW s \in DOMAIN disk, disk[s].kind = "header"
      PROVE  /\ HeaderShape(disk[s])
             /\ disk[s].partition_entry_array_crc32 \in begun
             /\ IsTable(disk[s].partition_entry_array_crc32)
    <2>1. IsHeader(disk[s])
        BY <1>2, <1>4 DEF IsSector, Entries
    <2> QED
        BY <1>4, <2>1 DEF IsHeader, HeaderShape, Header, Init
<1>5. \A ents \in begun : Plain(ents)
    BY <1>3, <1>4 DEF Init
<1>6. Known(disk) /\ Known(media)
    BY <1>1, <1>2, <1>4 DEF Known
<1>7. ~HasLabel /\ pc = "idle"
    BY DEF Init, HasLabel
<1> QED
    BY <1>2, <1>5, <1>6, <1>7 DEF IInv

\* A change that is made in memory alone.
LEMMA MemoryStep ==
    ASSUME IInv, UNCHANGED <<size, disk, media, begun>>, pc = "idle", pc' = pc,
           HasLabel' => LabelShape(gpt')
    PROVE  IInv'
BY DEF IInv, Known

\* fdisk_deassign_device and the end of the program leave no label.
LEMMA NoLabelStep ==
    ASSUME IInv, UNCHANGED <<size, begun>>, pc' = "idle", gpt' = NoLabel,
           Known(disk'), Known(media')
    PROVE  IInv'
BY DEF IInv, Known, HasLabel

\* Entries that are changed one at a time stay entries.
LEMMA ChangedPlain ==
    ASSUME NEW ents, Plain(ents), NEW n, NEW e, e.kind # "header"
    PROVE  Plain([ents EXCEPT ![n] = e])
BY DEF Plain

LEMMA EntryKind ==
    ASSUME NEW used, NEW start, NEW end, NEW tag
    PROVE  /\ Entry(used, start, end, tag).kind # "header"
           /\ Zero.kind # "header"
BY DEF Entry, Zero

\* Every call of the library that edits the table leaves a complete label.
LEMMA LabelChanged ==
    ASSUME IInv, HasLabel, NEW ents, Plain(ents)
    PROVE  /\ LabelShape([gpt EXCEPT !.ents = ents])
           /\ LabelShape(Sealed([gpt EXCEPT !.ents = ents]))
<1> DEFINE l == [gpt EXCEPT !.ents = ents]
<1>1. l.p = gpt.p /\ l.b = gpt.b /\ l.ents = ents /\ DOMAIN l = DOMAIN gpt
    BY DEF IInv, LabelShape
<1> QED
    BY <1>1, SealedShape DEF IInv, LabelShape

\* fdisk_assign_device, fdisk_deassign_device and fdisk_create_disklabel
LEMMA SessionStep ==
    ASSUME IInv, Assign \/ Deassign \/ (\E g \in Guids : Create(g))
    PROVE  IInv'
<1>1. CASE Assign
    <2>2. HasLabel' => LabelShape(gpt')
        BY <1>1, ProbedShape DEF Assign, HasLabel
    <2>3. pc = "idle"
        BY <1>1 DEF Assign
    <2> QED
        BY <1>1, <2>2, <2>3, MemoryStep DEF Assign
<1>2. CASE Deassign
    <2>1. /\ UNCHANGED <<size, disk, gpt, pc, begun>> /\ pc = "idle"
          /\ media' \in {media, disk}
        BY <1>2 DEF Deassign
    <2> QED
        BY <2>1 DEF IInv, Known, HasLabel
<1>3. ASSUME NEW g \in Guids, Create(g) PROVE IInv'
    <2> DEFINE p == NewPrimary(g, size)
               none == [i \in Slots |-> Zero]
               l == Label(p, NewBackup(p, size), none)
    <2>1. size \in Nat \ {0} /\ size - 1 \in Nat
        BY EditorAssumption DEF IInv
    <2>2. HeaderShape(p)
        BY <2>1 DEF HeaderShape, NewPrimary, Header, PRIMARY
    <2>3. HeaderShape(NewBackup(p, size))
        BY <2>1, <2>2, BuiltShape
    <2>4. Plain(none)
        BY DEF Plain, Zero, Entry
    <2>5. LabelShape(l)
        BY <2>2, <2>3, <2>4 DEF LabelShape, Label
    <2>6. gpt' = Sealed(l) /\ pc = "idle" /\ UNCHANGED_Device
        BY <1>3 DEF Create
    <2> QED
        BY <2>5, <2>6, SealedShape, MemoryStep DEF UNCHANGED_Device
<1> QED
    BY <1>1, <1>2, <1>3

\* gpt_add_partition, gpt_set_partition, gpt_delete_partition and
\* gpt_toggle_partition_flag change one entry.
LEMMA EntryStep ==
    ASSUME IInv, Editing, UNCHANGED_Device, NEW ents, Plain(ents),
           \/ gpt' = [gpt EXCEPT !.ents = ents]
           \/ gpt' = Sealed([gpt EXCEPT !.ents = ents])
    PROVE  IInv'
<1>1. LabelShape(gpt')
    BY LabelChanged DEF Editing
<1> QED
    BY <1>1, MemoryStep DEF Editing, UNCHANGED_Device

LEMMA AddStep ==
    ASSUME IInv, NEW n \in Slots, NEW pa, NEW bad, Add(n, pa, bad)
    PROVE  IInv'
<1> DEFINE e == Entry(TRUE, AddedStart(pa), AddedEnd(pa, AddedStart(pa)),
                      IF bad THEN gpt.ents[n].tag ELSE pa.tag)
           ents == [gpt.ents EXCEPT ![n] = e]
<1>1. Editing /\ UNCHANGED_Device
    BY DEF Add
<1>2. \/ UNCHANGED gpt
      \/ gpt' = [gpt EXCEPT !.ents = ents]
      \/ gpt' = Sealed([gpt EXCEPT !.ents = ents])
    BY DEF Add
<1>3. Plain(ents)
    BY <1>1, ChangedPlain, EntryKind DEF Editing, IInv, LabelShape
<1>4. CASE UNCHANGED gpt
    BY <1>1, <1>4, MemoryStep DEF UNCHANGED_Device, Editing, IInv, HasLabel
<1> QED
    BY <1>1, <1>2, <1>3, <1>4, EntryStep

LEMMA SetStep ==
    ASSUME IInv, NEW n \in Slots, NEW pa, NEW enlarge, NEW bad,
           Set(n, pa, enlarge, bad)
    PROVE  IInv'
<1> DEFINE t == IF pa.tag = 0 THEN gpt.ents[n].tag ELSE pa.tag
           e == Entry(TRUE, SetStart(gpt.ents[n], pa, enlarge),
                      SetEnd(gpt.ents[n], pa, enlarge), t)
<1>1. Editing /\ UNCHANGED_Device
    BY DEF Set
<1>2. CASE bad
    <2> DEFINE tagged == [gpt.ents[n] EXCEPT !.tag = t]
    <2> DEFINE ents == [gpt.ents EXCEPT ![n] = tagged]
    <2>1. gpt' = [gpt EXCEPT !.ents = ents]
        BY <1>2 DEF Set
    <2>2. Plain(ents)
        BY <1>1 DEF Editing, IInv, LabelShape, Plain
    <2> QED
        BY <1>1, <2>1, <2>2, EntryStep
<1>3. CASE ~bad
    <2> DEFINE ents == [gpt.ents EXCEPT ![n] = e]
    <2>1. gpt' = Sealed([gpt EXCEPT !.ents = ents])
        BY <1>3 DEF Set
    <2>2. Plain(ents)
        BY <1>1, ChangedPlain, EntryKind DEF Editing, IInv, LabelShape
    <2> QED
        BY <1>1, <2>1, <2>2, EntryStep
<1> QED
    BY <1>2, <1>3

LEMMA ToggleStep ==
    ASSUME IInv, NEW n \in Slots, NEW t, ToggleFlag(n, t) \/ Delete(n)
    PROVE  IInv'
<1>1. Editing /\ UNCHANGED_Device
    BY DEF ToggleFlag, Delete
<1>2. CASE ToggleFlag(n, t)
    <2> DEFINE tagged == [gpt.ents[n] EXCEPT !.tag = t]
    <2> DEFINE ents == [gpt.ents EXCEPT ![n] = tagged]
    <2>1. gpt' = Sealed([gpt EXCEPT !.ents = ents])
        BY <1>2 DEF ToggleFlag
    <2>2. Plain(ents)
        BY <1>1 DEF Editing, IInv, LabelShape, Plain
    <2> QED
        BY <1>1, <2>1, <2>2, EntryStep
<1>3. CASE Delete(n)
    <2> DEFINE ents == [gpt.ents EXCEPT ![n] = Zero]
    <2>1. gpt' = Sealed([gpt EXCEPT !.ents = ents])
        BY <1>3 DEF Delete
    <2>2. Plain(ents)
        BY <1>1, ChangedPlain, EntryKind DEF Editing, IInv, LabelShape
    <2> QED
        BY <1>1, <2>1, <2>2, EntryStep
<1> QED
    BY <1>2, <1>3

\* gpt_set_disklabel_id, gpt_reorder and gpt_verify_disklabel
LEMMA WholeStep ==
    ASSUME IInv, (\E g \in Guids : SetId(g)) \/ Reorder \/ Verify
    PROVE  IInv'
<1>1. Editing /\ UNCHANGED_Device /\ LabelShape(gpt)
    BY DEF SetId, Reorder, Verify, Editing, IInv
<1>2. ASSUME NEW g \in Guids, SetId(g) PROVE IInv'
    <2> DEFINE l == [gpt EXCEPT !.p.disk_guid = g, !.b.disk_guid = g]
    <2>1. /\ DOMAIN l = DOMAIN gpt
          /\ l.p = [gpt.p EXCEPT !.disk_guid = g]
          /\ l.b = [gpt.b EXCEPT !.disk_guid = g]
          /\ l.ents = gpt.ents
        BY <1>1 DEF LabelShape
    <2>2. ASSUME NEW h, HeaderShape(h)
          PROVE  HeaderShape([h EXCEPT !.disk_guid = g])
        BY <2>2 DEF HeaderShape
    <2>3. LabelShape(l)
        BY <1>1, <2>1, <2>2 DEF LabelShape
    <2>4. gpt' = Sealed(l)
        BY <1>2 DEF SetId
    <2> QED
        BY <1>1, <2>3, <2>4, SealedShape, MemoryStep DEF Editing, UNCHANGED_Device
<1>3. CASE Reorder
    <2>1. PICK to \in [Slots -> Slots] :
             gpt' = Sealed([gpt EXCEPT !.ents =
                              [i \in Slots |-> gpt.ents[to[i]]]])
        BY <1>3 DEF Reorder
    <2> DEFINE ents == [i \in Slots |-> gpt.ents[to[i]]]
    <2>2. Plain(ents)
        BY <1>1 DEF LabelShape, Plain
    <2> QED
        BY <1>1, <2>1, <2>2, EntryStep
<1>4. CASE Verify
    <2>1. /\ HeaderShape(Rechecked(gpt.p, gpt.ents))
          /\ HeaderShape(Rechecked(gpt.b, gpt.ents))
        BY <1>1, RecomputedShape DEF Rechecked, LabelShape
    <2>2. LabelShape(gpt')
        BY <1>1, <1>4, <2>1 DEF Verify, LabelShape, Label
    <2> QED
        BY <1>1, <2>2, MemoryStep DEF Editing, UNCHANGED_Device
<1> QED
    BY <1>2, <1>3, <1>4

LEMMA ChangeStep ==
    ASSUME IInv, Change
    PROVE  IInv'
<1>1. \/ \E g \in Guids : Create(g) \/ SetId(g)
      \/ \E n \in Slots, pa \in Partition, bad \in Bad : Add(n, pa, bad)
      \/ \E n \in Slots, t \in Tags, bad \in Bad :
            Set(n, [Unasked EXCEPT !.tag = t], FALSE, bad)
      \/ \E n \in Slots, pa \in Partition, enlarge \in BOOLEAN :
            Set(n, pa, enlarge, FALSE)
      \/ \E n \in Slots, t \in Tags : ToggleFlag(n, t)
      \/ \E n \in Slots : Delete(n)
      \/ Reorder \/ Verify
    BY Zenon DEF Change
<1>2. CASE \E g \in Guids : Create(g) \/ SetId(g)
    BY <1>2, SessionStep, WholeStep
<1>3. CASE \E n \in Slots, pa \in Partition, bad \in Bad : Add(n, pa, bad)
    BY <1>3, AddStep
<1>4. CASE \/ \E n \in Slots, t \in Tags, bad \in Bad :
                 Set(n, [Unasked EXCEPT !.tag = t], FALSE, bad)
           \/ \E n \in Slots, pa \in Partition, enlarge \in BOOLEAN :
                 Set(n, pa, enlarge, FALSE)
    BY <1>4, SetStep, Zenon
<1>5. CASE \/ \E n \in Slots, t \in Tags : ToggleFlag(n, t)
           \/ \E n \in Slots : Delete(n)
    BY <1>5, ToggleStep
<1>6. CASE Reorder \/ Verify
    BY <1>6, WholeStep
<1> QED
    BY <1>1, <1>2, <1>3, <1>4, <1>5, <1>6

(***************************************************************************)
(* Writing                                                                 *)
(***************************************************************************)
\* Whatever part of what is written gets to the device or to the medium.
LEMMA PutKnown ==
    ASSUME IInv, UNCHANGED begun, NEW d, Known(d), Put(d)
    PROVE  Known(disk') /\ Known(media')
BY DEF Put, IInv, Known

LEMMA EntriesKnown ==
    ASSUME IInv, LabelShape(gpt), NEW lba \in Int, NEW k \in 0..NEntries
    PROVE  Known(WithEntries(lba, k))
<1> DEFINE d == WithEntries(lba, k)
<1>1. DOMAIN d = DOMAIN disk /\ DOMAIN disk = 0..(MaxSize - 1)
    BY DEF WithEntries, IInv, Known
<1>2. ASSUME NEW s \in DOMAIN disk
      PROVE  d[s] = disk[s] \/ (\E i \in Slots : d[s] = gpt.ents[i])
    <2>1. CASE s \in lba..(lba + k - 1)
        <3>1. s - lba \in Slots
            BY <2>1, GptAssumption DEF Slots
        <3> QED
            BY <2>1, <3>1 DEF WithEntries
    <2>2. CASE s \notin lba..(lba + k - 1)
        BY <2>2 DEF WithEntries
    <2> QED
        BY <2>1, <2>2
<1>3. Plain(gpt.ents)
    BY DEF LabelShape
<1> QED
    BY <1>1, <1>2, <1>3 DEF IInv, Known, Plain

LEMMA HeaderKnown ==
    ASSUME IInv, NEW lba, NEW h, HeaderShape(h),
           h.partition_entry_array_crc32 \in begun
    PROVE  Known([disk EXCEPT ![lba] = h])
BY DEF IInv, Known

\* A step of a write changes the device and the place in the write.
LEMMA DeviceStep ==
    ASSUME IInv, UNCHANGED <<size, open, gpt, begun>>,
           Known(disk'), Known(media'),
           pc' # "idle" => pc # "idle"
    PROVE  IInv'
BY DEF IInv, Known, Writing, HasLabel

LEMMA WriteEntriesStep ==
    ASSUME IInv, NEW here, here # "idle", NEW h \in {gpt.p, gpt.b}, NEW there,
           WriteEntries(here, h.partition_entry_lba, there)
    PROVE  IInv'
<1> DEFINE lba == h.partition_entry_lba
<1>1. /\ UNCHANGED <<size, open, gpt, begun>>
      /\ pc # "idle" /\ LabelShape(gpt)
    BY DEF WriteEntries, memory, IInv, Writing
<1>2. lba \in Int
    BY <1>1 DEF IInv, LabelShape, HeaderShape
<1>3. \/ \E k \in 0..NEntries : Put(WithEntries(lba, k))
      \/ UNCHANGED <<disk, media>>
    BY GptAssumption DEF WriteEntries
<1>4. Known(disk') /\ Known(media')
    <2>1. CASE UNCHANGED <<disk, media>>
        BY <1>1, <2>1 DEF IInv, Known
    <2>2. ASSUME NEW k \in 0..NEntries, Put(WithEntries(lba, k))
          PROVE  Known(disk') /\ Known(media')
        BY <1>1, <1>2, <2>2, EntriesKnown, PutKnown
    <2> QED
        BY <1>3, <2>1, <2>2
<1> QED
    BY <1>1, <1>4, DeviceStep

LEMMA WriteHeaderStep ==
    ASSUME IInv, NEW here, here # "idle", NEW h \in {gpt.p, gpt.b}, NEW lba,
           NEW there, WriteHeader(here, h, lba, there)
    PROVE  IInv'
<1>1. /\ UNCHANGED <<size, open, gpt, begun>>
      /\ pc # "idle" /\ Writing
    BY DEF WriteHeader, memory, IInv
<1>2. HeaderShape(h) /\ h.partition_entry_array_crc32 \in begun
    BY <1>1 DEF IInv, LabelShape, Writing
<1>3. Known([disk EXCEPT ![lba] = h])
    BY <1>2, HeaderKnown
<1>4. Put([disk EXCEPT ![lba] = h]) \/ UNCHANGED <<disk, media>>
    BY DEF WriteHeader
<1>5. Known(disk') /\ Known(media')
    <2>1. CASE UNCHANGED <<disk, media>>
        BY <1>1, <2>1 DEF IInv, Known
    <2>2. CASE Put([disk EXCEPT ![lba] = h])
        BY <1>1, <1>3, <2>2, PutKnown
    <2> QED
        BY <1>4, <2>1, <2>2
<1> QED
    BY <1>1, <1>5, DeviceStep

LEMMA WriteMbrStep ==
    ASSUME IInv, WriteMbr
    PROVE  IInv'
<1> DEFINE d == [disk EXCEPT ![0] = Mbr("protective")]
<1>1. /\ UNCHANGED <<size, open, gpt, begun>>
      /\ pc' = "idle"
      /\ Put(d) \/ UNCHANGED <<disk, media>>
    BY DEF WriteMbr, Abort
<1>2. Known(d)
    BY DEF IInv, Known, Mbr
<1>3. Known(disk') /\ Known(media')
    <2>1. CASE UNCHANGED <<disk, media>>
        BY <1>1, <2>1 DEF IInv, Known
    <2>2. CASE Put(d)
        BY <1>1, <1>2, <2>2, PutKnown
    <2> QED
        BY <1>1, <2>1, <2>2
<1> QED
    BY <1>1, <1>3, DeviceStep

\* The array that is written has become known when the first part is.
LEMMA WriteBeginStep ==
    ASSUME IInv, WriteBegin
    PROVE  IInv'
<1>1. Editing /\ UNCHANGED <<size, disk, media, open, mbr>>
    BY DEF WriteBegin
<1>2. CASE UNCHANGED <<gpt, pc, begun>>
    BY <1>1, <1>2, MemoryStep DEF Editing, IInv, HasLabel
<1>3. CASE gpt' = Sealed(gpt) /\ begun' = begun \cup {gpt.ents}
    <2>1. LabelShape(gpt)
        BY <1>1 DEF Editing, IInv
    <2>2. /\ LabelShape(gpt') /\ gpt'.ents = gpt.ents
          /\ gpt'.p.partition_entry_array_crc32 = gpt.ents
          /\ gpt'.b.partition_entry_array_crc32 = gpt.ents
        BY <1>3, <2>1, SealedShape
    <2>3. Known(disk)' /\ Known(media)'
        BY <1>1, <1>3 DEF IInv, Known
    <2>4. \A ents \in begun' : Plain(ents)
        BY <1>3, <2>1 DEF IInv, LabelShape
    <2>5. open'
        BY <1>1 DEF Editing
    <2> QED
        BY <1>1, <1>3, <2>2, <2>3, <2>4, <2>5 DEF IInv, Writing
<1> QED
    BY <1>2, <1>3 DEF WriteBegin

LEMMA WriteStep ==
    ASSUME IInv, Write
    PROVE  IInv'
<1>1. CASE WriteBegin
    BY <1>1, WriteBeginStep
<1>2. CASE \/ WriteEntries("backup entries", gpt.b.partition_entry_lba,
                           "backup header")
           \/ WriteEntries("entries", gpt.p.partition_entry_lba, "header")
    <2>1. "backup entries" # "idle" /\ "entries" # "idle"
        OBVIOUS
    <2> QED
        BY <1>2, <2>1, WriteEntriesStep, Zenon
<1>3. CASE \/ WriteHeader("backup header", gpt.b, gpt.p.alternative_lba,
                          "entries")
           \/ WriteHeader("header", gpt.p, PRIMARY, "mbr")
    <2>1. "backup header" # "idle" /\ "header" # "idle"
        OBVIOUS
    <2> QED
        BY <1>3, <2>1, WriteHeaderStep, Zenon
<1>4. CASE WriteMbr
    BY <1>4, WriteMbrStep
<1> QED
    BY <1>1, <1>2, <1>3, <1>4, Zenon DEF Write

(***************************************************************************)
(* Faults                                                                  *)
(***************************************************************************)
LEMMA KillStep ==
    ASSUME IInv, Kill
    PROVE  IInv'
<1>1. UNCHANGED <<size, begun>> /\ pc' = "idle" /\ gpt' = NoLabel
    BY DEF Kill, Gone
<1>2. \/ UNCHANGED <<disk, media>>
      \/ /\ pc # "idle"
         /\ \E k \in 1..NEntries, lba \in {gpt.b.partition_entry_lba,
                                           gpt.p.partition_entry_lba} :
               Put(WithEntries(lba, k))
    BY DEF Kill
<1>3. CASE UNCHANGED <<disk, media>>
    <2>1. Known(disk') /\ Known(media')
        BY <1>1, <1>3 DEF IInv, Known
    <2> QED
        BY <1>1, <2>1, NoLabelStep
<1>4. ASSUME pc # "idle", NEW k \in 1..NEntries,
             NEW lba \in {gpt.b.partition_entry_lba, gpt.p.partition_entry_lba},
             Put(WithEntries(lba, k))
      PROVE  IInv'
    <2>1. LabelShape(gpt) /\ lba \in Int /\ k \in 0..NEntries
        BY <1>4 DEF IInv, Writing, LabelShape, HeaderShape
    <2>2. Known(disk') /\ Known(media')
        BY <1>1, <1>4, <2>1, EntriesKnown, PutKnown
    <2> QED
        BY <1>1, <2>2, NoLabelStep
<1> QED
    BY <1>2, <1>3, <1>4

LEMMA PowerStep ==
    ASSUME IInv, PowerFailure \/ (\E s \in DOMAIN disk : WriteBack(s))
    PROVE  IInv'
<1>1. CASE PowerFailure
    <2>1. UNCHANGED <<size, begun>> /\ pc' = "idle" /\ gpt' = NoLabel
        BY <1>1 DEF PowerFailure, Gone
    <2>2. Known(disk') /\ Known(media')
        BY <1>1, <2>1 DEF PowerFailure, IInv, Known
    <2> QED
        BY <2>1, <2>2, NoLabelStep
<1>2. ASSUME NEW s \in DOMAIN disk, WriteBack(s) PROVE IInv'
    <2>1. UNCHANGED <<size, open, gpt, pc, begun>>
        BY <1>2 DEF WriteBack, memory
    <2>2. Known(disk') /\ Known(media')
        BY <1>2, <2>1 DEF WriteBack, IInv, Known
    <2> QED
        BY <2>1, <2>2, DeviceStep
<1> QED
    BY <1>1, <1>2

LEMMA ResizeStep ==
    ASSUME IInv, NEW n \in Sizes, Resize(n)
    PROVE  IInv'
<1>1. UNCHANGED <<open, gpt, pc, begun>> /\ size' \in 1..MaxSize
    BY EditorAssumption DEF Resize, memory
<1>2. Known(disk') /\ Known(media')
    BY <1>1 DEF Resize, IInv, Known, Zero, Entry
<1>3. pc = "idle"
    BY DEF Resize, IInv, Writing
<1> QED
    BY <1>1, <1>2, <1>3 DEF IInv, Known, HasLabel

LEMMA NextInv == IInv /\ [Next]_vars => IInv'
<1> SUFFICES ASSUME IInv, [Next]_vars PROVE IInv'
    OBVIOUS
<1>1. CASE Assign \/ Deassign
    BY <1>1, SessionStep
<1>2. CASE Change
    BY <1>2, ChangeStep
<1>3. CASE Write
    BY <1>3, WriteStep
<1>4. CASE Kill
    BY <1>4, KillStep
<1>5. CASE PowerFailure \/ (\E s \in DOMAIN disk : WriteBack(s))
    BY <1>5, PowerStep
<1>6. CASE \E n \in Sizes : Resize(n)
    BY <1>6, ResizeStep
<1>7. CASE UNCHANGED vars
    BY <1>7 DEF vars, IInv, Known, Writing, HasLabel
<1> QED
    BY <1>1, <1>2, <1>3, <1>4, <1>5, <1>6, <1>7, Zenon DEF Next

LEMMA SpecInv == Spec => []IInv
<1> QED
    BY InitInv, NextInv, PTL DEF Spec

-----------------------------------------------------------------------------
\* Neither a fatal signal, nor a failed or short write, nor a power failure
\* that keeps any part of what was written, nor a resized device makes libfdisk
\* or libblkid take for a table what is partly one array of entries and partly
\* another: the checksums of gpt_write_disklabel come with one whole array.
THEOREM TablesAreWhole == Spec => []NoMixture
<1>1. ASSUME IInv PROVE NoMixture
    <2>1. size - 1 \in Nat /\ PRIMARY \in Nat
        BY <1>1, EditorAssumption DEF IInv, PRIMARY
    <2>2. \A lba \in {PRIMARY, size - 1} :
             Intact(disk, size, lba) => TableAt(disk, lba).ents \in begun
        BY <1>1, <2>1, ReadKnown DEF IInv
    <2>3. FdiskTable(disk, size) # NoTable =>
             FdiskTable(disk, size).ents \in begun
        BY <2>2 DEF FdiskTable, FdiskReads
    <2>4. BlkidTable(disk, size) # NoTable =>
             BlkidTable(disk, size).ents \in begun
        BY <2>2 DEF BlkidTable, BlkidReads
    <2> QED
        BY <2>3, <2>4 DEF NoMixture
<1> QED
    BY <1>1, SpecInv, PTL

-----------------------------------------------------------------------------
(***************************************************************************)
(* The search for free space                                               *)
(***************************************************************************)
\* What is searched for the least of has one.
LEMMA LeastOf ==
    ASSUME NEW S, S \subseteq Nat, S # {}
    PROVE  \E i \in S : \A j \in S : i <= j
<1>1. PICK i \in S : \A j \in S : ~ (<<j, i>> \in OpToRel(<, Nat))
    BY NatLessThanWellFounded, WFMin, Zenon
<1>2. \A j \in S : ~ (j < i)
    BY <1>1 DEF OpToRel
<1> QED
    BY <1>2

\* The pass of find_last_free over the first k entries.
Nearest(h, ents, start, i, f) ==
    IF i = 0 THEN h.last_usable_lba
    ELSE LET ps == ents[i - 1].start
         IN IF start < ps /\ ps < f[i - 1] THEN ps - 1 ELSE f[i - 1]

Pass(h, ents, start, k, f) ==
    f = [i \in 0..k |-> Nearest(h, ents, start, i, f)]

LEMMA PassExists ==
    ASSUME NEW h, NEW ents, NEW start, NEW n \in Nat
    PROVE  \E f : Pass(h, ents, start, n, f)
<1> DEFINE T == {k \in Nat : ~ \E f : Pass(h, ents, start, k, f)}
<1>1. SUFFICES ASSUME T # {} PROVE FALSE
    OBVIOUS
<1>2. PICK k \in T : \A j \in T : k <= j
    <2>1. T \subseteq Nat
        OBVIOUS
    <2> HIDE DEF T
    <2> QED
        BY <1>1, <2>1, LeastOf
<1>3. CASE k = 0
    <2> DEFINE f == [i \in 0..0 |-> h.last_usable_lba]
    <2>1. Pass(h, ents, start, 0, f)
        BY DEF Pass, Nearest
    <2> QED
        BY <1>3, <2>1
<1>4. CASE k # 0
    <2>1. k \in Nat /\ k - 1 \in Nat
        BY <1>4
    <2>2. k - 1 \notin T
        BY <1>2, <2>1
    <2>3. PICK f : Pass(h, ents, start, k - 1, f)
        BY <2>1, <2>2
    <2> DEFINE g == [i \in 0..k |-> IF i = k THEN Nearest(h, ents, start, k, f)
                                    ELSE f[i]]
    <2>4. \A i \in 0..(k - 1) : g[i] = f[i]
        BY <2>1
    <2>5. \A i \in 0..k : Nearest(h, ents, start, i, g)
                             = Nearest(h, ents, start, i, f)
        <3> SUFFICES ASSUME NEW i \in 0..k
                     PROVE  Nearest(h, ents, start, i, g)
                               = Nearest(h, ents, start, i, f)
            OBVIOUS
        <3>1. i # 0 => g[i - 1] = f[i - 1]
            BY <2>1, <2>4
        <3> HIDE DEF g
        <3> QED
            BY <3>1 DEF Nearest
    <2>6. \A i \in 0..(k - 1) : f[i] = Nearest(h, ents, start, i, f)
        BY <2>3 DEF Pass
    <2>7. \A i \in 0..k : g[i] = Nearest(h, ents, start, i, g)
        <3> SUFFICES ASSUME NEW i \in 0..k
                     PROVE  g[i] = Nearest(h, ents, start, i, g)
            OBVIOUS
        <3>1. CASE i = k
            BY <2>5, <3>1
        <3>2. CASE i # k
            <4>1. i \in 0..(k - 1)
                BY <2>1, <3>2
            <4> HIDE DEF g
            <4> QED
                BY <2>4, <2>5, <2>6, <4>1
        <3> QED
            BY <3>1, <3>2
    <2>8. Pass(h, ents, start, k, g)
        <3>1. g = [i \in 0..k |-> g[i]]
            OBVIOUS
        <3> HIDE DEF g
        <3> QED
            BY <2>7, <3>1 DEF Pass
    <2> QED
        BY <1>2, <2>8
<1> QED
    BY <1>3, <1>4

\* find_last_free is the last number of its pass.
LEMMA LastOfPass ==
    ASSUME NEW h, NEW ents, NEW start
    PROVE  \E f : /\ Pass(h, ents, start, NEntries, f)
                  /\ LastFree(h, ents, start) = f[NEntries]
<1> DEFINE g == CHOOSE f : Pass(h, ents, start, NEntries, f)
<1>1. Pass(h, ents, start, NEntries, g)
    <2>1. NEntries \in Nat
        BY GptAssumption
    <2> QED
        BY <2>1, PassExists, Zenon
<1>2. LastFree(h, ents, start) = g[NEntries]
    BY DEF LastFree, Pass, Nearest
<1> QED
    BY <1>1, <1>2

\* It lies in front of every partition behind the start, or on the start of
\* one, and not behind the last usable sector.
LEMMA LastFreeIs ==
    ASSUME NEW h, h.last_usable_lba \in Int,
           NEW ents, \A i \in Slots : ents[i].start \in Int,
           NEW start \in Int
    PROVE  LET last == LastFree(h, ents, start)
           IN  /\ last \in Int
               /\ last <= h.last_usable_lba
               /\ start <= h.last_usable_lba => start <= last
               /\ \A i \in Slots : start < ents[i].start => last <= ents[i].start
<1>1. PICK f : /\ Pass(h, ents, start, NEntries, f)
               /\ LastFree(h, ents, start) = f[NEntries]
    BY LastOfPass
<1> DEFINE Fits(k) ==
              /\ f[k] \in Int
              /\ f[k] <= h.last_usable_lba
              /\ start <= h.last_usable_lba => start <= f[k]
              /\ \A i \in 0..(k - 1) : start < ents[i].start => f[k] <= ents[i].start
           T == {k \in 0..NEntries : ~Fits(k)}
<1>2. NEntries \in Nat
    BY GptAssumption
<1>3. \A k \in 0..NEntries : f[k] = Nearest(h, ents, start, k, f)
    BY <1>1 DEF Pass
<1>4. T = {}
    <2> SUFFICES ASSUME T # {} PROVE FALSE
        OBVIOUS
    <2>1. PICK k \in T : \A j \in T : k <= j
        <3>1. T \subseteq Nat
            BY <1>2
        <3> HIDE DEF T
        <3> QED
            BY <3>1, LeastOf
    <2>2. k \in 0..NEntries /\ ~Fits(k)
        OBVIOUS
    <2>3. CASE k = 0
        <3>1. f[0] = h.last_usable_lba
            BY <1>2, <1>3 DEF Nearest
        <3> QED
            BY <2>2, <2>3, <3>1
    <2>4. CASE k # 0
        <3>1. k - 1 \in 0..NEntries /\ k - 1 \notin T /\ k - 1 \in Slots
            BY <1>2, <2>1, <2>2, <2>4 DEF Slots
        <3>2. Fits(k - 1)
            BY <3>1
        <3> DEFINE ps == ents[k - 1].start
        <3>3. f[k] = IF start < ps /\ ps < f[k - 1] THEN ps - 1 ELSE f[k - 1]
            BY <1>3, <2>2, <2>4 DEF Nearest
        <3>4. ps \in Int /\ f[k - 1] \in Int
            BY <3>1, <3>2
        <3>5. f[k] \in Int /\ f[k] <= f[k - 1]
              /\ (start <= f[k - 1] => start <= f[k])
              /\ (start < ps => f[k] <= ps)
            <4> HIDE DEF ps, Fits, T
            <4> QED
                BY <3>3, <3>4
        <3>6. ASSUME NEW i \in 0..(k - 1), start < ents[i].start
              PROVE  f[k] <= ents[i].start
            <4>1. CASE i = k - 1
                BY <3>5, <3>6, <4>1
            <4>2. CASE i # k - 1
                <5>1. i \in 0..((k - 1) - 1) /\ i \in Slots
                    BY <1>2, <2>2, <4>2 DEF Slots
                <5>2. f[k - 1] <= ents[i].start /\ ents[i].start \in Int
                    BY <3>2, <3>6, <5>1
                <5> QED
                    BY <3>4, <3>5, <5>2
            <4> QED
                BY <4>1, <4>2
        <3> QED
            BY <2>2, <3>2, <3>4, <3>5, <3>6
    <2> QED
        BY <2>3, <2>4
<1>5. Fits(NEntries)
    BY <1>2, <1>4
<1> QED
    BY <1>1, <1>5 DEF Slots

\* find_first_available gives 0 or the first usable sector, from the start on,
\* that is in no partition.
LEMMA FirstAvailableIs ==
    ASSUME NEW h, h.first_usable_lba \in Nat, h.last_usable_lba \in Int,
           NEW ents, NEW start \in Int
    PROVE  LET first == FirstAvailable(h, ents, start)
           IN  /\ first \in Nat
               /\ first # 0 =>
                     /\ first \in h.first_usable_lba..h.last_usable_lba
                     /\ start <= first
                     /\ \A i \in Slots : first \notin Sectors(ents[i])
                     /\ FirstAvailable(h, ents, first) = first
<1> DEFINE Free(from) == {s \in h.first_usable_lba..h.last_usable_lba :
                             /\ s >= from
                             /\ \A i \in Slots : s \notin Sectors(ents[i])}
           first == FirstAvailable(h, ents, start)
<1>1. \A from : FirstAvailable(h, ents, from)
                   = IF Free(from) = {} THEN 0 ELSE Min(Free(from))
    BY DEF FirstAvailable
<1>2. \A from : Free(from) \subseteq Nat
    OBVIOUS
<1>3. ASSUME NEW S, S \subseteq Nat, S # {}
      PROVE  Min(S) \in S /\ \A j \in S : Min(S) <= j
    <2>1. \E i \in S : \A j \in S : i <= j
        BY <1>3, LeastOf
    <2> QED
        BY <2>1 DEF Min
<1>4. CASE Free(start) = {}
    <2>1. first = IF Free(start) = {} THEN 0 ELSE Min(Free(start))
        BY <1>1
    <2>2. first = 0
        <3> HIDE DEF Free, first
        <3> QED
            BY <1>4, <2>1
    <2> QED
        BY <2>2
<1>5. CASE Free(start) # {}
    <2>1. first = Min(Free(start))
        BY <1>1, <1>5
    <2>2. first \in Free(start)
        BY <1>2, <1>3, <1>5, <2>1
    <2>3. first \in Nat /\ first \in Free(first)
        BY <2>2
    <2>4. FirstAvailable(h, ents, first) = Min(Free(first))
        BY <1>1, <2>3
    <2>5. Min(Free(first)) \in Free(first) /\ Min(Free(first)) <= first
        BY <1>2, <1>3, <2>3
    <2>6. Min(Free(first)) = first
        <3> DEFINE m == Min(Free(first))
        <3>1. m >= first /\ m <= first /\ m \in Int
            BY <2>5
        <3>2. m = first
            <4> HIDE DEF m, first
            <4> QED
                BY <2>3, <3>1
        <3> QED
            BY <3>2
    <2> QED
        BY <2>2, <2>3, <2>4, <2>6
<1> QED
    BY <1>4, <1>5

\* Looking for the largest space, find_first_in_largest goes on behind the one
\* it has found.
Larger(h, ents, s, f) ==
    LET first == FirstAvailable(h, ents, s)
        last  == LastFree(h, ents, first)
        rest  == f[last + 1]
    IN IF first = 0 THEN [size |-> 0, first |-> 0]
       ELSE IF last - first + 1 >= rest.size
            THEN [size |-> last - first + 1, first |-> first]
            ELSE rest

Chain(h, ents, f) == f = [s \in Nat |-> Larger(h, ents, s, f)]

\* What the search of free space relies on.
Searchable(h, ents) ==
    /\ h.first_usable_lba \in Nat /\ h.last_usable_lba \in Nat
    /\ \A i \in Slots : ents[i].start \in Int

LEMMA GoesForward ==
    ASSUME NEW h, NEW ents, Searchable(h, ents), NEW s \in Nat
    PROVE  LET first == FirstAvailable(h, ents, s)
               next  == LastFree(h, ents, first) + 1
           IN  /\ first # 0 => next \in Nat /\ next > s
               /\ s > h.last_usable_lba => first = 0
<1> DEFINE first == FirstAvailable(h, ents, s)
           last  == LastFree(h, ents, first)
<1>1. /\ first \in Nat
      /\ first # 0 => first \in h.first_usable_lba..h.last_usable_lba /\ s <= first
    BY FirstAvailableIs DEF Searchable
<1>2. /\ last \in Int
      /\ first <= h.last_usable_lba => first <= last
    BY <1>1, LastFreeIs DEF Searchable
<1>3. h.first_usable_lba \in Nat /\ h.last_usable_lba \in Nat
    BY DEF Searchable
<1> HIDE DEF first, last
<1>4. first # 0 => last + 1 \in Nat /\ last + 1 > s
    BY <1>1, <1>2, <1>3
<1>5. s > h.last_usable_lba => first = 0
    BY <1>1, <1>3
<1> QED
    BY <1>4, <1>5 DEF first, last

\* The step from s only looks further on.
LEMMA LooksForward ==
    ASSUME NEW h, NEW ents, Searchable(h, ents), NEW s \in Nat, NEW f, NEW g,
           \A t \in Nat : t > s => f[t] = g[t]
    PROVE  Larger(h, ents, s, f) = Larger(h, ents, s, g)
<1> DEFINE first == FirstAvailable(h, ents, s)
           last  == LastFree(h, ents, first)
<1>1. first # 0 => f[last + 1] = g[last + 1]
    BY GoesForward
<1> HIDE DEF first, last
<1>2. \A r : first # 0 => r[last + 1] = r[last + 1]
    OBVIOUS
<1> QED
    BY <1>1 DEF Larger, first, last

LEMMA ChainExists ==
    ASSUME NEW h, NEW ents, Searchable(h, ents)
    PROVE  \E f : Chain(h, ents, f)
<1> DEFINE L == h.last_usable_lba
           From(k, f) == f = [s \in Nat |-> IF s + k > L
                                            THEN Larger(h, ents, s, f) ELSE f[s]]
           T == {k \in Nat : ~ \E f : From(k, f)}
<1>1. L \in Nat
    BY DEF Searchable
<1>2. T = {}
    <2> SUFFICES ASSUME T # {} PROVE FALSE
        OBVIOUS
    <2>1. PICK k \in T : \A j \in T : k <= j
        <3>1. T \subseteq Nat
            OBVIOUS
        <3> HIDE DEF T
        <3> QED
            BY <3>1, LeastOf
    <2>2. k \in Nat /\ ~ \E f : From(k, f)
        OBVIOUS
    <2>3. CASE k = 0
        <3> DEFINE none == [size |-> 0, first |-> 0]
                   f == [s \in Nat |-> none]
        <3>1. \A s \in Nat : s > L => Larger(h, ents, s, f) = none
            BY GoesForward DEF Larger
        <3>2. \A s \in Nat : f[s] = IF s + 0 > L THEN Larger(h, ents, s, f)
                                    ELSE f[s]
            BY <1>1, <3>1
        <3>3. f = [s \in Nat |-> f[s]]
            OBVIOUS
        <3> HIDE DEF f, L, T
        <3>4. From(0, f)
            BY <3>2, <3>3
        <3> QED
            BY <2>2, <2>3, <3>4
    <2>4. CASE k # 0
        <3>1. k - 1 \in Nat /\ k - 1 \notin T
            BY <2>1, <2>2, <2>4
        <3>2. PICK f : From(k - 1, f)
            BY <3>1
        <3> DEFINE g == [s \in Nat |-> IF s + k = L + 1
                                       THEN Larger(h, ents, s, f) ELSE f[s]]
        <3> HIDE DEF L, T
        <3>3. \A s \in Nat : s + (k - 1) > L => f[s] = Larger(h, ents, s, f)
            BY <3>2
        <3>4. ASSUME NEW s \in Nat, s + k > L
              PROVE  g[s] = Larger(h, ents, s, g)
            <4>1. \A t \in Nat : t > s => g[t] = f[t]
                BY <1>1, <2>2, <3>4
            <4>2. Larger(h, ents, s, g) = Larger(h, ents, s, f)
                <5> HIDE DEF g
                <5> QED
                    BY <4>1, LooksForward
            <4>3. CASE s + k = L + 1
                BY <4>2, <4>3
            <4>4. CASE s + k # L + 1
                <5>1. g[s] = f[s] /\ s + (k - 1) > L
                    BY <1>1, <2>2, <3>4, <4>4
                <5> QED
                    BY <3>3, <4>2, <5>1
            <4> QED
                BY <4>3, <4>4
        <3>5. g = [s \in Nat |-> g[s]]
            OBVIOUS
        <3> HIDE DEF g
        <3>6. From(k, g)
            BY <3>4, <3>5
        <3> QED
            BY <2>2, <3>6
    <2> QED
        BY <2>3, <2>4
<1>3. PICK f : From(L + 1, f)
    <2>1. L + 1 \in Nat /\ L + 1 \notin T
        BY <1>1, <1>2
    <2> HIDE DEF L, From
    <2> QED
        BY <2>1
<1>4. \A s \in Nat : s + (L + 1) > L
    BY <1>1
<1> HIDE DEF L, T
<1>5. \A s \in Nat : f[s] = Larger(h, ents, s, f)
    BY <1>3, <1>4
<1>6. f = [s \in Nat |-> f[s]]
    BY <1>3
<1> QED
    BY <1>5, <1>6 DEF Chain

LEMMA LargestOfChain ==
    ASSUME NEW h, NEW ents, Searchable(h, ents)
    PROVE  \E f : Chain(h, ents, f) /\ FirstInLargest(h, ents) = f[0].first
<1> DEFINE g == CHOOSE f : Chain(h, ents, f)
<1>1. Chain(h, ents, g)
    BY ChainExists, Zenon
<1>2. FirstInLargest(h, ents) = g[0].first
    BY DEF FirstInLargest, Chain, Larger
<1> QED
    BY <1>1, <1>2

\* find_first_in_largest gives a sector that is free, and 0 if there is none.
LEMMA FirstInLargestIs ==
    ASSUME NEW h, NEW ents, Searchable(h, ents)
    PROVE  LET first == FirstInLargest(h, ents)
           IN  /\ first \in Nat
               /\ first # 0 => FirstAvailable(h, ents, first) = first
               /\ FirstAvailable(h, ents, 0) # 0 => first # 0
<1>1. PICK f : Chain(h, ents, f) /\ FirstInLargest(h, ents) = f[0].first
    BY LargestOfChain
<1> DEFINE L == h.last_usable_lba
           Good(r) == /\ r.first \in Nat /\ r.size \in Int
                      /\ r.first # 0 =>
                            FirstAvailable(h, ents, r.first) = r.first
                      /\ r.first = 0 => r.size <= 0
           T == {k \in Nat : \E s \in Nat : s + k > L /\ ~Good(f[s])}
<1>2. L \in Nat
    BY DEF Searchable
<1>3. \A s \in Nat : f[s] = Larger(h, ents, s, f)
    BY <1>1 DEF Chain
<1>4. T = {}
    <2> SUFFICES ASSUME T # {} PROVE FALSE
        OBVIOUS
    <2>1. PICK k \in T : \A j \in T : k <= j
        <3>1. T \subseteq Nat
            OBVIOUS
        <3> HIDE DEF T
        <3> QED
            BY <3>1, LeastOf
    <2>2. PICK s \in Nat : s + k > L /\ ~Good(f[s])
        OBVIOUS
    <2> DEFINE first == FirstAvailable(h, ents, s)
               last  == LastFree(h, ents, first)
    <2>3. /\ first \in Nat
          /\ first # 0 => FirstAvailable(h, ents, first) = first
        BY FirstAvailableIs DEF Searchable
    <2>4. /\ first # 0 => last + 1 \in Nat /\ last + 1 > s
          /\ s > L => first = 0
          /\ last \in Int
        BY GoesForward, FirstAvailableIs, LastFreeIs DEF Searchable
    <2>5. \/ f[s] = [size |-> 0, first |-> 0]
          \/ first # 0 /\ f[s] = [size |-> last - first + 1, first |-> first]
          \/ first # 0 /\ f[s] = f[last + 1]
        BY <1>3 DEF Larger
    <2>6. k \in Nat
        OBVIOUS
    <2> HIDE DEF L, first, last, T
    <2>7. first # 0 /\ f[s] = f[last + 1]
        BY <2>2, <2>3, <2>4, <2>5
    <2>8. k # 0
        BY <1>2, <2>2, <2>4, <2>6, <2>7
    <2>9. k - 1 \in Nat /\ (last + 1) + (k - 1) > L
        BY <1>2, <2>2, <2>4, <2>6, <2>7, <2>8
    <2>10. k - 1 \in T
        BY <2>2, <2>4, <2>7, <2>9 DEF T
    <2> QED
        BY <2>1, <2>6, <2>10
<1>5. L + 1 \in Nat /\ L + 1 \notin T /\ 0 + (L + 1) > L
    BY <1>2, <1>4
<1>6. Good(f[0])
    BY <1>5
<1>7. FirstAvailable(h, ents, 0) # 0 => f[0].first # 0
    <2> DEFINE first == FirstAvailable(h, ents, 0)
               last  == LastFree(h, ents, first)
    <2>1. first # 0 => first <= last /\ first \in Nat /\ last \in Nat
        BY FirstAvailableIs, LastFreeIs DEF Searchable
    <2>2. f[0] = Larger(h, ents, 0, f)
        BY <1>3
    <2>3. ASSUME first # 0
          PROVE  \/ f[0] = [size |-> last - first + 1, first |-> first]
                 \/ /\ f[0] = f[last + 1]
                    /\ ~(last - first + 1 >= f[last + 1].size)
        BY <2>2, <2>3 DEF Larger
    <2> HIDE DEF first, last
    <2> QED
        BY <1>6, <2>1, <2>3 DEF first
<1> QED
    BY <1>1, <1>6, <1>7

(***************************************************************************)
(* Types                                                                   *)
(***************************************************************************)
\* A header whose checksums need not be computed yet.
FieldsTyped(h) ==
    /\ h = Header(h.disk_guid, h.my_lba, h.alternative_lba, h.first_usable_lba,
                  h.last_usable_lba, h.partition_entry_lba,
                  h.partition_entry_array_crc32, h.crc32)
    /\ h.disk_guid \in Guids
    /\ {h.my_lba, h.alternative_lba, h.first_usable_lba, h.last_usable_lba,
        h.partition_entry_lba} \subseteq Nat

LabelTyped(l) == IsHeader(l.p) /\ IsHeader(l.b) /\ IsTable(l.ents)

DeviceTyped(d) ==
    DOMAIN d = 0..(MaxSize - 1) /\ \A s \in DOMAIN d : IsSector(d[s])

\* Every device and every size to which one is resized has room for two
\* copies, and what a reader has that finds no table is none.
Roomy ==
    /\ \A d \in Devices : NEntries + 2 <= d.size
    /\ \A n \in Sizes : NEntries + 2 <= n
    /\ ~IsTable(NoTable)

Typed == TypeOK /\ IInv /\ NEntries + 2 <= size

LEMMA HeaderIs ==
    ASSUME NEW h
    PROVE  IsHeader(h) <=> /\ FieldsTyped(h)
                           /\ IsTable(h.partition_entry_array_crc32)
BY Zenon DEF IsHeader, FieldsTyped

LEMMA EntryTyped ==
    ASSUME NEW used \in BOOLEAN, NEW start \in Nat, NEW end \in Int,
           NEW tag \in Tags \cup {0}
    PROVE  Entry(used, start, end, tag) \in Entries
BY DEF Entry, Entries

LEMMA ZeroTyped == Zero \in Entries /\ IsSector(Zero)
<1>1. Zero \in Entries
    BY DEF Zero, Entry, Entries
<1> QED
    BY <1>1 DEF IsSector

LEMMA MbrTyped ==
    ASSUME NEW type \in {"protective", "hybrid", "shifted"}
    PROVE  IsSector(Mbr(type))
<1>1. Mbr(type).kind = "mbr" /\ Mbr(type).type = type
    BY DEF Mbr
<1> QED
    BY <1>1 DEF IsSector

LEMMA HeaderTyped ==
    ASSUME NEW g \in Guids, NEW my \in Nat, NEW alt \in Nat, NEW f \in Nat,
           NEW l \in Nat, NEW at \in Nat, NEW x, NEW y
    PROVE  FieldsTyped(Header(g, my, alt, f, l, at, x, y))
<1> DEFINE h == Header(g, my, alt, f, l, at, x, y)
<1>1. /\ h.disk_guid = g /\ h.my_lba = my /\ h.alternative_lba = alt
      /\ h.first_usable_lba = f /\ h.last_usable_lba = l
      /\ h.partition_entry_lba = at
      /\ h.partition_entry_array_crc32 = x /\ h.crc32 = y
    BY DEF Header
<1>2. h = Header(h.disk_guid, h.my_lba, h.alternative_lba, h.first_usable_lba,
                 h.last_usable_lba, h.partition_entry_lba,
                 h.partition_entry_array_crc32, h.crc32)
    BY <1>1, Zenon
<1> HIDE DEF h
<1> QED
    BY <1>1, <1>2 DEF FieldsTyped

\* A typed header is a header of its fields.
LEMMA TypedHeader ==
    ASSUME NEW h, FieldsTyped(h)
    PROVE  \E g, my, alt, f, l, at, x, y :
              /\ g \in Guids /\ my \in Nat /\ alt \in Nat
              /\ f \in Nat /\ l \in Nat /\ at \in Nat
              /\ h = Header(g, my, alt, f, l, at, x, y)
<1>1. /\ h.my_lba \in Nat /\ h.alternative_lba \in Nat
      /\ h.first_usable_lba \in Nat /\ h.last_usable_lba \in Nat
      /\ h.partition_entry_lba \in Nat
    BY Zenon DEF FieldsTyped
<1> QED
    BY <1>1, Zenon DEF FieldsTyped

LEMMA GuidTyped ==
    ASSUME NEW h, FieldsTyped(h), NEW g \in Guids
    PROVE  FieldsTyped([h EXCEPT !.disk_guid = g])
<1>1. PICK o, my, alt, f, m, at, x, y :
         /\ o \in Guids /\ my \in Nat /\ alt \in Nat
         /\ f \in Nat /\ m \in Nat /\ at \in Nat
         /\ h = Header(o, my, alt, f, m, at, x, y)
    BY TypedHeader
<1>2. [h EXCEPT !.disk_guid = g] = Header(g, my, alt, f, m, at, x, y)
    BY <1>1 DEF Header
<1> QED
    BY <1>1, <1>2, HeaderTyped

\* Checksums do not change the fields they are computed over.
LEMMA RecomputedTyped ==
    ASSUME NEW h, FieldsTyped(h), NEW ents, IsTable(ents)
    PROVE  IsHeader(Recomputed(h, ents))
<1>1. PICK g, my, alt, f, l, at, x, y :
         /\ g \in Guids /\ my \in Nat /\ alt \in Nat
         /\ f \in Nat /\ l \in Nat /\ at \in Nat
         /\ h = Header(g, my, alt, f, l, at, x, y)
    BY TypedHeader
<1> DEFINE z == Covered(h)
           r == Header(g, my, alt, f, l, at, ents, z)
<1>2. Recomputed(h, ents) = r
    <2>1. Recomputed(h, ents) = [Header(g, my, alt, f, l, at, x, y) EXCEPT
                                   !.crc32 = z,
                                   !.partition_entry_array_crc32 = ents]
        BY <1>1, Zenon DEF Recomputed
    <2> HIDE DEF z
    <2> QED
        BY <2>1 DEF Header
<1>3. FieldsTyped(r)
    BY <1>1, HeaderTyped
<1>4. r.partition_entry_array_crc32 = ents
    BY DEF Header
<1> QED
    BY <1>2, <1>3, <1>4, HeaderIs, Zenon

LEMMA SealedTyped ==
    ASSUME NEW l, FieldsTyped(l.p), FieldsTyped(l.b), IsTable(l.ents)
    PROVE  LabelTyped(Sealed(l))
<1>1. /\ Sealed(l).p = Recomputed(l.p, l.ents)
      /\ Sealed(l).b = Recomputed(l.b, l.ents)
      /\ Sealed(l).ents = l.ents
    BY DEF Sealed, Label
<1> QED
    BY <1>1, RecomputedTyped DEF LabelTyped

\* The headers that are built are typed.
LEMMA BuiltTyped ==
    ASSUME NEW n \in Nat, NEntries + 2 <= n, NEW h, FieldsTyped(h),
           NEW guid \in Guids
    PROVE  /\ FieldsTyped(NewPrimary(guid, n))
           /\ FieldsTyped(NewBackup(h, n))
           /\ FieldsTyped(Copied(h, n))
<1>1. /\ BackupEntries(n) \in Nat /\ n - 1 \in Nat /\ PRIMARY \in Nat
      /\ FirstMade(n) \in Nat /\ LastUsable(n) \in Nat /\ 2 \in Nat
    BY GptAssumption
    DEF BackupEntries, PRIMARY, FirstMade, FirstUsable, LastUsable
<1>2. /\ h.disk_guid \in Guids /\ h.my_lba \in Nat /\ h.alternative_lba \in Nat
      /\ h.first_usable_lba \in Nat /\ h.last_usable_lba \in Nat
    BY DEF FieldsTyped
<1>3. FieldsTyped(NewPrimary(guid, n))
    BY <1>1, HeaderTyped DEF NewPrimary
<1>4. FieldsTyped(NewBackup(h, n))
    BY <1>1, <1>2, HeaderTyped DEF NewBackup
<1>5. FieldsTyped(Copied(h, n))
    BY <1>1, <1>2, HeaderTyped DEF Copied
<1> QED
    BY <1>3, <1>4, <1>5

\* A label with sums is not the absence of one.
LEMMA LabelThere ==
    ASSUME NEW l, IsTable(l.ents), Roomy
    PROVE  l # NoLabel
BY DEF Roomy, NoLabel

(***************************************************************************)
(* The device is read                                                      *)
(***************************************************************************)
LEMMA SizeTyped ==
    ASSUME Typed
    PROVE  /\ size \in 1..MaxSize /\ size \in Nat /\ size - 1 \in Nat
           /\ NEntries + 2 <= size
           /\ DOMAIN disk = 0..(MaxSize - 1) /\ 0 \in DOMAIN disk
<1>1. /\ size \in 1..MaxSize /\ NEntries + 2 <= size
      /\ DOMAIN disk = 0..(MaxSize - 1)
    BY DEF Typed, TypeOK
<1> QED
    BY <1>1, EditorAssumption

LEMMA ReadTyped ==
    ASSUME Typed, NEW lba \in Nat, FdiskReads(disk, size, lba)
    PROVE  IsHeader(disk[lba]) /\ IsTable(TableAt(disk, lba).ents)
<1>1. lba \in DOMAIN disk
    <2>1. lba < size
        BY DEF FdiskReads, Intact
    <2> QED
        BY <2>1, SizeTyped, EditorAssumption
<1>2. /\ disk[lba].kind = "header"
      /\ EntriesAt(disk, disk[lba].partition_entry_lba)
            = disk[lba].partition_entry_array_crc32
    BY DEF FdiskReads, Intact
<1>3. IsSector(disk[lba])
    BY <1>1 DEF Typed, TypeOK
<1>4. disk[lba] \notin Entries
    BY <1>2 DEF Entries
<1>5. IsHeader(disk[lba])
    BY <1>2, <1>3, <1>4 DEF IsSector
<1>6. TableAt(disk, lba).ents = disk[lba].partition_entry_array_crc32
    BY <1>2 DEF TableAt
<1> QED
    BY <1>5, <1>6, HeaderIs

LEMMA ProbedTyped ==
    ASSUME Typed, Probed # NoLabel
    PROVE  LabelTyped(Probed)
<1> DEFINE p == disk[PRIMARY]
           pOK == FdiskReads(disk, size, PRIMARY)
           alt == IF pOK THEN p.alternative_lba ELSE size - 1
           bOK == FdiskReads(disk, size, alt)
           ents == TableAt(disk, IF pOK THEN PRIMARY ELSE alt).ents
           fromB == Recomputed(Copied(disk[alt], size), ents)
           fromP == Recomputed(Copied(p, size), ents)
<1>1. Probed = Label(IF pOK THEN p ELSE fromB, IF bOK THEN disk[alt] ELSE fromP,
                     ents)
    BY Zenon DEF Probed
<1>2. pOK \/ bOK
    BY Zenon DEF Probed
<1>3. size \in Nat /\ PRIMARY \in Nat /\ size - 1 \in Nat
      /\ NEntries + 2 <= size
    BY SizeTyped DEF PRIMARY
<1>4. pOK => IsHeader(p) /\ IsTable(TableAt(disk, PRIMARY).ents)
    BY <1>3, ReadTyped
<1>5. alt \in Nat
    BY <1>3, <1>4, HeaderIs DEF FieldsTyped
<1>6. bOK => IsHeader(disk[alt]) /\ IsTable(TableAt(disk, alt).ents)
    BY <1>5, ReadTyped
<1>7. IsTable(ents)
    BY <1>2, <1>4, <1>6
<1>8. ASSUME NEW h, IsHeader(h)
      PROVE  IsHeader(Recomputed(Copied(h, size), ents))
    <2>1. FieldsTyped(h) /\ h.disk_guid \in Guids
        BY <1>8, HeaderIs DEF FieldsTyped
    <2>2. FieldsTyped(Copied(h, size))
        BY <1>3, <2>1, BuiltTyped
    <2> QED
        BY <1>7, <2>2, RecomputedTyped
<1> HIDE DEF p, pOK, alt, bOK, ents
<1>9. /\ pOK => IsHeader(p)
      /\ ~pOK => IsHeader(fromB)
      /\ bOK => IsHeader(disk[alt])
      /\ ~bOK => IsHeader(fromP)
    BY <1>2, <1>4, <1>6, <1>8
<1> HIDE DEF fromB, fromP
<1> QED
    BY <1>1, <1>7, <1>9 DEF Label, LabelTyped

LEMMA InitTyped ==
    ASSUME Roomy, Init
    PROVE  Typed
<1>1. PICK d \in Devices : size = d.size /\ disk = d.disk /\ media = d.disk
    BY DEF Init
<1>2. /\ size \in 1..MaxSize /\ NEntries + 2 <= size
      /\ DOMAIN disk = 0..(MaxSize - 1)
      /\ \A s \in DOMAIN disk : IsSector(disk[s])
    BY <1>1, DeviceAssumption DEF Roomy
<1>3. \A ents \in begun : IsTable(ents)
    <2> SUFFICES ASSUME NEW s \in DOMAIN disk, disk[s].kind = "header"
                 PROVE  IsTable(disk[s].partition_entry_array_crc32)
        BY DEF Init
    <2>1. IsSector(disk[s]) /\ disk[s] \notin Entries
        BY <1>2 DEF Entries
    <2> QED
        BY <2>1, HeaderIs DEF IsSector
<1>4. /\ open = FALSE /\ sure = FALSE /\ clean = TRUE /\ calls = 0
      /\ mbr = Zero /\ pc = "idle" /\ gpt = NoLabel
    BY DEF Init
<1>5. IInv
    BY InitInv
<1>6. 0 \in 0..MaxCalls
    BY EditorAssumption
<1> QED
    BY <1>1, <1>2, <1>3, <1>4, <1>5, <1>6, ZeroTyped
    DEF Typed, TypeOK, HasLabel

\* A call that changes the table in memory.
LEMMA MemoryTyped ==
    ASSUME Typed, IInv', pc = "idle", calls < MaxCalls, calls' = calls + 1,
           UNCHANGED <<size, disk, media, pc, sure, begun, clean>>,
           open' \in BOOLEAN, IsSector(mbr'), HasLabel' => LabelTyped(gpt')
    PROVE  Typed'
<1>1. calls' \in 0..MaxCalls
    BY EditorAssumption DEF Typed, TypeOK
<1>2. TypeOK'
    BY <1>1 DEF Typed, TypeOK, LabelTyped
<1> QED
    BY <1>2 DEF Typed

\* The table in memory is changed, and the sums with it or not.
LEMMA EditTyped ==
    ASSUME Typed, IInv', Editing, UNCHANGED mbr, UNCHANGED_Device,
           calls' = calls + 1,
           LabelTyped(gpt) => LabelTyped(gpt')
    PROVE  Typed'
<1>1. /\ pc = "idle" /\ calls < MaxCalls /\ HasLabel
      /\ UNCHANGED <<size, disk, media, open, pc, sure, begun, clean>>
    BY DEF Editing, UNCHANGED_Device
<1>2. open' \in BOOLEAN /\ IsSector(mbr') /\ LabelTyped(gpt)
    BY <1>1 DEF Typed, TypeOK, LabelTyped
<1> QED
    BY <1>1, <1>2, MemoryTyped

\* What an edited label is made of.
LEMMA EditedFields ==
    ASSUME Typed, HasLabel
    PROVE  /\ LabelShape(gpt) /\ LabelTyped(gpt)
           /\ FieldsTyped(gpt.p) /\ FieldsTyped(gpt.b)
           /\ IsTable(gpt.ents)
<1>1. LabelShape(gpt) /\ IsHeader(gpt.p) /\ IsHeader(gpt.b) /\ IsTable(gpt.ents)
    BY DEF Typed, TypeOK, IInv
<1> QED
    BY <1>1, HeaderIs DEF LabelTyped

\* New entries under the sums of the old, or sealed with their own.
LEMMA EntsTyped ==
    ASSUME Typed, HasLabel, NEW ents, IsTable(ents)
    PROVE  /\ LabelTyped([gpt EXCEPT !.ents = ents])
           /\ LabelTyped(Sealed([gpt EXCEPT !.ents = ents]))
<1> DEFINE l == [gpt EXCEPT !.ents = ents]
<1>1. /\ LabelShape(gpt) /\ LabelTyped(gpt)
      /\ FieldsTyped(gpt.p) /\ FieldsTyped(gpt.b)
    BY EditedFields
<1>2. l.p = gpt.p /\ l.b = gpt.b /\ l.ents = ents
    BY <1>1 DEF LabelShape
<1> HIDE DEF l
<1>3. LabelTyped(l)
    BY <1>1, <1>2 DEF LabelTyped
<1>4. LabelTyped(Sealed(l))
    BY <1>1, <1>2, SealedTyped
<1> QED
    BY <1>3, <1>4 DEF l

LEMMA SessionTyped ==
    ASSUME Roomy, Typed, IInv',
           Assign \/ Deassign \/ (\E g \in Guids : Create(g))
    PROVE  Typed'
<1>1. CASE Assign
    <2>1. HasLabel' => LabelTyped(gpt')
        BY <1>1, ProbedTyped DEF Assign, HasLabel, NoLabel
    <2>2. IsSector(mbr')
        <3>1. 0 \in DOMAIN disk
            BY SizeTyped
        <3> QED
            BY <1>1, <3>1 DEF Assign, Typed, TypeOK
    <2> QED
        BY <1>1, <2>1, <2>2, MemoryTyped DEF Assign, Return
<1>2. CASE Deassign
    BY <1>2 DEF Deassign, Typed, TypeOK, HasLabel
<1>3. ASSUME NEW g \in Guids, Create(g)
      PROVE  Typed'
    <2> DEFINE p == NewPrimary(g, size)
               l == Label(p, NewBackup(p, size), [i \in Slots |-> Zero])
    <2>1. gpt' = Sealed(l)
        BY <1>3, Zenon DEF Create
    <2>2. size \in Nat /\ NEntries + 2 <= size
        BY SizeTyped
    <2>3. \E h : FieldsTyped(h)
        <3>1. 0 \in Nat
            OBVIOUS
        <3> QED
            BY <3>1, HeaderTyped
    <2>4. FieldsTyped(p)
        BY <2>2, <2>3, BuiltTyped
    <2>5. FieldsTyped(NewBackup(p, size))
        BY <2>2, <2>4, BuiltTyped
    <2>6. IsTable([i \in Slots |-> Zero])
        BY ZeroTyped DEF IsTable
    <2>7. /\ l.p = p /\ l.b = NewBackup(p, size)
          /\ l.ents = [i \in Slots |-> Zero]
        BY DEF Label
    <2>8. LabelTyped(Sealed(l))
        <3> HIDE DEF l, p
        <3> QED
            BY <2>4, <2>5, <2>6, <2>7, SealedTyped
    <2>9. IsSector(mbr')
        BY <1>3, MbrTyped DEF Create
    <2> QED
        BY <1>3, <2>1, <2>8, <2>9, MemoryTyped
        DEF Create, Return, UNCHANGED_Device, Typed, TypeOK
<1> QED
    BY <1>1, <1>2, <1>3

(***************************************************************************)
(* Changes in memory                                                       *)
(***************************************************************************)
LEMMA AlignIs ==
    ASSUME NEW lba \in Int, NEW up \in Nat, NEW least \in Nat
    PROVE  /\ Align(lba, up, least) \in Int
           /\ lba \in Nat => Align(lba, up, least) \in Nat
<1>1. Grain \in Nat /\ Grain > 0
    BY GptAssumption
<1>2. ASSUME NEW n \in Int
      PROVE  n \div Grain \in Int /\ (n \in Nat => n \div Grain \in Nat)
    BY <1>1
<1>3. (lba + up) \div Grain \in Int
      /\ (lba \in Nat => (lba + up) \div Grain \in Nat)
    BY <1>2
<1>4. ASSUME NEW q \in Int
      PROVE  q * Grain \in Int /\ (q \in Nat => q * Grain \in Nat)
    BY <1>1
<1>5. least \in Int
    OBVIOUS
<1> QED
    BY <1>3, <1>4, <1>5, Zenon DEF Align

LEMMA AlignInRangeIs ==
    ASSUME NEW lba \in Int, NEW start \in Int, NEW stop \in Int,
           NEW least \in Nat
    PROVE  /\ AlignInRange(lba, start, stop, least) \in Int
           /\ lba \in Nat /\ start \in Nat /\ stop \in Nat =>
                 AlignInRange(lba, start, stop, least) \in Nat
<1> DEFINE lo == Align(start, Grain, least)
           hi == Align(stop, 0, least)
           at == Align(lba, Grain \div 2, least)
<1>1. Grain \in Nat /\ 0 \in Nat /\ Grain \div 2 \in Nat
    BY GptAssumption
<1>2. /\ lo \in Int /\ hi \in Int /\ at \in Int
      /\ start \in Nat => lo \in Nat
      /\ stop \in Nat => hi \in Nat
      /\ lba \in Nat => at \in Nat
    BY <1>1, AlignIs
<1>3. AlignInRange(lba, start, stop, least)
         = IF at < lo THEN lo ELSE IF at > hi THEN hi ELSE at
    BY DEF AlignInRange
<1> HIDE DEF lo, hi, at
<1> QED
    BY <1>2, <1>3

LEMMA AddedTyped ==
    ASSUME Typed, HasLabel, NEW pa \in Partition
    PROVE  AddedStart(pa) \in Nat /\ AddedEnd(pa, AddedStart(pa)) \in Int
<1> DEFINE h == gpt.p
           ents == gpt.ents
           first == FirstInLargest(h, ents)
           start == AddedStart(pa)
           least == h.first_usable_lba
<1>1. /\ h.first_usable_lba \in Nat /\ h.last_usable_lba \in Nat
      /\ \A i \in Slots : ents[i].start \in Int
    <2>1. FieldsTyped(h) /\ IsTable(ents)
        BY EditedFields
    <2>2. h.first_usable_lba \in Nat /\ h.last_usable_lba \in Nat
        BY <2>1, Zenon DEF FieldsTyped
    <2>3. \A i \in Slots : ents[i] \in Entries
        BY <2>1 DEF IsTable
    <2>4. \A i \in Slots : ents[i].start \in Int
        BY <2>3 DEF Entries
    <2> QED
        BY <2>2, <2>4
<1>2. /\ pa.start \in Nat \/ pa.start = Default
      /\ pa.length \in Nat \/ pa.length = Default
    BY EditorAssumption DEF Partition
<1>3. first \in Nat /\ (first # 0 => FirstAvailable(h, ents, first) = first)
    BY <1>1, FirstInLargestIs DEF Searchable
<1>4. first <= h.last_usable_lba
    <2>1. first # 0 => first \in h.first_usable_lba..h.last_usable_lba
        BY <1>1, <1>3, FirstAvailableIs
    <2> HIDE DEF first
    <2> QED
        BY <1>1, <1>3, <2>1
<1>5. LastFree(h, ents, first) \in Nat
    <2>1. /\ LastFree(h, ents, first) \in Int
          /\ first <= LastFree(h, ents, first)
        BY <1>1, <1>3, <1>4, LastFreeIs
    <2> HIDE DEF first
    <2> QED
        BY <1>3, <2>1
<1>6. AlignInRange(first, first, LastFree(h, ents, first),
                   h.first_usable_lba) \in Nat
    <2> DEFINE stop == LastFree(h, ents, first)
    <2>1. first \in Int /\ stop \in Int /\ stop \in Nat /\ least \in Nat
        BY <1>1, <1>3, <1>5
    <2> HIDE DEF first, stop, least
    <2>2. AlignInRange(first, first, stop, least) \in Nat
        BY <1>3, <2>1, AlignInRangeIs
    <2> QED
        BY <2>2 DEF stop, least
<1>7. start \in Nat
    BY <1>2, <1>6 DEF AddedStart
<1> DEFINE last == LastFree(h, ents, start)
           end == start + pa.length - 1
<1>8. last \in Int
    BY <1>1, <1>7, LastFreeIs
<1>9. pa.length # Default =>
         end \in Int /\ AlignInRange(end, start, last, least) - 1 \in Int
    <2> HIDE DEF start, last
    <2>1. pa.length # Default => end \in Int
        BY <1>2, <1>7
    <2>2. pa.length # Default => AlignInRange(end, start, last, least) \in Int
        <3> HIDE DEF end
        <3>1. start \in Int /\ least \in Nat
            BY <1>1, <1>7
        <3> HIDE DEF least
        <3> QED
            BY <1>8, <2>1, <3>1, AlignInRangeIs, Zenon
    <2> DEFINE at == AlignInRange(end, start, last, least)
    <2>3. pa.length # Default => at - 1 \in Int
        <3> HIDE DEF at, end
        <3> QED
            BY <2>2 DEF at
    <2> QED
        BY <2>1, <2>3, Zenon
<1>10. AddedEnd(pa, start) = IF pa.length = Default THEN last
                             ELSE IF end = last \/ Explicit THEN end
                             ELSE AlignInRange(end, start, last, least) - 1
    BY Zenon DEF AddedEnd
<1> HIDE DEF start, last, end, least
<1>11. AddedEnd(pa, start) \in Int
    BY <1>8, <1>9, <1>10
<1> QED
    BY <1>7, <1>11 DEF start

LEMMA PlacedTyped ==
    ASSUME NEW ents, IsTable(ents), NEW n \in Slots, NEW e \in Entries
    PROVE  IsTable([ents EXCEPT ![n] = e])
BY DEF IsTable

LEMMA AddTyped ==
    ASSUME Typed, IInv', NEW n \in Slots, NEW pa \in Partition, NEW bad,
           Add(n, pa, bad)
    PROVE  Typed'
<1> DEFINE start == AddedStart(pa)
           e == Entry(TRUE, start, AddedEnd(pa, start),
                      IF bad THEN gpt.ents[n].tag ELSE pa.tag)
           ents == [gpt.ents EXCEPT ![n] = e]
<1>1. Editing /\ HasLabel /\ UNCHANGED mbr /\ UNCHANGED_Device
    BY DEF Add, Editing
<1>2. IsTable(gpt.ents) /\ gpt.ents[n] \in Entries
    BY <1>1, EditedFields DEF IsTable
<1>3. pa.tag \in Tags \cup {0} /\ gpt.ents[n].tag \in Tags \cup {0}
    BY <1>2 DEF Partition, Entries
<1>4. start \in Nat /\ AddedEnd(pa, start) \in Int
    BY <1>1, AddedTyped
<1>5. e \in Entries
    <2> HIDE DEF start
    <2> QED
        BY <1>3, <1>4, EntryTyped
<1>6. IsTable(ents)
    <2> HIDE DEF e
    <2> QED
        BY <1>2, <1>5, PlacedTyped
<1>7. /\ LabelTyped([gpt EXCEPT !.ents = ents])
      /\ LabelTyped(Sealed([gpt EXCEPT !.ents = ents]))
    <2> HIDE DEF ents
    <2> QED
        BY <1>1, <1>6, EntsTyped
<1>8. \/ gpt' = gpt
      \/ gpt' = [gpt EXCEPT !.ents = ents]
      \/ gpt' = Sealed([gpt EXCEPT !.ents = ents])
    <2>1. ents = [gpt.ents EXCEPT ![n] =
                     Entry(TRUE, start, AddedEnd(pa, start),
                           IF bad THEN @.tag ELSE pa.tag)]
        OBVIOUS
    <2> HIDE DEF ents
    <2> QED
        BY <2>1, Zenon DEF Add
<1>9. calls' = calls + 1
    BY Zenon DEF Add, Return
<1> HIDE DEF ents
<1> QED
    BY <1>1, <1>7, <1>8, <1>9, EditTyped

LEMMA SetTyped ==
    ASSUME Typed, IInv', NEW n \in Slots, NEW pa \in Partition,
           NEW enlarge \in BOOLEAN, NEW bad, Set(n, pa, enlarge, bad)
    PROVE  Typed'
<1> DEFINE e == gpt.ents[n]
           t == IF pa.tag = 0 THEN e.tag ELSE pa.tag
           new == Entry(TRUE, SetStart(e, pa, enlarge), SetEnd(e, pa, enlarge), t)
           old == [e EXCEPT !.tag = t]
<1>1. Editing /\ HasLabel /\ UNCHANGED mbr /\ UNCHANGED_Device
    BY DEF Set, Editing
<1>2. IsTable(gpt.ents) /\ e \in Entries /\ LabelShape(gpt)
      /\ FieldsTyped(gpt.b)
    BY <1>1, EditedFields DEF IsTable
<1>3. /\ t \in Tags \cup {0} /\ e.start \in Nat /\ e.end \in Int
      /\ pa.start \in Nat \/ pa.start = Default
      /\ pa.length \in Nat \/ pa.length = Default
    BY <1>2, EditorAssumption DEF Partition, Entries
<1>4. gpt.b.last_usable_lba \in Int /\ \A i \in Slots : gpt.ents[i].start \in Int
    <2>1. gpt.b.last_usable_lba \in Nat
        BY <1>2, Zenon DEF FieldsTyped
    <2>2. \A i \in Slots : gpt.ents[i] \in Entries
        BY <1>2 DEF IsTable
    <2> QED
        BY <2>1, <2>2 DEF Entries
<1>5. ASSUME NEW s \in Int PROVE LastFree(gpt.b, gpt.ents, s) \in Int
    BY <1>4, <1>5, LastFreeIs
<1>6. SetStart(e, pa, enlarge) \in Nat
    BY <1>3 DEF SetStart
<1>7. SetEnd(e, pa, enlarge) \in Int
    <2>1. LastFree(gpt.b, gpt.ents, e.start) \in Int
        BY <1>3, <1>5
    <2>2. LastFree(gpt.b, gpt.ents, MaxSize) \in Int
        BY <1>5, EditorAssumption
    <2>3. pa.length # Default => e.start + pa.length - 1 \in Int
        BY <1>3
    <2> HIDE DEF e
    <2> QED
        BY <1>3, <2>1, <2>2, <2>3, Zenon DEF SetEnd
<1>8. new \in Entries
    <2> HIDE DEF e, t
    <2> QED
        BY <1>3, <1>6, <1>7, EntryTyped
<1>9. old \in Entries
    <2> HIDE DEF t
    <2> QED
        BY <1>2, <1>3 DEF Entries
<1>10. /\ IsTable([gpt.ents EXCEPT ![n] = new])
       /\ IsTable([gpt.ents EXCEPT ![n] = old])
    <2> HIDE DEF new, old
    <2> QED
        BY <1>2, <1>8, <1>9, PlacedTyped
<1>11. \/ gpt' = [gpt EXCEPT !.ents = [gpt.ents EXCEPT ![n] = old]]
       \/ gpt' = Sealed([gpt EXCEPT !.ents = [gpt.ents EXCEPT ![n] = new]])
    <2>1. CASE bad
        <3>1. gpt' = [gpt EXCEPT !.ents[n].tag = t]
            BY <2>1, Zenon DEF Set
        <3> HIDE DEF t
        <3> QED
            BY <1>2, <3>1 DEF LabelShape
    <2>2. CASE ~bad
        <3>1. gpt' = Sealed([gpt EXCEPT !.ents[n] = new])
            BY <2>2, Zenon DEF Set
        <3>2. [gpt EXCEPT !.ents[n] = new]
                 = [gpt EXCEPT !.ents = [gpt.ents EXCEPT ![n] = new]]
            <4> HIDE DEF new
            <4> QED
                BY <1>2 DEF LabelShape
        <3> QED
            BY <3>1, <3>2, Zenon
    <2> QED
        BY <2>1, <2>2
<1>12. LabelTyped(gpt')
    <2> HIDE DEF new, old
    <2> QED
        BY <1>1, <1>10, <1>11, EntsTyped, Zenon
<1>13. calls' = calls + 1
    BY Zenon DEF Set, Return
<1> QED
    BY <1>1, <1>12, <1>13, EditTyped

LEMMA ToggleTyped ==
    ASSUME Typed, IInv', NEW n \in Slots,
           (\E t \in Tags : ToggleFlag(n, t)) \/ Delete(n)
    PROVE  Typed'
<1>1. Editing /\ HasLabel /\ UNCHANGED mbr /\ UNCHANGED_Device
      /\ calls' = calls + 1
    BY DEF ToggleFlag, Delete, Editing, Return
<1>2. IsTable(gpt.ents) /\ gpt.ents[n] \in Entries /\ LabelShape(gpt)
    BY <1>1, EditedFields DEF IsTable
<1>3. PICK e \in Entries :
         gpt' = Sealed([gpt EXCEPT !.ents = [gpt.ents EXCEPT ![n] = e]])
    <2>1. ASSUME NEW t \in Tags, ToggleFlag(n, t)
          PROVE  \E e \in Entries :
                    gpt' = Sealed([gpt EXCEPT !.ents = [gpt.ents EXCEPT ![n] = e]])
        <3> DEFINE e == [gpt.ents[n] EXCEPT !.tag = t]
        <3>1. e \in Entries
            BY <1>2 DEF Entries
        <3>2. [gpt EXCEPT !.ents[n].tag = t]
                 = [gpt EXCEPT !.ents = [gpt.ents EXCEPT ![n] = e]]
            BY <1>2 DEF LabelShape
        <3>3. gpt' = Sealed([gpt EXCEPT !.ents[n].tag = t])
            BY <2>1, Zenon DEF ToggleFlag
        <3> QED
            BY <3>1, <3>2, <3>3, Zenon
    <2>2. CASE Delete(n)
        <3>1. [gpt EXCEPT !.ents[n] = Zero]
                 = [gpt EXCEPT !.ents = [gpt.ents EXCEPT ![n] = Zero]]
            BY <1>2 DEF LabelShape
        <3>2. gpt' = Sealed([gpt EXCEPT !.ents[n] = Zero])
            BY <2>2, Zenon DEF Delete
        <3> QED
            BY <3>1, <3>2, ZeroTyped, Zenon
    <2> QED
        BY <2>1, <2>2
<1>4. LabelTyped(gpt')
    BY <1>1, <1>2, <1>3, PlacedTyped, EntsTyped
<1> QED
    BY <1>1, <1>4, EditTyped

LEMMA WholeTyped ==
    ASSUME Typed, IInv',
           (\E g \in Guids : SetId(g)) \/ Reorder \/ Verify
    PROVE  Typed'
<1>1. Editing /\ HasLabel /\ UNCHANGED mbr /\ UNCHANGED_Device
      /\ calls' = calls + 1
    BY DEF SetId, Reorder, Verify, Editing, Return
<1>2. /\ LabelShape(gpt) /\ LabelTyped(gpt) /\ IsTable(gpt.ents)
      /\ FieldsTyped(gpt.p) /\ FieldsTyped(gpt.b)
    BY <1>1, EditedFields
<1>3. ASSUME NEW g \in Guids, SetId(g)
      PROVE  LabelTyped(gpt')
    <2> DEFINE l == [gpt EXCEPT !.p.disk_guid = g, !.b.disk_guid = g]
    <2>1. gpt' = Sealed(l)
        BY <1>3, Zenon DEF SetId
    <2>2. /\ l.p = [gpt.p EXCEPT !.disk_guid = g]
          /\ l.b = [gpt.b EXCEPT !.disk_guid = g]
          /\ l.ents = gpt.ents
        BY <1>2 DEF LabelShape
    <2> HIDE DEF l
    <2>3. FieldsTyped(l.p) /\ FieldsTyped(l.b) /\ IsTable(l.ents)
        BY <1>2, <2>2, GuidTyped
    <2> QED
        BY <2>1, <2>3, SealedTyped
<1>4. CASE Reorder
    <2>1. PICK to \in [Slots -> Slots] :
             gpt' = Sealed([gpt EXCEPT !.ents = [i \in Slots |-> gpt.ents[to[i]]]])
        BY <1>4, Zenon DEF Reorder
    <2> DEFINE ents == [i \in Slots |-> gpt.ents[to[i]]]
    <2>2. IsTable(ents)
        BY <1>2 DEF IsTable
    <2> HIDE DEF ents
    <2>3. gpt' = Sealed([gpt EXCEPT !.ents = ents])
        BY <2>1 DEF ents
    <2>4. LabelTyped(gpt')
        BY <1>1, <2>2, <2>3, EntsTyped
    <2> QED
        BY <1>1, <2>4, EditTyped
<1>5. CASE Verify
    <2>1. ASSUME NEW h, IsHeader(h)
          PROVE  IsHeader(Rechecked(h, gpt.ents))
        <3>1. IsHeader(Recomputed(h, gpt.ents))
            BY <1>2, <2>1, HeaderIs, RecomputedTyped
        <3> QED
            BY <2>1, <3>1, Zenon DEF Rechecked
    <2>2. gpt' = Label(Rechecked(gpt.p, gpt.ents), Rechecked(gpt.b, gpt.ents),
                       gpt.ents)
        BY <1>5 DEF Verify
    <2>3. /\ gpt'.p = Rechecked(gpt.p, gpt.ents)
          /\ gpt'.b = Rechecked(gpt.b, gpt.ents)
          /\ gpt'.ents = gpt.ents
        BY <2>2 DEF Label
    <2>4. IsHeader(gpt.p) /\ IsHeader(gpt.b)
        BY <1>2 DEF LabelTyped
    <2>5. IsHeader(gpt'.p) /\ IsHeader(gpt'.b)
        BY <2>1, <2>3, <2>4, Zenon
    <2>6. LabelTyped(gpt')
        BY <1>2, <2>3, <2>5, Zenon DEF LabelTyped
    <2> QED
        BY <1>1, <2>6, EditTyped
<1> QED
    BY <1>1, <1>3, <1>4, <1>5, EditTyped

LEMMA ChangeTyped ==
    ASSUME Roomy, Typed, IInv', Change
    PROVE  Typed'
<1>1. \/ \E g \in Guids : Create(g)
      \/ (\E g \in Guids : SetId(g)) \/ Reorder \/ Verify
      \/ \E n \in Slots, pa \in Partition, bad \in Bad : Add(n, pa, bad)
      \/ \E n \in Slots, pa \in Partition, enlarge \in BOOLEAN, bad \in Bad :
            Set(n, pa, enlarge, bad)
      \/ \E n \in Slots : (\E t \in Tags : ToggleFlag(n, t)) \/ Delete(n)
    <2>1. ASSUME NEW t \in Tags PROVE [Unasked EXCEPT !.tag = t] \in Partition
        BY DEF Unasked, Partition
    <2>2. FALSE \in Bad /\ FALSE \in BOOLEAN
        BY DEF Bad
    <2> QED
        BY <2>1, <2>2, Zenon DEF Change
<1>2. CASE \E g \in Guids : Create(g)
    BY <1>2, SessionTyped
<1>3. CASE (\E g \in Guids : SetId(g)) \/ Reorder \/ Verify
    BY <1>3, WholeTyped
<1>4. CASE \E n \in Slots, pa \in Partition, bad \in Bad : Add(n, pa, bad)
    BY <1>4, AddTyped
<1>5. CASE \E n \in Slots, pa \in Partition, enlarge \in BOOLEAN, bad \in Bad :
              Set(n, pa, enlarge, bad)
    BY <1>5, SetTyped
<1>6. CASE \E n \in Slots : (\E t \in Tags : ToggleFlag(n, t)) \/ Delete(n)
    BY <1>6, ToggleTyped
<1> QED
    BY <1>1, <1>2, <1>3, <1>4, <1>5, <1>6

(***************************************************************************)
(* Writing and faults                                                      *)
(***************************************************************************)
LEMMA PartsOfTable ==
    NEntries \in 0..NEntries /\ \A k \in 1..(NEntries - 1) : k \in 0..NEntries
BY GptAssumption

LEMMA PutTyped ==
    ASSUME NEW d, DeviceTyped(d), DeviceTyped(media), Put(d)
    PROVE  DeviceTyped(disk') /\ DeviceTyped(media')
BY DEF Put

LEMMA DevicesTyped ==
    ASSUME Typed
    PROVE  DeviceTyped(disk) /\ DeviceTyped(media)
BY DEF Typed, TypeOK, DeviceTyped

LEMMA EntriesPutTyped ==
    ASSUME Typed, HasLabel, NEW lba \in Nat, NEW k \in 0..NEntries
    PROVE  DeviceTyped(WithEntries(lba, k))
<1> DEFINE d == WithEntries(lba, k)
<1>1. DOMAIN d = DOMAIN disk /\ DeviceTyped(disk) /\ IsTable(gpt.ents)
    BY DevicesTyped, EditedFields DEF WithEntries
<1>2. ASSUME NEW s \in DOMAIN disk
      PROVE  IsSector(d[s])
    <2>1. CASE s \in lba..(lba + k - 1)
        <3>1. s - lba \in Slots
            BY <2>1, GptAssumption DEF Slots
        <3>2. d[s] = gpt.ents[s - lba]
            BY <2>1 DEF WithEntries
        <3> QED
            BY <1>1, <3>1, <3>2 DEF IsTable, IsSector
    <2>2. CASE s \notin lba..(lba + k - 1)
        <3>1. d[s] = disk[s]
            BY <2>2 DEF WithEntries
        <3> QED
            BY <1>1, <3>1 DEF DeviceTyped
    <2> QED
        BY <2>1, <2>2
<1> HIDE DEF d
<1>3. DeviceTyped(d)
    BY <1>1, <1>2 DEF DeviceTyped
<1> QED
    BY <1>3 DEF d

LEMMA SectorPutTyped ==
    ASSUME Typed, NEW lba, NEW h, IsSector(h)
    PROVE  DeviceTyped([disk EXCEPT ![lba] = h])
<1>1. DeviceTyped(disk)
    BY DevicesTyped
<1> QED
    BY <1>1 DEF DeviceTyped

\* A step of a write, or of what happens to the device.
LEMMA StepTyped ==
    ASSUME Typed, IInv', UNCHANGED <<size, sure, begun, calls>>,
           DeviceTyped(disk'), DeviceTyped(media'), clean' \in BOOLEAN,
           IsSector(mbr'),
           \/ UNCHANGED <<open, gpt>> /\ (pc' # "idle" => pc # "idle")
           \/ open' \in BOOLEAN /\ gpt' = NoLabel /\ pc' = "idle",
           pc' \in {"idle", "backup entries", "backup header", "entries",
                    "header", "mbr"}
    PROVE  Typed'
<1>1. /\ size' \in 1..MaxSize /\ NEntries + 2 <= size'
      /\ sure' \in BOOLEAN /\ calls' \in 0..MaxCalls
      /\ \A ents \in begun' : IsTable(ents)
    BY DEF Typed, TypeOK
<1>2. /\ open' \in BOOLEAN
      /\ HasLabel' => IsHeader(gpt'.p) /\ IsHeader(gpt'.b) /\ IsTable(gpt'.ents)
      /\ pc' # "idle" => open' /\ HasLabel'
    BY DEF Typed, TypeOK, HasLabel
<1>3. /\ DOMAIN disk' = 0..(MaxSize - 1) /\ DOMAIN media' = DOMAIN disk'
      /\ \A s \in DOMAIN disk' : IsSector(disk'[s]) /\ IsSector(media'[s])
    BY DEF DeviceTyped
<1>4. TypeOK'
    BY <1>1, <1>2, <1>3 DEF TypeOK
<1> QED
    BY <1>1, <1>4 DEF Typed

LEMMA WritingTyped ==
    ASSUME Typed, pc # "idle"
    PROVE  /\ HasLabel
           /\ gpt.p.partition_entry_lba \in Nat
           /\ gpt.b.partition_entry_lba \in Nat
           /\ IsSector(gpt.p) /\ IsSector(gpt.b)
<1>1. HasLabel
    BY DEF Typed, TypeOK
<1>2. /\ LabelShape(gpt) /\ LabelTyped(gpt)
      /\ FieldsTyped(gpt.p) /\ FieldsTyped(gpt.b)
    BY <1>1, EditedFields
<1>3. gpt.p.kind = "header" /\ gpt.b.kind = "header"
    BY <1>2 DEF LabelShape, HeaderShape
<1>4. IsSector(gpt.p) /\ IsSector(gpt.b)
    BY <1>2, <1>3 DEF LabelTyped, IsSector
<1> QED
    BY <1>1, <1>2, <1>4, Zenon DEF FieldsTyped

LEMMA WriteEntriesTyped ==
    ASSUME Typed, IInv', NEW here, here # "idle", NEW lba \in Nat,
           NEW there \in {"backup header", "header"},
           WriteEntries(here, lba, there)
    PROVE  Typed'
<1>1. /\ UNCHANGED <<size, open, mbr, gpt, sure, begun, calls>>
      /\ pc # "idle" /\ pc' \in {"idle", there}
      /\ clean' \in BOOLEAN
    BY DEF WriteEntries, memory, Abort, Typed, TypeOK
<1>2. HasLabel /\ IsSector(mbr')
    BY <1>1, WritingTyped DEF Typed, TypeOK
<1>3. \/ \E k \in 0..NEntries : Put(WithEntries(lba, k))
      \/ UNCHANGED <<disk, media>>
    <2>1. NEntries \in 0..NEntries
          /\ \A k \in 1..(NEntries - 1) : k \in 0..NEntries
        BY PartsOfTable
    <2>2. \/ Put(WithEntries(lba, NEntries))
          \/ \E k \in 1..(NEntries - 1) : Put(WithEntries(lba, k))
          \/ UNCHANGED <<disk, media>>
        BY Zenon DEF WriteEntries
    <2>3. ASSUME NEW k \in 1..(NEntries - 1), Put(WithEntries(lba, k))
          PROVE  \E n \in 0..NEntries : Put(WithEntries(lba, n))
        BY <2>1, <2>3, Zenon
    <2> QED
        BY <2>1, <2>2, <2>3, Zenon
<1>4. DeviceTyped(disk') /\ DeviceTyped(media')
    <2>1. CASE UNCHANGED <<disk, media>>
        BY <2>1, DevicesTyped
    <2>2. ASSUME NEW k \in 0..NEntries, Put(WithEntries(lba, k))
          PROVE  DeviceTyped(disk') /\ DeviceTyped(media')
        BY <1>2, <2>2, EntriesPutTyped, DevicesTyped, PutTyped
    <2> QED
        BY <1>3, <2>1, <2>2
<1> QED
    BY <1>1, <1>2, <1>4, StepTyped

LEMMA WriteHeaderTyped ==
    ASSUME Typed, IInv', NEW here, here # "idle", NEW h, IsSector(h), NEW lba,
           NEW there \in {"entries", "mbr"}, WriteHeader(here, h, lba, there)
    PROVE  Typed'
<1>1. /\ UNCHANGED <<size, open, mbr, gpt, sure, begun, calls>>
      /\ pc # "idle" /\ pc' \in {"idle", there}
      /\ clean' \in BOOLEAN
    BY DEF WriteHeader, memory, Abort, Typed, TypeOK
<1>2. IsSector(mbr')
    BY <1>1 DEF Typed, TypeOK
<1>3. Put([disk EXCEPT ![lba] = h]) \/ UNCHANGED <<disk, media>>
    BY DEF WriteHeader
<1>4. DeviceTyped(disk') /\ DeviceTyped(media')
    <2>1. CASE UNCHANGED <<disk, media>>
        BY <2>1, DevicesTyped
    <2>2. CASE Put([disk EXCEPT ![lba] = h])
        BY <2>2, SectorPutTyped, DevicesTyped, PutTyped
    <2> QED
        BY <1>3, <2>1, <2>2
<1> QED
    BY <1>1, <1>2, <1>4, StepTyped

LEMMA WriteMbrTyped ==
    ASSUME Typed, IInv', WriteMbr
    PROVE  Typed'
<1> DEFINE d == [disk EXCEPT ![0] = Mbr("protective")]
<1>1. /\ UNCHANGED <<size, open, gpt, sure, begun, calls>>
      /\ pc' = "idle"
      /\ mbr' = mbr \/ mbr' = Mbr("protective")
      /\ clean' \in BOOLEAN
      /\ Put(d) \/ UNCHANGED <<disk, media>>
    BY DEF WriteMbr, Abort, Typed, TypeOK
<1>2. IsSector(Mbr("protective")) /\ IsSector(mbr')
    BY <1>1, MbrTyped DEF Typed, TypeOK
<1>3. DeviceTyped(d)
    BY <1>2, SectorPutTyped
<1> HIDE DEF d
<1>4. DeviceTyped(disk') /\ DeviceTyped(media')
    <2>1. CASE UNCHANGED <<disk, media>>
        BY <2>1, DevicesTyped
    <2>2. CASE Put(d)
        BY <1>3, <2>2, DevicesTyped, PutTyped
    <2> QED
        BY <1>1, <2>1, <2>2
<1> QED
    BY <1>1, <1>2, <1>4, StepTyped

LEMMA WriteBeginTyped ==
    ASSUME Roomy, Typed, IInv', WriteBegin
    PROVE  Typed'
<1>1. Editing /\ UNCHANGED <<size, disk, media, open, mbr, clean>>
      /\ calls' = calls + 1
    BY DEF WriteBegin, Return
<1>2. /\ LabelTyped(gpt) /\ FieldsTyped(gpt.p) /\ FieldsTyped(gpt.b)
      /\ IsTable(gpt.ents)
    BY <1>1, EditedFields DEF Editing
<1>3. calls' \in 0..MaxCalls
    BY <1>1, EditorAssumption DEF Editing, Typed, TypeOK
<1>4. /\ LabelTyped(gpt') /\ HasLabel'
      /\ \A ents \in begun' : IsTable(ents)
      /\ sure' \in BOOLEAN /\ pc' \in {"idle", "backup entries"}
    <2>1. CASE UNCHANGED <<gpt, pc, sure, begun>>
        BY <1>1, <1>2, <2>1 DEF Editing, HasLabel, Typed, TypeOK
    <2>2. CASE /\ gpt' = Sealed(gpt) /\ begun' = begun \cup {gpt.ents}
               /\ sure' \in BOOLEAN /\ pc' = "backup entries"
        <3>1. LabelTyped(gpt')
            BY <1>2, <2>2, SealedTyped
        <3>2. HasLabel'
            BY <3>1, LabelThere DEF LabelTyped, HasLabel, NoLabel
        <3>3. \A ents \in begun' : IsTable(ents)
            BY <1>2, <2>2 DEF Typed, TypeOK
        <3> QED
            BY <2>2, <3>1, <3>2, <3>3
    <2> QED
        BY <2>1, <2>2 DEF WriteBegin
<1>5. TypeOK'
    BY <1>1, <1>3, <1>4 DEF Editing, Typed, TypeOK, LabelTyped
<1> QED
    BY <1>1, <1>5 DEF Typed

LEMMA WriteTyped ==
    ASSUME Roomy, Typed, IInv', Write
    PROVE  Typed'
<1>1. CASE WriteBegin
    BY <1>1, WriteBeginTyped
<1>2. CASE \/ WriteEntries("backup entries", gpt.b.partition_entry_lba,
                           "backup header")
           \/ WriteEntries("entries", gpt.p.partition_entry_lba, "header")
    <2>1. pc # "idle"
        BY <1>2 DEF WriteEntries
    <2>2. /\ gpt.p.partition_entry_lba \in Nat
          /\ gpt.b.partition_entry_lba \in Nat
        BY <2>1, WritingTyped
    <2>3. "backup entries" # "idle" /\ "entries" # "idle"
        OBVIOUS
    <2> QED
        BY <1>2, <2>2, <2>3, WriteEntriesTyped, Zenon
<1>3. CASE \/ WriteHeader("backup header", gpt.b, gpt.p.alternative_lba,
                          "entries")
           \/ WriteHeader("header", gpt.p, PRIMARY, "mbr")
    <2>1. pc # "idle"
        BY <1>3 DEF WriteHeader
    <2>2. IsSector(gpt.p) /\ IsSector(gpt.b)
        BY <2>1, WritingTyped
    <2>3. "backup header" # "idle" /\ "header" # "idle"
        OBVIOUS
    <2> QED
        BY <1>3, <2>2, <2>3, WriteHeaderTyped, Zenon
<1>4. CASE WriteMbr
    BY <1>4, WriteMbrTyped
<1> QED
    BY <1>1, <1>2, <1>3, <1>4, Zenon DEF Write

LEMMA FaultTyped ==
    ASSUME Roomy, Typed, IInv',
           \/ Kill \/ PowerFailure
           \/ \E s \in DOMAIN disk : WriteBack(s)
    PROVE  Typed'
<1>1. CASE Kill
    <2>1. /\ UNCHANGED <<size, sure, begun, calls>>
          /\ open' \in BOOLEAN /\ gpt' = NoLabel /\ pc' = "idle"
          /\ IsSector(mbr') /\ clean' \in BOOLEAN
        BY <1>1, ZeroTyped DEF Kill, Gone, Typed, TypeOK
    <2>2. CASE UNCHANGED <<disk, media>>
        BY <2>1, <2>2, DevicesTyped, StepTyped
    <2>3. ASSUME pc # "idle",
                 NEW lba \in {gpt.b.partition_entry_lba,
                              gpt.p.partition_entry_lba},
                 NEW k \in 1..NEntries, Put(WithEntries(lba, k))
          PROVE  Typed'
        <3>1. HasLabel /\ lba \in Nat /\ k \in 0..NEntries
            BY <2>3, WritingTyped
        <3>2. DeviceTyped(disk') /\ DeviceTyped(media')
            BY <2>3, <3>1, EntriesPutTyped, DevicesTyped, PutTyped
        <3> QED
            BY <2>1, <3>2, StepTyped
    <2>4. \/ UNCHANGED <<disk, media>>
          \/ /\ pc # "idle"
             /\ \E k \in 1..NEntries, lba \in {gpt.b.partition_entry_lba,
                                               gpt.p.partition_entry_lba} :
                   Put(WithEntries(lba, k))
        BY <1>1 DEF Kill
    <2> QED
        BY <2>2, <2>3, <2>4
<1>2. CASE PowerFailure
    <2>1. /\ UNCHANGED <<size, sure, begun, calls>>
          /\ open' \in BOOLEAN /\ gpt' = NoLabel /\ pc' = "idle"
          /\ IsSector(mbr') /\ clean' \in BOOLEAN
          /\ disk' = media /\ media' = media
        BY <1>2, ZeroTyped DEF PowerFailure, Gone
    <2> QED
        BY <2>1, DevicesTyped, StepTyped
<1>3. ASSUME NEW s \in DOMAIN disk, WriteBack(s)
      PROVE  Typed'
    <2>1. /\ UNCHANGED <<size, disk, open, mbr, gpt, pc, sure, begun, calls>>
          /\ clean' = clean /\ media' = [media EXCEPT ![s] = disk[s]]
        BY <1>3 DEF WriteBack, memory
    <2>2. DeviceTyped(disk') /\ DeviceTyped(media')
        BY <2>1, DevicesTyped DEF DeviceTyped
    <2>3. IsSector(mbr') /\ clean' \in BOOLEAN
          /\ pc' \in {"idle", "backup entries", "backup header", "entries",
                      "header", "mbr"}
        BY <2>1 DEF Typed, TypeOK
    <2> QED
        BY <2>1, <2>2, <2>3, StepTyped
<1> QED
    BY <1>1, <1>2, <1>3

LEMMA ResizeTyped ==
    ASSUME Roomy, Typed, IInv', NEW n \in Sizes, Resize(n)
    PROVE  Typed'
<1>1. /\ UNCHANGED <<open, mbr, gpt, pc, sure, begun, clean>>
      /\ size' = n /\ calls' = calls + 1 /\ calls < MaxCalls
      /\ media' = disk'
      /\ disk' = [s \in DOMAIN disk |-> IF s < n THEN disk[s] ELSE Zero]
    BY DEF Resize, memory
<1>2. n \in 1..MaxSize /\ NEntries + 2 <= n
    BY EditorAssumption DEF Roomy
<1>3. DeviceTyped(disk') /\ DeviceTyped(media')
    BY <1>1, DevicesTyped, ZeroTyped DEF DeviceTyped
<1>4. calls' \in 0..MaxCalls
    <2>1. calls \in 0..MaxCalls
        BY DEF Typed, TypeOK
    <2> QED
        BY <1>1, <2>1, EditorAssumption
<1>5. /\ {open, sure, clean} \subseteq BOOLEAN
      /\ \A ents \in begun : IsTable(ents)
      /\ IsSector(mbr)
      /\ HasLabel => IsHeader(gpt.p) /\ IsHeader(gpt.b) /\ IsTable(gpt.ents)
      /\ pc \in {"idle", "backup entries", "backup header", "entries",
                 "header", "mbr"}
      /\ pc # "idle" => open /\ HasLabel
    BY DEF Typed, TypeOK
<1>6. TypeOK'
    <2>1. size' \in 1..MaxSize
        BY <1>1, <1>2
    <2>2. /\ DOMAIN disk' = 0..(MaxSize - 1) /\ DOMAIN media' = DOMAIN disk'
          /\ \A s \in DOMAIN disk' : IsSector(disk'[s]) /\ IsSector(media'[s])
        BY <1>3 DEF DeviceTyped
    <2> QED
        BY <1>1, <1>4, <1>5, <2>1, <2>2 DEF TypeOK, HasLabel
<1> QED
    BY <1>1, <1>2, <1>6 DEF Typed

LEMMA NextTyped ==
    ASSUME Roomy, Typed, [Next]_vars
    PROVE  Typed'
<1>1. IInv'
    BY NextInv DEF Typed
<1>2. CASE Assign \/ Deassign
    BY <1>1, <1>2, SessionTyped
<1>3. CASE Change
    BY <1>1, <1>3, ChangeTyped
<1>4. CASE Write
    BY <1>1, <1>4, WriteTyped
<1>5. CASE Kill \/ PowerFailure \/ (\E s \in DOMAIN disk : WriteBack(s))
    BY <1>1, <1>5, FaultTyped
<1>6. CASE \E n \in Sizes : Resize(n)
    BY <1>1, <1>6, ResizeTyped
<1>7. CASE UNCHANGED vars
    BY <1>1, <1>7 DEF vars, Typed, TypeOK, HasLabel
<1> QED
    BY <1>2, <1>3, <1>4, <1>5, <1>6, <1>7, Zenon DEF Next

\* On devices and sizes that leave room for a header and a table, the label in
\* memory is complete whenever there is one, and no call puts a sector number
\* below 0 in a header or as the start of a partition: all that
\* find_first_in_largest, find_last_free and fdisk_align_lba_in_range return
\* is a number of a sector, over any sessions, writes, faults and resizings.
THEOREM LabelsAreTyped ==
    ASSUME Roomy
    PROVE  Spec => []TypeOK
<1>1. Init => Typed
    BY InitTyped
<1>2. Typed /\ [Next]_vars => Typed'
    BY NextTyped
<1>3. Typed => TypeOK
    BY DEF Typed
<1> QED
    BY <1>1, <1>2, <1>3, PTL DEF Spec

(***************************************************************************)
(* Where a new partition is put                                            *)
(***************************************************************************)
\* Every partition that is asked for begins in a multiple of the grain, and so
\* do the usable sectors of a table that is made.
Aligned(n) ==
    /\ FirstMade(n) % Grain = 0
    /\ \A s \in Starts : s % Grain = 0

LEMMA AlignedIs ==
    ASSUME NEW lba \in Nat, NEW least \in Nat, least % Grain = 0
    PROVE  /\ Align(lba, Grain, least) \in Nat
           /\ Align(lba, Grain, least) % Grain = 0
           /\ lba <= Align(lba, Grain, least)
           /\ Align(lba, Grain \div 2, least) \in Nat
           /\ Align(lba, Grain \div 2, least) % Grain = 0
           /\ lba % Grain = 0 => Align(lba, Grain, least) = lba
<1>1. Grain \in Nat /\ Grain > 0
    BY GptAssumption
<1>2. ASSUME NEW n \in Nat
      PROVE  /\ (n \div Grain) * Grain \in Nat
             /\ ((n \div Grain) * Grain) % Grain = 0
             /\ n < (n \div Grain) * Grain + Grain
    BY <1>1
<1>3. Grain \div 2 \in Nat
    BY <1>1
<1>4. lba + Grain \in Nat /\ lba + Grain \div 2 \in Nat
    BY <1>1, <1>3
<1> DEFINE up == ((lba + Grain) \div Grain) * Grain
           near == ((lba + Grain \div 2) \div Grain) * Grain
<1>5. up \in Nat /\ up % Grain = 0 /\ lba + Grain < up + Grain
    BY <1>2, <1>4
<1>6. near \in Nat /\ near % Grain = 0
    BY <1>2, <1>4
<1>7. /\ Align(lba, Grain, least) = IF lba % Grain = 0 THEN lba
                                    ELSE IF lba < least THEN least ELSE up
      /\ Align(lba, Grain \div 2, least) = IF lba % Grain = 0 THEN lba
                                           ELSE IF lba < least THEN least
                                           ELSE near
    BY DEF Align
<1> HIDE DEF up, near
<1> QED
    BY <1>1, <1>5, <1>6, <1>7

LEMMA AlignedDown ==
    ASSUME NEW lba \in Int, NEW least \in Nat, least % Grain = 0
    PROVE  /\ Align(lba, 0, least) \in Int
           /\ Align(lba, 0, least) % Grain = 0
           /\ Align(lba, 0, least) <= lba \/ Align(lba, 0, least) = least
<1>1. Grain \in Nat /\ Grain > 0
    BY GptAssumption
<1>2. /\ (lba \div Grain) * Grain \in Int
      /\ ((lba \div Grain) * Grain) % Grain = 0
      /\ (lba \div Grain) * Grain <= lba
    BY <1>1
<1>3. Align(lba, 0, least) = IF lba % Grain = 0 THEN lba
                             ELSE IF lba < least THEN least
                             ELSE (lba \div Grain) * Grain
    BY DEF Align
<1> QED
    BY <1>2, <1>3

\* Aligning does not leave sectors that begin in a multiple of the grain.
LEMMA AlignedInside ==
    ASSUME NEW lba \in Nat, NEW least \in Nat, least % Grain = 0, least <= lba
    PROVE  least <= Align(lba, 0, least)
<1>1. Grain \in Nat /\ Grain > 0
    BY GptAssumption
<1> DEFINE q == lba \div Grain
           p == least \div Grain
           down == q * Grain
<1>2. q \in Nat /\ down \in Nat /\ lba < down + Grain
    BY <1>1
<1>3. p \in Nat /\ least = p * Grain
    BY <1>1
<1>4. q < p => down + Grain <= p * Grain
    <2> HIDE DEF q, p
    <2> QED
        BY <1>1, <1>2, <1>3
<1>5. ~(q < p)
    <2> HIDE DEF q, p, down
    <2> QED
        BY <1>1, <1>2, <1>3, <1>4
<1>6. p * Grain <= down
    <2> HIDE DEF q, p
    <2> QED
        BY <1>1, <1>2, <1>3, <1>5
<1>7. Align(lba, 0, least) = IF lba % Grain = 0 THEN lba ELSE down
    BY DEF Align
<1> HIDE DEF down, p
<1> QED
    BY <1>2, <1>3, <1>6, <1>7

\* The default start is aligned and usable, in its space or not.
LEMMA DefaultStart ==
    ASSUME NEW least \in Nat, least % Grain = 0,
           NEW first \in Nat, NEW last \in Nat, first <= last, least <= first
    PROVE  LET at == AlignInRange(first, first, last, least)
           IN  at % Grain = 0 /\ least <= at
<1> DEFINE lo == Align(first, Grain, least)
           hi == Align(last, 0, least)
           at == Align(first, Grain \div 2, least)
<1>1. /\ lo \in Nat /\ lo % Grain = 0 /\ first <= lo
      /\ at \in Nat /\ at % Grain = 0
    BY AlignedIs
<1>2. least <= last
    OBVIOUS
<1>3. hi \in Int /\ hi % Grain = 0 /\ least <= hi
    BY <1>2, AlignedDown, AlignedInside
<1>4. AlignInRange(first, first, last, least)
         = IF at < lo THEN lo ELSE IF at > hi THEN hi ELSE at
    BY DEF AlignInRange
<1> HIDE DEF lo, hi, at
<1> QED
    BY <1>1, <1>3, <1>4

\* The end that is aligned to: not behind the space, or in front of the start.
LEMMA AlignedEnd ==
    ASSUME NEW least \in Nat, least % Grain = 0,
           NEW end \in Int, NEW start \in Nat, start % Grain = 0,
           least <= start, NEW last \in Int
    PROVE  LET to == AlignInRange(end, start, last, least) - 1
           IN  to \in Int /\ (start <= to => to <= last)
<1> DEFINE lo == Align(start, Grain, least)
           hi == Align(last, 0, least)
           at == Align(end, Grain \div 2, least)
           r == AlignInRange(end, start, last, least)
<1>1. lo = start
    BY AlignedIs
<1>2. hi \in Int /\ (hi <= last \/ hi = least)
    BY AlignedDown
<1>3. at \in Int
    <2>1. Grain \div 2 \in Nat
        BY GptAssumption
    <2> QED
        BY <2>1, AlignIs
<1>4. r = IF at < lo THEN lo ELSE IF at > hi THEN hi ELSE at
    BY DEF AlignInRange
<1> HIDE DEF lo, hi, at, r
<1>5. r \in Int /\ (r <= start \/ r <= last)
    BY <1>1, <1>2, <1>3, <1>4
<1>6. r - 1 \in Int /\ (start <= r - 1 => r - 1 <= last)
    BY <1>5
<1> QED
    BY <1>6 DEF r

(***************************************************************************)
(* Headers and partitions are in their places                              *)
(***************************************************************************)
\* A header of a device of n sectors that is at one of the two places, and
\* leaves the space of both copies out of the usable one.
InPlace(h, n) ==
    /\ FirstUsable <= h.first_usable_lba /\ h.last_usable_lba <= LastUsable(n)
    /\ \/ /\ h.my_lba = PRIMARY /\ h.alternative_lba = n - 1
          /\ h.partition_entry_lba = 2
       \/ /\ h.my_lba = n - 1 /\ h.alternative_lba = PRIMARY
          /\ h.partition_entry_lba = BackupEntries(n)

\* The partitions do so as well.
Between(ents, n) ==
    \A i \in Slots : ents[i].used =>
        FirstUsable <= ents[i].start /\ ents[i].end <= LastUsable(n)

\* The devices keep their size, and their headers are in their places.
Orderly ==
    /\ Roomy /\ Sizes = {}
    /\ \A d \in Devices : \A s \in DOMAIN d.disk :
          d.disk[s].kind = "header" => InPlace(d.disk[s], d.size)

\* No position and no exact size is set, what is added is aligned, and on the
\* devices the usable sectors begin in a multiple of the grain and the
\* partitions lie between the copies.
Tidy ==
    /\ Explicit = FALSE /\ SetsPosition = FALSE
    /\ \A d \in Devices :
          /\ Aligned(d.size)
          /\ \A s \in DOMAIN d.disk : d.disk[s].kind = "header" =>
                /\ d.disk[s].first_usable_lba % Grain = 0
                /\ Between(d.disk[s].partition_entry_array_crc32, d.size)

\* What is kept in the one case and in the other.
Placed(h, n) == InPlace(h, n) /\ (Tidy => h.first_usable_lba % Grain = 0)

Within(ents, n) == Tidy => Between(ents, n)

HeadersPlaced(d, n) ==
    \A s \in DOMAIN d : d[s].kind = "header" =>
        /\ Placed(d[s], n)
        /\ Within(d[s].partition_entry_array_crc32, n)

LabelPlaced(l, n) ==
    /\ Placed(l.p, n) /\ l.p.my_lba = PRIMARY
    /\ Placed(l.b, n) /\ l.b.my_lba = n - 1
    /\ Within(l.ents, n)

\* The sectors between the two copies.
UsableSectors == FirstUsable..LastUsable(size)

LayoutInv ==
    /\ Tidy => Aligned(size)
    /\ HeadersPlaced(disk, size) /\ HeadersPlaced(media, size)
    /\ HasLabel => LabelPlaced(gpt, size)
    /\ \A s \in UsableSectors : media[s] = disk[s]

\* Nothing is written there.
UsableKept == \A s \in UsableSectors : disk'[s] = disk[s]

SamePlace(h, g) ==
    /\ h.my_lba = g.my_lba /\ h.alternative_lba = g.alternative_lba
    /\ h.first_usable_lba = g.first_usable_lba
    /\ h.last_usable_lba = g.last_usable_lba
    /\ h.partition_entry_lba = g.partition_entry_lba

LEMMA SamePlaced ==
    ASSUME NEW h, NEW g, SamePlace(h, g), NEW n, Placed(g, n)
    PROVE  Placed(h, n) /\ h.my_lba = g.my_lba
BY Zenon DEF SamePlace, Placed, InPlace

LEMMA ChangedPlace ==
    ASSUME NEW h, FieldsTyped(h)
    PROVE  /\ \A ents : SamePlace(Recomputed(h, ents), h)
           /\ \A guid : SamePlace([h EXCEPT !.disk_guid = guid], h)
<1>1. PICK g, my, alt, f, l, at, x, y :
         /\ g \in Guids /\ my \in Nat /\ alt \in Nat
         /\ f \in Nat /\ l \in Nat /\ at \in Nat
         /\ h = Header(g, my, alt, f, l, at, x, y)
    BY TypedHeader
<1>2. ASSUME NEW ents PROVE SamePlace(Recomputed(h, ents), h)
    <2>1. PICK z : Recomputed(h, ents)
                      = [h EXCEPT !.crc32 = z,
                                  !.partition_entry_array_crc32 = ents]
        BY DEF Recomputed
    <2> QED
        BY <1>1, <2>1 DEF Header, SamePlace
<1>3. ASSUME NEW guid PROVE SamePlace([h EXCEPT !.disk_guid = guid], h)
    BY <1>1 DEF Header, SamePlace
<1> QED
    BY <1>2, <1>3

\* The table is changed in memory.
LEMMA SealedPlaced ==
    ASSUME NEW l, FieldsTyped(l.p), FieldsTyped(l.b), NEW n,
           LabelPlaced(l, n)
    PROVE  LabelPlaced(Sealed(l), n)
<1>1. /\ Sealed(l).p = Recomputed(l.p, l.ents)
      /\ Sealed(l).b = Recomputed(l.b, l.ents)
      /\ Sealed(l).ents = l.ents
    BY DEF Sealed, Label
<1>2. SamePlace(Sealed(l).p, l.p) /\ SamePlace(Sealed(l).b, l.b)
    BY <1>1, ChangedPlace
<1> QED
    BY <1>1, <1>2, SamePlaced DEF LabelPlaced

LEMMA EntsPlaced ==
    ASSUME Typed, LayoutInv, HasLabel, NEW ents, Within(ents, size)
    PROVE  /\ LabelPlaced([gpt EXCEPT !.ents = ents], size)
           /\ LabelPlaced(Sealed([gpt EXCEPT !.ents = ents]), size)
<1> DEFINE l == [gpt EXCEPT !.ents = ents]
<1>1. /\ LabelShape(gpt) /\ LabelPlaced(gpt, size)
      /\ FieldsTyped(gpt.p) /\ FieldsTyped(gpt.b)
    BY EditedFields DEF LayoutInv
<1>2. l.p = gpt.p /\ l.b = gpt.b /\ l.ents = ents
    BY <1>1 DEF LabelShape
<1> HIDE DEF l
<1>3. LabelPlaced(l, size)
    BY <1>1, <1>2 DEF LabelPlaced
<1>4. LabelPlaced(Sealed(l), size)
    BY <1>1, <1>2, <1>3, SealedPlaced
<1> QED
    BY <1>3, <1>4 DEF l

\* A call that leaves the device alone.
LEMMA MemoryPlaced ==
    ASSUME LayoutInv, UNCHANGED <<size, disk, media>>,
           HasLabel' => LabelPlaced(gpt', size)
    PROVE  LayoutInv' /\ UsableKept
BY DEF LayoutInv, UsableSectors, UsableKept

LEMMA InitPlaced ==
    ASSUME Orderly, Init
    PROVE  LayoutInv
<1>1. PICK d \in Devices : size = d.size /\ disk = d.disk /\ media = d.disk
    BY DEF Init
<1>2. (Tidy => Aligned(size)) /\ HeadersPlaced(disk, size)
    BY <1>1 DEF Orderly, Tidy, HeadersPlaced, Placed, Within
<1>3. ~HasLabel
    BY DEF Init, HasLabel
<1> QED
    BY <1>1, <1>2, <1>3 DEF LayoutInv

(***************************************************************************)
(* The device is read                                                      *)
(***************************************************************************)
LEMMA ReadPlaced ==
    ASSUME Typed, LayoutInv, NEW lba \in Nat, FdiskReads(disk, size, lba)
    PROVE  /\ Placed(disk[lba], size) /\ disk[lba].my_lba = lba
           /\ Within(TableAt(disk, lba).ents, size)
<1>1. lba \in DOMAIN disk
    <2>1. lba < size
        BY DEF FdiskReads, Intact
    <2> QED
        BY <2>1, SizeTyped, EditorAssumption
<1>2. /\ disk[lba].kind = "header" /\ disk[lba].my_lba = lba
      /\ EntriesAt(disk, disk[lba].partition_entry_lba)
            = disk[lba].partition_entry_array_crc32
    BY DEF FdiskReads, Intact
<1>3. TableAt(disk, lba).ents = disk[lba].partition_entry_array_crc32
    BY <1>2 DEF TableAt
<1>4. Placed(disk[lba], size)
      /\ Within(disk[lba].partition_entry_array_crc32, size)
    BY <1>1, <1>2 DEF LayoutInv, HeadersPlaced
<1> QED
    BY <1>2, <1>3, <1>4

\* gpt_copy_header makes the header for the other place.
LEMMA CopiedPlaced ==
    ASSUME NEW h, NEW n, Placed(h, n)
    PROVE  /\ Placed(Copied(h, n), n)
           /\ Copied(h, n).my_lba = h.alternative_lba
           /\ h.my_lba # n - 1 => Copied(h, n).my_lba = n - 1
           /\ h.my_lba # PRIMARY => Copied(h, n).my_lba = PRIMARY
BY DEF Placed, InPlace, Copied, Header

LEMMA ProbedPlaced ==
    ASSUME Roomy, Typed, LayoutInv, Probed # NoLabel
    PROVE  LabelPlaced(Probed, size)
<1> DEFINE p == disk[PRIMARY]
           pOK == FdiskReads(disk, size, PRIMARY)
           alt == IF pOK THEN p.alternative_lba ELSE size - 1
           bOK == FdiskReads(disk, size, alt)
           ents == TableAt(disk, IF pOK THEN PRIMARY ELSE alt).ents
           fromB == Recomputed(Copied(disk[alt], size), ents)
           fromP == Recomputed(Copied(p, size), ents)
<1>1. Probed = Label(IF pOK THEN p ELSE fromB, IF bOK THEN disk[alt] ELSE fromP,
                     ents)
    BY Zenon DEF Probed
<1>2. pOK \/ bOK
    BY Zenon DEF Probed
<1>3. size \in Nat /\ PRIMARY \in Nat /\ size - 1 \in Nat
      /\ NEntries + 2 <= size /\ PRIMARY # size - 1
    BY SizeTyped, GptAssumption DEF PRIMARY
<1>4. pOK => Placed(p, size) /\ p.my_lba = PRIMARY
             /\ Within(TableAt(disk, PRIMARY).ents, size) /\ IsHeader(p)
    BY <1>3, ReadPlaced, ReadTyped
<1>5. alt = size - 1
    BY <1>3, <1>4 DEF Placed, InPlace
<1>6. bOK => Placed(disk[alt], size) /\ disk[alt].my_lba = size - 1
             /\ Within(TableAt(disk, alt).ents, size) /\ IsHeader(disk[alt])
    BY <1>3, <1>5, ReadPlaced, ReadTyped
<1>7. Within(ents, size)
    BY <1>2, <1>4, <1>6
<1>8. ASSUME NEW h, IsHeader(h), Placed(h, size)
      PROVE  LET c == Recomputed(Copied(h, size), ents)
             IN  /\ Placed(c, size)
                 /\ h.my_lba = PRIMARY => c.my_lba = size - 1
                 /\ h.my_lba = size - 1 => c.my_lba = PRIMARY
    <2>1. FieldsTyped(h) /\ h.disk_guid \in Guids
        BY <1>8, HeaderIs DEF FieldsTyped
    <2>2. FieldsTyped(Copied(h, size))
        BY <1>3, <2>1, BuiltTyped
    <2>3. SamePlace(Recomputed(Copied(h, size), ents), Copied(h, size))
        BY <2>2, ChangedPlace
    <2>4. /\ Placed(Copied(h, size), size)
          /\ h.my_lba = PRIMARY => Copied(h, size).my_lba = size - 1
          /\ h.my_lba = size - 1 => Copied(h, size).my_lba = PRIMARY
        BY <1>3, <1>8, CopiedPlaced
    <2> QED
        BY <2>3, <2>4, SamePlaced
<1> HIDE DEF p, pOK, alt, bOK, ents
<1>9. /\ pOK => Placed(p, size) /\ p.my_lba = PRIMARY
      /\ ~pOK => Placed(fromB, size) /\ fromB.my_lba = PRIMARY
      /\ bOK => Placed(disk[alt], size) /\ disk[alt].my_lba = size - 1
      /\ ~bOK => Placed(fromP, size) /\ fromP.my_lba = size - 1
    BY <1>2, <1>4, <1>6, <1>8
<1> HIDE DEF fromB, fromP
<1> QED
    BY <1>1, <1>7, <1>9 DEF Label, LabelPlaced

LEMMA SessionPlaced ==
    ASSUME Orderly, Typed, LayoutInv,
           Assign \/ Deassign \/ (\E g \in Guids : Create(g))
    PROVE  LayoutInv' /\ UsableKept
<1>1. CASE Assign
    <2>1. HasLabel' => LabelPlaced(gpt', size)
        BY <1>1, ProbedPlaced DEF Assign, HasLabel, NoLabel, Orderly
    <2> QED
        BY <1>1, <2>1, MemoryPlaced DEF Assign
<1>2. CASE Deassign
    BY <1>2 DEF Deassign, LayoutInv, HasLabel, UsableSectors, UsableKept
<1>3. ASSUME NEW g \in Guids, Create(g)
      PROVE  LayoutInv' /\ UsableKept
    <2> DEFINE p == NewPrimary(g, size)
               b == NewBackup(p, size)
               ents == [i \in Slots |-> Zero]
               l == Label(p, b, ents)
    <2>1. gpt' = Sealed(l)
        BY <1>3, Zenon DEF Create
    <2>2. size \in Nat /\ NEntries + 2 <= size
        BY SizeTyped
    <2>3. \E h : FieldsTyped(h)
        BY 0 \in Nat, HeaderTyped
    <2>4. FieldsTyped(p)
        BY <2>2, <2>3, BuiltTyped
    <2>5. FieldsTyped(b)
        BY <2>2, <2>4, BuiltTyped
    <2>6. /\ FirstUsable <= FirstMade(size)
          /\ Tidy => FirstMade(size) % Grain = 0
          /\ LastUsable(size) \in Int
        BY <2>2, GptAssumption
        DEF FirstMade, FirstUsable, LastUsable, LayoutInv, Aligned
    <2>7. /\ p.my_lba = PRIMARY /\ p.alternative_lba = size - 1
          /\ p.partition_entry_lba = 2
          /\ p.first_usable_lba = FirstMade(size)
          /\ p.last_usable_lba = LastUsable(size)
        BY DEF NewPrimary, Header
    <2>8. /\ b.my_lba = size - 1 /\ b.alternative_lba = PRIMARY
          /\ b.partition_entry_lba = BackupEntries(size)
          /\ b.first_usable_lba = p.first_usable_lba
          /\ b.last_usable_lba = p.last_usable_lba
        BY DEF NewBackup, Header
    <2>9. Within(ents, size)
        BY DEF Within, Between, Zero, Entry
    <2>10. l.p = p /\ l.b = b /\ l.ents = ents
        BY DEF Label
    <2> HIDE DEF l, p, b, ents
    <2>11. Placed(p, size) /\ Placed(b, size)
        BY <2>6, <2>7, <2>8 DEF Placed, InPlace
    <2>12. LabelPlaced(l, size)
        BY <2>7, <2>8, <2>9, <2>10, <2>11 DEF LabelPlaced
    <2>13. LabelPlaced(gpt', size)
        BY <2>1, <2>4, <2>5, <2>10, <2>12, SealedPlaced
    <2> QED
        BY <1>3, <2>13, MemoryPlaced DEF Create, UNCHANGED_Device
<1> QED
    BY <1>1, <1>2, <1>3

\* A partition is added between the two copies, and does not go on behind the
\* free space that it begins in.
LEMMA AddedWithin ==
    ASSUME Orderly, Tidy, Typed, LayoutInv, HasLabel, NEW n, NEW pa \in Partition,
           Addable(n, pa), AddedStart(pa) <= AddedEnd(pa, AddedStart(pa))
    PROVE  /\ FirstUsable <= AddedStart(pa)
           /\ AddedEnd(pa, AddedStart(pa)) <= LastUsable(size)
           /\ gpt.p.first_usable_lba <= AddedStart(pa)
           /\ AddedEnd(pa, AddedStart(pa)) <= gpt.p.last_usable_lba
           /\ AddedEnd(pa, AddedStart(pa))
                 <= LastFree(gpt.p, gpt.ents, AddedStart(pa))
<1> DEFINE h == gpt.p
           ents == gpt.ents
           first == FirstInLargest(h, ents)
           last == LastFree(h, ents, first)
           start == AddedStart(pa)
           stop == LastFree(h, ents, start)
           end == start + pa.length - 1
           least == h.first_usable_lba
           to == AlignInRange(end, start, stop, least) - 1
<1>1. FieldsTyped(h) /\ IsTable(ents) /\ LabelPlaced(gpt, size)
    BY EditedFields DEF LayoutInv
<1>2. /\ h.first_usable_lba \in Nat /\ h.last_usable_lba \in Nat
      /\ FirstUsable <= h.first_usable_lba /\ h.first_usable_lba % Grain = 0
      /\ h.last_usable_lba <= LastUsable(size)
      /\ FirstUsable \in Nat /\ LastUsable(size) \in Int
    <2>1. h.first_usable_lba \in Nat /\ h.last_usable_lba \in Nat
        BY <1>1, Zenon DEF FieldsTyped
    <2>2. FirstUsable \in Nat /\ LastUsable(size) \in Int
        BY SizeTyped, GptAssumption DEF FirstUsable, LastUsable
    <2> QED
        BY <1>1, <2>1, <2>2, Zenon DEF LabelPlaced, Placed, InPlace
<1>3. \A i \in Slots : ents[i].start \in Int
    <2>1. \A i \in Slots : ents[i] \in Entries
        BY <1>1 DEF IsTable
    <2> QED
        BY <2>1 DEF Entries
<1>4. /\ pa.start \in Starts \/ pa.start = Default
      /\ pa.length \in Nat \/ pa.length = Default
    BY EditorAssumption DEF Partition
<1>5. start \in Nat /\ AddedEnd(pa, start) \in Int
    BY AddedTyped
<1>6. least <= start /\ start % Grain = 0
    <2>1. CASE pa.start = Default
        <3>1. start = AlignInRange(first, first, last, least)
            BY <2>1 DEF AddedStart
        <3>2. FirstAvailable(h, ents, 0) # 0
            BY DEF Addable
        <3>3. first # 0 /\ first \in Nat /\ FirstAvailable(h, ents, first) = first
            BY <1>2, <1>3, <3>2, FirstInLargestIs DEF Searchable
        <3>4. first \in h.first_usable_lba..h.last_usable_lba
            BY <1>2, <3>3, FirstAvailableIs
        <3>5. /\ last \in Int
              /\ first <= h.last_usable_lba => first <= last
            BY <1>2, <1>3, <3>3, LastFreeIs
        <3> HIDE DEF first, last
        <3>6. last \in Nat /\ first <= last /\ least <= first /\ least \in Nat
            BY <1>2, <3>3, <3>4, <3>5
        <3> HIDE DEF start
        <3>7. least % Grain = 0
            BY <1>2
        <3> HIDE DEF least
        <3> QED
            BY <3>1, <3>3, <3>6, <3>7, DefaultStart
    <2>2. CASE pa.start # Default
        <3>1. pa.start \in Starts /\ pa.start \in Int
            <4>1. \A s \in Starts : s \in Int
                BY EditorAssumption
            <4> QED
                BY <1>4, <2>2, <4>1, Zenon
        <3>2. start = pa.start /\ start = FirstAvailable(h, ents, pa.start)
            BY <2>2 DEF AddedStart, Addable
        <3>3. FirstAvailable(h, ents, 0) # 0
            BY DEF Addable
        <3>4. FirstAvailable(h, ents, pa.start) # 0 =>
                 FirstAvailable(h, ents, pa.start)
                    \in h.first_usable_lba..h.last_usable_lba
            BY <1>2, <3>1, FirstAvailableIs
        <3>5. FirstAvailable(h, ents, 0) = start => start # 0
            BY <3>3
        <3>6. pa.start # 0
            BY <3>2, <3>5
        <3>7. start \in h.first_usable_lba..h.last_usable_lba
            BY <3>2, <3>4, <3>6
        <3>8. start % Grain = 0
            BY <3>1, <3>2 DEF LayoutInv, Aligned
        <3> HIDE DEF start
        <3> QED
            BY <1>2, <1>5, <3>7, <3>8
    <2> QED
        BY <2>1, <2>2
<1>7. stop \in Int /\ stop <= h.last_usable_lba
    BY <1>2, <1>3, <1>5, LastFreeIs
<1>8. AddedEnd(pa, start) = IF pa.length = Default THEN stop
                            ELSE IF end = stop THEN end ELSE to
    BY Zenon DEF AddedEnd, Tidy
<1>9. pa.length # Default => to \in Int /\ (start <= to => to <= stop)
    <2> HIDE DEF start, stop
    <2>1. pa.length # Default => end \in Int
        BY <1>4, <1>5
    <2>2. least \in Nat /\ least % Grain = 0
        BY <1>2
    <2> HIDE DEF end, least
    <2> SUFFICES ASSUME pa.length # Default
                 PROVE  to \in Int /\ (start <= to => to <= stop)
        OBVIOUS
    <2> QED
        BY <1>5, <1>6, <1>7, <2>1, <2>2, AlignedEnd, Zenon
<1>10. start <= AddedEnd(pa, start)
    OBVIOUS
<1>11. FirstUsable <= start
    <2> HIDE DEF start
    <2> QED
        BY <1>2, <1>5, <1>6
<1> HIDE DEF start, stop, end, to, least
<1>12. AddedEnd(pa, start) <= stop
    BY <1>5, <1>7, <1>8, <1>9, <1>10
<1>13. /\ AddedEnd(pa, start) <= LastUsable(size)
       /\ AddedEnd(pa, start) <= h.last_usable_lba
    BY <1>2, <1>5, <1>7, <1>12
<1> QED
    BY <1>6, <1>11, <1>12, <1>13 DEF start, stop, least

LEMMA PutWithin ==
    ASSUME NEW ents, IsTable(ents), NEW n, Within(ents, n),
           NEW k \in Slots, NEW e,
           Tidy /\ e.used => FirstUsable <= e.start /\ e.end <= LastUsable(n)
    PROVE  Within([ents EXCEPT ![k] = e], n)
<1>1. DOMAIN ents = Slots
    BY DEF IsTable
<1> QED
    BY <1>1 DEF Within, Between

LEMMA AddPlaced ==
    ASSUME Orderly, Typed, LayoutInv, NEW n \in Slots,
           NEW pa \in Partition,
           NEW bad, Add(n, pa, bad)
    PROVE  LayoutInv' /\ UsableKept
<1> DEFINE start == AddedStart(pa)
           e == Entry(TRUE, start, AddedEnd(pa, start),
                      IF bad THEN gpt.ents[n].tag ELSE pa.tag)
           ents == [gpt.ents EXCEPT ![n] = e]
<1>1. HasLabel /\ UNCHANGED <<size, disk, media>>
    BY DEF Add, Editing, UNCHANGED_Device
<1>2. IsTable(gpt.ents) /\ LabelPlaced(gpt, size)
    BY <1>1, EditedFields DEF LayoutInv
<1>3. \/ gpt' = gpt
      \/ /\ Addable(n, pa) /\ start <= AddedEnd(pa, start)
         /\ \/ gpt' = [gpt EXCEPT !.ents = ents]
            \/ gpt' = Sealed([gpt EXCEPT !.ents = ents])
    <2>1. ents = [gpt.ents EXCEPT ![n] =
                     Entry(TRUE, start, AddedEnd(pa, start),
                           IF bad THEN @.tag ELSE pa.tag)]
        OBVIOUS
    <2> HIDE DEF ents
    <2> QED
        BY <2>1, Zenon DEF Add
<1>4. CASE gpt' = gpt
    BY <1>1, <1>2, <1>4, MemoryPlaced
<1>5. CASE /\ Addable(n, pa) /\ start <= AddedEnd(pa, start)
           /\ \/ gpt' = [gpt EXCEPT !.ents = ents]
              \/ gpt' = Sealed([gpt EXCEPT !.ents = ents])
    <2>1. Tidy => FirstUsable <= start /\ AddedEnd(pa, start) <= LastUsable(size)
        <3>1. CASE Tidy
            BY <1>1, <1>5, <3>1, AddedWithin
        <3>2. CASE ~Tidy
            BY <3>2
        <3> QED
            BY <3>1, <3>2
    <2>2. e.start = start /\ e.end = AddedEnd(pa, start)
        BY DEF Entry
    <2>3. Within(ents, size)
        <3> HIDE DEF e, start
        <3> QED
            BY <1>2, <2>1, <2>2, PutWithin DEF LabelPlaced
    <2> HIDE DEF ents
    <2>4. LabelPlaced(gpt', size)
        BY <1>1, <1>5, <2>3, EntsPlaced
    <2> QED
        BY <1>1, <2>4, MemoryPlaced
<1> QED
    BY <1>3, <1>4, <1>5

\* A tag of a partition is changed, or the partition is gone.
LEMMA TagPlaced ==
    ASSUME Typed, LayoutInv, HasLabel, NEW n \in Slots, NEW e,
           e.used => n \in Used(gpt.ents) /\ e.start = gpt.ents[n].start
                     /\ e.end = gpt.ents[n].end
    PROVE  /\ LabelPlaced([gpt EXCEPT !.ents[n] = e], size)
           /\ LabelPlaced(Sealed([gpt EXCEPT !.ents[n] = e]), size)
<1>1. /\ LabelShape(gpt) /\ IsTable(gpt.ents) /\ LabelPlaced(gpt, size)
    BY EditedFields DEF LayoutInv
<1>2. [gpt EXCEPT !.ents[n] = e]
         = [gpt EXCEPT !.ents = [gpt.ents EXCEPT ![n] = e]]
    BY <1>1 DEF LabelShape
<1>3. Tidy /\ e.used => FirstUsable <= e.start /\ e.end <= LastUsable(size)
    BY <1>1 DEF LabelPlaced, Within, Between, Used
<1>4. Within([gpt.ents EXCEPT ![n] = e], size)
    BY <1>1, <1>3, PutWithin DEF LabelPlaced
<1> QED
    BY <1>2, <1>4, EntsPlaced

LEMMA SetPlaced ==
    ASSUME Typed, LayoutInv, NEW n \in Slots, NEW t \in Tags, NEW bad,
           Set(n, [Unasked EXCEPT !.tag = t], FALSE, bad)
    PROVE  LayoutInv' /\ UsableKept
<1> DEFINE e == gpt.ents[n]
           pa == [Unasked EXCEPT !.tag = t]
           u == IF pa.tag = 0 THEN e.tag ELSE pa.tag
           new == Entry(TRUE, e.start, e.end, u)
           old == [e EXCEPT !.tag = u]
<1>1. /\ HasLabel /\ n \in Used(gpt.ents)
      /\ UNCHANGED <<size, disk, media>>
    BY DEF Set, Editing, UNCHANGED_Device
<1>2. e \in Entries /\ LabelShape(gpt)
    BY <1>1, EditedFields DEF IsTable
<1>3. SetStart(e, pa, FALSE) = e.start /\ SetEnd(e, pa, FALSE) = e.end
    BY DEF SetStart, SetEnd, Unasked
<1>4. \/ gpt' = [gpt EXCEPT !.ents[n].tag = u]
      \/ gpt' = Sealed([gpt EXCEPT !.ents[n] = new])
    <2>1. CASE bad
        BY <2>1, Zenon DEF Set
    <2>2. CASE ~bad
        BY <1>3, <2>2, Zenon DEF Set
    <2> QED
        BY <2>1, <2>2
<1>5. [gpt EXCEPT !.ents[n].tag = u] = [gpt EXCEPT !.ents[n] = old]
    <2> HIDE DEF u
    <2> QED
        BY <1>2 DEF LabelShape
<1>6. /\ new.start = e.start /\ new.end = e.end
      /\ old.start = e.start /\ old.end = e.end
    <2> HIDE DEF u
    <2> QED
        BY <1>2 DEF Entry, Entries
<1>7. LabelPlaced(gpt', size)
    <2> HIDE DEF new, old, u
    <2> QED
        BY <1>1, <1>4, <1>5, <1>6, TagPlaced
<1> QED
    BY <1>1, <1>7, MemoryPlaced

\* A partition that is moved or resized may lie anywhere: where the copies are
\* does not depend on it.
LEMMA MovedPlaced ==
    ASSUME ~Tidy, Typed, LayoutInv, NEW n \in Slots, NEW pa, NEW enlarge,
           Set(n, pa, enlarge, FALSE)
    PROVE  LayoutInv' /\ UsableKept
<1>1. HasLabel /\ UNCHANGED <<size, disk, media>>
    BY DEF Set, Editing, UNCHANGED_Device
<1>2. LabelShape(gpt)
    BY <1>1, EditedFields
<1>3. PICK e : gpt' = Sealed([gpt EXCEPT !.ents[n] = e])
    BY Zenon DEF Set
<1> DEFINE ents == [gpt.ents EXCEPT ![n] = e]
<1>4. gpt' = Sealed([gpt EXCEPT !.ents = ents])
    BY <1>2, <1>3 DEF LabelShape
<1>5. Within(ents, size)
    BY DEF Within, Between
<1> HIDE DEF ents
<1>6. LabelPlaced(gpt', size)
    BY <1>1, <1>4, <1>5, EntsPlaced
<1> QED
    BY <1>1, <1>6, MemoryPlaced

LEMMA TogglePlaced ==
    ASSUME Typed, LayoutInv, NEW n \in Slots,
           (\E t \in Tags : ToggleFlag(n, t)) \/ Delete(n)
    PROVE  LayoutInv' /\ UsableKept
<1>1. /\ HasLabel /\ n \in Used(gpt.ents)
      /\ UNCHANGED <<size, disk, media>>
    BY DEF ToggleFlag, Delete, Editing, UNCHANGED_Device
<1>2. gpt.ents[n] \in Entries /\ LabelShape(gpt)
    BY <1>1, EditedFields DEF IsTable
<1>3. ASSUME NEW t \in Tags, ToggleFlag(n, t)
      PROVE  LabelPlaced(gpt', size)
    <2> DEFINE old == [gpt.ents[n] EXCEPT !.tag = t]
    <2>1. gpt' = Sealed([gpt EXCEPT !.ents[n].tag = t])
        BY <1>3, Zenon DEF ToggleFlag
    <2>2. [gpt EXCEPT !.ents[n].tag = t] = [gpt EXCEPT !.ents[n] = old]
        BY <1>2 DEF LabelShape
    <2>3. old.start = gpt.ents[n].start /\ old.end = gpt.ents[n].end
        BY <1>2 DEF Entries
    <2> HIDE DEF old
    <2> QED
        BY <1>1, <2>1, <2>2, <2>3, TagPlaced
<1>4. ASSUME Delete(n)
      PROVE  LabelPlaced(gpt', size)
    <2>1. gpt' = Sealed([gpt EXCEPT !.ents[n] = Zero])
        BY <1>4, Zenon DEF Delete
    <2>2. ~Zero.used
        BY DEF Zero, Entry
    <2> QED
        BY <1>1, <2>1, <2>2, TagPlaced
<1> QED
    BY <1>1, <1>3, <1>4, MemoryPlaced

LEMMA WholePlaced ==
    ASSUME Typed, LayoutInv,
           (\E g \in Guids : SetId(g)) \/ Reorder \/ Verify
    PROVE  LayoutInv' /\ UsableKept
<1>1. HasLabel /\ UNCHANGED <<size, disk, media>>
    BY DEF SetId, Reorder, Verify, Editing, UNCHANGED_Device
<1>2. /\ LabelShape(gpt) /\ LabelPlaced(gpt, size)
      /\ FieldsTyped(gpt.p) /\ FieldsTyped(gpt.b) /\ IsTable(gpt.ents)
    BY <1>1, EditedFields DEF LayoutInv
<1>3. ASSUME NEW g \in Guids, SetId(g)
      PROVE  LabelPlaced(gpt', size)
    <2> DEFINE l == [gpt EXCEPT !.p.disk_guid = g, !.b.disk_guid = g]
    <2>1. gpt' = Sealed(l)
        BY <1>3, Zenon DEF SetId
    <2>2. /\ l.p = [gpt.p EXCEPT !.disk_guid = g]
          /\ l.b = [gpt.b EXCEPT !.disk_guid = g]
          /\ l.ents = gpt.ents
        BY <1>2 DEF LabelShape
    <2> HIDE DEF l
    <2>3. FieldsTyped(l.p) /\ FieldsTyped(l.b)
        BY <1>2, <2>2, GuidTyped
    <2>4. SamePlace(l.p, gpt.p) /\ SamePlace(l.b, gpt.b)
        <3>1. /\ SamePlace([gpt.p EXCEPT !.disk_guid = g], gpt.p)
              /\ SamePlace([gpt.b EXCEPT !.disk_guid = g], gpt.b)
            BY <1>2, ChangedPlace
        <3> QED
            BY <2>2, <3>1
    <2>5. LabelPlaced(l, size)
        <3>1. /\ Placed(gpt.p, size) /\ gpt.p.my_lba = PRIMARY
              /\ Placed(gpt.b, size) /\ gpt.b.my_lba = size - 1
              /\ Within(gpt.ents, size)
            BY <1>2 DEF LabelPlaced
        <3>2. /\ Placed(l.p, size) /\ l.p.my_lba = gpt.p.my_lba
              /\ Placed(l.b, size) /\ l.b.my_lba = gpt.b.my_lba
            BY <2>4, <3>1, SamePlaced
        <3> QED
            BY <2>2, <3>1, <3>2 DEF LabelPlaced
    <2> QED
        BY <2>1, <2>3, <2>5, SealedPlaced
<1>4. ASSUME Reorder
      PROVE  LabelPlaced(gpt', size)
    <2>1. PICK to \in [Slots -> Slots] :
             gpt' = Sealed([gpt EXCEPT !.ents = [i \in Slots |-> gpt.ents[to[i]]]])
        BY <1>4, Zenon DEF Reorder
    <2> DEFINE ents == [i \in Slots |-> gpt.ents[to[i]]]
    <2>2. Within(ents, size)
        BY <1>2 DEF LabelPlaced, Within, Between
    <2>3. gpt' = Sealed([gpt EXCEPT !.ents = ents])
        BY <2>1
    <2> HIDE DEF ents
    <2> QED
        BY <1>1, <2>2, <2>3, EntsPlaced
<1>5. ASSUME Verify
      PROVE  LabelPlaced(gpt', size)
    <2>1. /\ gpt'.p = Rechecked(gpt.p, gpt.ents)
          /\ gpt'.b = Rechecked(gpt.b, gpt.ents)
          /\ gpt'.ents = gpt.ents
        BY <1>5 DEF Verify, Label
    <2>2. ASSUME NEW h, FieldsTyped(h)
          PROVE  SamePlace(Rechecked(h, gpt.ents), h)
        <3>1. SamePlace(h, h)
            BY DEF SamePlace
        <3>2. SamePlace(Recomputed(h, gpt.ents), h)
            BY <2>2, ChangedPlace
        <3> QED
            BY <3>1, <3>2, Zenon DEF Rechecked
    <2>3. SamePlace(gpt'.p, gpt.p) /\ SamePlace(gpt'.b, gpt.b)
        BY <1>2, <2>1, <2>2, Zenon
    <2>4. /\ Placed(gpt'.p, size) /\ gpt'.p.my_lba = PRIMARY
          /\ Placed(gpt'.b, size) /\ gpt'.b.my_lba = size - 1
        BY <1>2, <2>3, SamePlaced DEF LabelPlaced
    <2> QED
        BY <1>2, <2>1, <2>4, Zenon DEF LabelPlaced
<1> QED
    BY <1>1, <1>3, <1>4, <1>5, MemoryPlaced

LEMMA ChangePlaced ==
    ASSUME Orderly, Typed, LayoutInv, Change
    PROVE  LayoutInv' /\ UsableKept
<1>1. \/ \E g \in Guids : Create(g)
      \/ (\E g \in Guids : SetId(g)) \/ Reorder \/ Verify
      \/ \E n \in Slots, pa \in Partition, bad \in Bad : Add(n, pa, bad)
      \/ \E n \in Slots, t \in Tags, bad \in Bad :
            Set(n, [Unasked EXCEPT !.tag = t], FALSE, bad)
      \/ SetsPosition /\ \E n \in Slots, pa \in Partition, enlarge \in BOOLEAN :
            Set(n, pa, enlarge, FALSE)
      \/ \E n \in Slots : (\E t \in Tags : ToggleFlag(n, t)) \/ Delete(n)
    BY Zenon DEF Change
<1>2. CASE \E g \in Guids : Create(g)
    BY <1>2, SessionPlaced
<1>3. CASE (\E g \in Guids : SetId(g)) \/ Reorder \/ Verify
    BY <1>3, WholePlaced
<1>4. CASE \E n \in Slots, pa \in Partition, bad \in Bad : Add(n, pa, bad)
    BY <1>4, AddPlaced
<1>5. CASE \E n \in Slots, t \in Tags, bad \in Bad :
              Set(n, [Unasked EXCEPT !.tag = t], FALSE, bad)
    BY <1>5, SetPlaced
<1>6. CASE \E n \in Slots : (\E t \in Tags : ToggleFlag(n, t)) \/ Delete(n)
    BY <1>6, TogglePlaced
<1>7. CASE SetsPosition /\ \E n \in Slots, pa \in Partition,
                               enlarge \in BOOLEAN : Set(n, pa, enlarge, FALSE)
    <2>1. ~Tidy
        BY <1>7 DEF Tidy
    <2> QED
        BY <1>7, <2>1, MovedPlaced
<1> QED
    BY <1>1, <1>2, <1>3, <1>4, <1>5, <1>6, <1>7

(***************************************************************************)
(* What is written is in the places of the copies                          *)
(***************************************************************************)
\* A step that may change the device, elsewhere.
LEMMA StepPlaced ==
    ASSUME LayoutInv, UNCHANGED size,
           HeadersPlaced(disk', size), HeadersPlaced(media', size),
           \A s \in UsableSectors : disk'[s] = disk[s] /\ media'[s] = disk[s],
           HasLabel' => LabelPlaced(gpt', size)
    PROVE  LayoutInv' /\ UsableKept
BY DEF LayoutInv, UsableSectors, UsableKept

LEMMA PutPlaced ==
    ASSUME LayoutInv, UNCHANGED size, NEW d, Put(d),
           HeadersPlaced(d, size),
           \A s \in UsableSectors : d[s] = disk[s],
           HasLabel' => LabelPlaced(gpt', size)
    PROVE  LayoutInv' /\ UsableKept
<1>1. /\ HeadersPlaced(disk', size) /\ HeadersPlaced(media', size)
      /\ \A s \in UsableSectors : disk'[s] = disk[s] /\ media'[s] = disk[s]
    BY DEF Put, LayoutInv
<1> QED
    BY <1>1, StepPlaced

LEMMA PlacesAre ==
    ASSUME Typed
    PROVE  /\ size \in Nat /\ NEntries \in Nat /\ NEntries + 2 <= size
           /\ PRIMARY = 1 /\ FirstUsable = NEntries + 2
           /\ LastUsable(size) = size - 2 - NEntries
           /\ BackupEntries(size) = size - 1 - NEntries
BY SizeTyped, GptAssumption
   DEF PRIMARY, FirstUsable, LastUsable, BackupEntries

LEMMA EntriesPlaced ==
    ASSUME Typed, LayoutInv, HasLabel, NEW h \in {gpt.p, gpt.b},
           NEW k \in 0..NEntries
    PROVE  LET d == WithEntries(h.partition_entry_lba, k)
           IN  /\ HeadersPlaced(d, size)
               /\ \A s \in UsableSectors : d[s] = disk[s]
<1> DEFINE lba == h.partition_entry_lba
           d == WithEntries(lba, k)
<1>1. IsTable(gpt.ents) /\ LabelPlaced(gpt, size)
    BY EditedFields DEF LayoutInv
<1>2. \/ lba = 2 \/ lba = BackupEntries(size)
    BY <1>1, Zenon DEF LabelPlaced, Placed, InPlace
<1>3. ASSUME NEW s \in UsableSectors
      PROVE  s \notin lba..(lba + k - 1)
    <2> HIDE DEF lba
    <2> QED
        BY <1>2, <1>3, PlacesAre DEF UsableSectors
<1>4. UsableSectors \subseteq DOMAIN disk
    <2>1. MaxSize \in Nat /\ size \in 1..MaxSize
        BY SizeTyped, EditorAssumption
    <2> QED
        BY <2>1, PlacesAre, SizeTyped DEF UsableSectors
<1>5. lba \in Int
    <2> HIDE DEF lba
    <2> QED
        BY <1>2, PlacesAre
<1>6. DOMAIN d = DOMAIN disk
    BY DEF WithEntries
<1>7. ASSUME NEW s \in DOMAIN disk, s \in lba..(lba + k - 1)
      PROVE  d[s].kind # "header"
    <2>1. s - lba \in Slots
        BY <1>5, <1>7, GptAssumption DEF Slots
    <2>2. d[s] = gpt.ents[s - lba]
        BY <1>7 DEF WithEntries
    <2>3. gpt.ents[s - lba] \in Entries
        BY <1>1, <2>1 DEF IsTable
    <2> HIDE DEF d
    <2> QED
        BY <2>2, <2>3 DEF Entries
<1>8. ASSUME NEW s \in DOMAIN disk, s \notin lba..(lba + k - 1)
      PROVE  d[s] = disk[s]
    BY <1>8 DEF WithEntries
<1> HIDE DEF d, lba
<1>9. HeadersPlaced(d, size)
    BY <1>6, <1>7, <1>8 DEF LayoutInv, HeadersPlaced
<1>10. \A s \in UsableSectors : d[s] = disk[s]
    BY <1>3, <1>4, <1>8
<1> QED
    BY <1>9, <1>10 DEF d, lba

LEMMA SectorPlaced ==
    ASSUME Typed, LayoutInv, NEW lba \in {0, PRIMARY, size - 1}, NEW h,
           h.kind = "header" =>
              /\ Placed(h, size)
              /\ Within(h.partition_entry_array_crc32, size)
    PROVE  LET d == [disk EXCEPT ![lba] = h]
           IN  /\ HeadersPlaced(d, size)
               /\ \A s \in UsableSectors : d[s] = disk[s]
<1>1. lba \notin UsableSectors
    BY PlacesAre DEF UsableSectors
<1> QED
    BY <1>1 DEF LayoutInv, HeadersPlaced

\* Both headers that are written tell of the table in memory.
LEMMA WrittenPlaced ==
    ASSUME Typed, LayoutInv, pc # "idle"
    PROVE  /\ HasLabel /\ LabelPlaced(gpt, size)
           /\ gpt.p.alternative_lba = size - 1
           /\ Within(gpt.p.partition_entry_array_crc32, size)
           /\ Within(gpt.b.partition_entry_array_crc32, size)
<1>1. HasLabel /\ Writing
    BY DEF Typed, TypeOK, IInv
<1>2. LabelPlaced(gpt, size)
    BY <1>1 DEF LayoutInv
<1>3. Within(gpt.ents, size)
    BY <1>2 DEF LabelPlaced
<1>4. gpt.p.alternative_lba = size - 1
    <2>1. size - 1 # PRIMARY
        BY PlacesAre, GptAssumption
    <2> QED
        BY <1>2, <2>1, Zenon DEF LabelPlaced, Placed, InPlace
<1> QED
    BY <1>1, <1>2, <1>3, <1>4 DEF Writing

LEMMA WritePlaced ==
    ASSUME Typed, LayoutInv, Write
    PROVE  LayoutInv' /\ UsableKept
<1>1. CASE WriteBegin
    <2>1. /\ HasLabel /\ UNCHANGED <<size, disk, media>>
          /\ gpt' = gpt \/ gpt' = Sealed(gpt)
        BY <1>1 DEF WriteBegin, Editing
    <2>2. /\ FieldsTyped(gpt.p) /\ FieldsTyped(gpt.b)
          /\ LabelPlaced(gpt, size)
        BY <2>1, EditedFields DEF LayoutInv
    <2>3. LabelPlaced(gpt', size)
        BY <2>1, <2>2, SealedPlaced
    <2> QED
        BY <2>1, <2>3, MemoryPlaced
<1>2. CASE pc # "idle" /\ ~WriteBegin
    <2>1. /\ HasLabel /\ LabelPlaced(gpt, size)
          /\ gpt.p.alternative_lba = size - 1
          /\ Within(gpt.p.partition_entry_array_crc32, size)
          /\ Within(gpt.b.partition_entry_array_crc32, size)
        BY <1>2, WrittenPlaced
    <2>2. UNCHANGED <<size, gpt>>
        BY <1>2 DEF Write, WriteEntries, WriteHeader, WriteMbr, memory
    <2>3. LabelPlaced(gpt', size)
        BY <2>1, <2>2
    <2>4. CASE UNCHANGED <<disk, media>>
        BY <2>2, <2>3, <2>4, MemoryPlaced
    <2>5. ASSUME NEW h \in {gpt.p, gpt.b}, NEW k \in 0..NEntries,
                 Put(WithEntries(h.partition_entry_lba, k))
          PROVE  LayoutInv' /\ UsableKept
        BY <2>1, <2>2, <2>3, <2>5, EntriesPlaced, PutPlaced
    <2>6. ASSUME NEW lba \in {0, PRIMARY, size - 1},
                 NEW h \in {gpt.p, gpt.b, Mbr("protective")},
                 Put([disk EXCEPT ![lba] = h])
          PROVE  LayoutInv' /\ UsableKept
        <3>1. h.kind = "header" =>
                 /\ Placed(h, size)
                 /\ Within(h.partition_entry_array_crc32, size)
            BY <2>1 DEF LabelPlaced, Mbr
        <3> QED
            BY <2>2, <2>3, <2>6, <3>1, SectorPlaced, PutPlaced
    <2>7. CASE WriteEntries("backup entries", gpt.b.partition_entry_lba,
                            "backup header")
               \/ WriteEntries("entries", gpt.p.partition_entry_lba, "header")
        <3>1. \E h \in {gpt.p, gpt.b} :
                 \/ UNCHANGED <<disk, media>>
                 \/ Put(WithEntries(h.partition_entry_lba, NEntries))
                 \/ \E k \in 1..(NEntries - 1) :
                       Put(WithEntries(h.partition_entry_lba, k))
            BY <2>7, Zenon DEF WriteEntries
        <3> QED
            BY <2>4, <2>5, <3>1, PartsOfTable, Zenon
    <2>8. CASE WriteHeader("backup header", gpt.b, gpt.p.alternative_lba,
                           "entries")
               \/ WriteHeader("header", gpt.p, PRIMARY, "mbr")
        <3>1. \/ UNCHANGED <<disk, media>>
              \/ Put([disk EXCEPT ![size - 1] = gpt.b])
              \/ Put([disk EXCEPT ![PRIMARY] = gpt.p])
            BY <2>1, <2>8, Zenon DEF WriteHeader
        <3> QED
            BY <2>4, <2>6, <3>1
    <2>9. CASE WriteMbr
        <3>1. \/ UNCHANGED <<disk, media>>
              \/ Put([disk EXCEPT ![0] = Mbr("protective")])
            BY <2>9 DEF WriteMbr
        <3> QED
            BY <2>4, <2>6, <3>1
    <2> QED
        BY <1>2, <2>7, <2>8, <2>9, Zenon DEF Write
<1>3. WriteBegin \/ pc # "idle"
    BY DEF Write, WriteEntries, WriteHeader, WriteMbr
<1> QED
    BY <1>1, <1>2, <1>3

LEMMA FaultPlaced ==
    ASSUME Typed, LayoutInv,
           \/ Kill \/ PowerFailure
           \/ \E s \in DOMAIN disk : WriteBack(s)
    PROVE  LayoutInv' /\ UsableKept
<1>1. CASE Kill
    <2>1. UNCHANGED size /\ ~HasLabel'
        BY <1>1 DEF Kill, Gone, HasLabel, NoLabel
    <2>2. CASE UNCHANGED <<disk, media>>
        BY <2>1, <2>2, MemoryPlaced
    <2>3. ASSUME pc # "idle", NEW h \in {gpt.p, gpt.b}, NEW k \in 1..NEntries,
                 Put(WithEntries(h.partition_entry_lba, k))
          PROVE  LayoutInv' /\ UsableKept
        <3>1. HasLabel /\ k \in 0..NEntries
            BY <2>3, WrittenPlaced
        <3> QED
            BY <2>1, <2>3, <3>1, EntriesPlaced, PutPlaced
    <2>4. \/ UNCHANGED <<disk, media>>
          \/ /\ pc # "idle"
             /\ \E h \in {gpt.p, gpt.b} : \E k \in 1..NEntries :
                   Put(WithEntries(h.partition_entry_lba, k))
        BY <1>1 DEF Kill
    <2> QED
        BY <2>2, <2>3, <2>4
<1>2. CASE PowerFailure
    <2>1. /\ UNCHANGED size /\ ~HasLabel' /\ disk' = media /\ media' = media
        BY <1>2 DEF PowerFailure, Gone, HasLabel, NoLabel
    <2> QED
        BY <2>1, StepPlaced DEF LayoutInv
<1>3. ASSUME NEW s \in DOMAIN disk, WriteBack(s)
      PROVE  LayoutInv' /\ UsableKept
    <2>1. /\ UNCHANGED <<size, disk, gpt>>
          /\ media' = [media EXCEPT ![s] = disk[s]]
        BY <1>3 DEF WriteBack, memory
    <2>2. DOMAIN media = DOMAIN disk
        BY DEF Typed, TypeOK
    <2>3. HeadersPlaced(media', size)
        BY <2>1, <2>2 DEF LayoutInv, HeadersPlaced
    <2>4. \A t \in UsableSectors : media'[t] = disk[t]
        BY <2>1 DEF LayoutInv
    <2>5. HasLabel' => LabelPlaced(gpt', size)
        BY <2>1 DEF LayoutInv, HasLabel
    <2>6. /\ HeadersPlaced(disk', size)
          /\ \A t \in UsableSectors : disk'[t] = disk[t]
        BY <2>1 DEF LayoutInv
    <2> QED
        BY <2>1, <2>3, <2>4, <2>5, <2>6, StepPlaced
<1> QED
    BY <1>1, <1>2, <1>3

LEMMA NextPlaced ==
    ASSUME Orderly, Typed, LayoutInv, [Next]_vars
    PROVE  LayoutInv' /\ UsableKept
<1>1. CASE Assign \/ Deassign
    BY <1>1, SessionPlaced
<1>2. CASE Change
    BY <1>2, ChangePlaced
<1>3. CASE Write
    BY <1>3, WritePlaced
<1>4. CASE Kill \/ PowerFailure \/ (\E s \in DOMAIN disk : WriteBack(s))
    BY <1>4, FaultPlaced
<1>5. CASE \E n \in Sizes : Resize(n)
    BY <1>5 DEF Orderly
<1>6. CASE UNCHANGED vars
    BY <1>6 DEF vars, LayoutInv, HasLabel, UsableSectors, UsableKept
<1> QED
    BY <1>1, <1>2, <1>3, <1>4, <1>5, <1>6, Zenon DEF Next

\* What a layout gives: no write of the table goes over a partition in the
\* usable sectors of the header, and in a tidy layout over none at all.
LEMMA WritesKeep ==
    ASSUME Orderly, Typed, LayoutInv, [Next]_vars, pc # "idle",
           NEW s \in DOMAIN disk, disk'[s] # disk[s], NEW i \in Slots,
           Tidy \/ Sectors(gpt.ents[i]) \subseteq Usable
    PROVE  s \notin Sectors(gpt.ents[i])
<1>1. UsableKept
    BY NextPlaced
<1>2. s \notin UsableSectors
    BY <1>1 DEF UsableKept
<1>3. HasLabel /\ LabelPlaced(gpt, size)
    BY WrittenPlaced
<1>4. IsTable(gpt.ents) /\ FieldsTyped(gpt.p)
    BY <1>3, EditedFields
<1>5. gpt.ents[i] \in Entries
    BY <1>4 DEF IsTable
<1> DEFINE e == gpt.ents[i]
<1>6. e.start \in Int /\ e.end \in Int
    BY <1>5 DEF Entries
<1>7. FirstUsable \in Int /\ LastUsable(size) \in Int
    BY PlacesAre
<1>8. CASE Tidy
    <2>1. e.used => FirstUsable <= e.start /\ e.end <= LastUsable(size)
        BY <1>3, <1>8 DEF LabelPlaced, Within, Between
    <2> HIDE DEF e
    <2>2. Sectors(e) \subseteq UsableSectors
        BY <1>6, <1>7, <2>1 DEF Sectors, UsableSectors
    <2> QED
        BY <1>2, <2>2 DEF e
<1>9. CASE ~Tidy
    <2>1. /\ FirstUsable <= gpt.p.first_usable_lba
          /\ gpt.p.last_usable_lba <= LastUsable(size)
        BY <1>3 DEF LabelPlaced, Placed, InPlace
    <2>2. gpt.p.first_usable_lba \in Nat /\ gpt.p.last_usable_lba \in Nat
        BY <1>4, Zenon DEF FieldsTyped
    <2>3. Usable \subseteq UsableSectors
        BY <1>7, <2>1, <2>2 DEF Usable, UsableSectors
    <2> QED
        BY <1>2, <1>9, <2>3
<1> QED
    BY <1>8, <1>9

LEMMA StaysOrderly ==
    ASSUME Orderly
    PROVE  Spec => [](Typed /\ LayoutInv)
<1>1. Init => Typed /\ LayoutInv
    BY InitTyped, InitPlaced DEF Orderly
<1>2. Typed /\ LayoutInv /\ [Next]_vars => (Typed /\ LayoutInv)'
    BY NextTyped, NextPlaced DEF Orderly
<1> QED
    BY <1>1, <1>2, PTL DEF Spec

\* On a device that keeps its size, whose headers are in their places and leave
\* the space of both copies alone, no fault makes gpt_write_disklabel write over a
\* sector of a partition that lies in the usable sectors, whatever is added, moved
\* and resized.
THEOREM PartitionsAreKept ==
    ASSUME Orderly
    PROVE  Spec => DataKept
<1>1. Typed /\ LayoutInv /\ [Next]_vars =>
         (pc # "idle" =>
            \A s \in DOMAIN disk : disk'[s] # disk[s] =>
               \A i \in Slots : Sectors(gpt.ents[i]) \subseteq Usable =>
                  s \notin Sectors(gpt.ents[i]))
    BY WritesKeep
<1>2. Spec => [](Typed /\ LayoutInv)
    BY StaysOrderly
<1> QED
    BY <1>1, <1>2, PTL DEF Spec, DataKept

\* Where the layout is a tidy one, no partition at all is written over, for none
\* ever leaves the sectors between the copies: gpt_add_partition puts a partition
\* between the first and the last usable one, also where it aligns the start or
\* the end itself, as long as the usable space begins in a multiple of the grain,
\* starts that are asked for are aligned, and neither sizes nor positions are set
\* exactly.
THEOREM EveryPartitionIsKept ==
    ASSUME Orderly, Tidy
    PROVE  Spec => [][pc # "idle" =>
                        \A s \in DOMAIN disk : disk'[s] # disk[s] =>
                           \A i \in Slots : s \notin Sectors(gpt.ents[i])]_vars
<1>1. Typed /\ LayoutInv /\ [Next]_vars =>
         (pc # "idle" =>
            \A s \in DOMAIN disk : disk'[s] # disk[s] =>
               \A i \in Slots : s \notin Sectors(gpt.ents[i]))
    BY WritesKeep
<1>2. Spec => [](Typed /\ LayoutInv)
    BY StaysOrderly
<1> QED
    BY <1>1, <1>2, PTL DEF Spec

(***************************************************************************)
(* Where partitions are added                                              *)
(***************************************************************************)
\* A partition in slot n lies where AddedStopsAtNext says, between the sectors
\* that the header h leaves to partitions, and shares what it says with others.
LiesIn(ents, n, h) ==
    Sectors(ents[n]) \subseteq h.first_usable_lba..h.last_usable_lba

StopsAt(ents, n) ==
    \A i \in Slots \ {n} :
        ents[n].start \notin Sectors(ents[i]) =>
            \A s \in Sectors(ents[i]) \cap Sectors(ents[n]) :
                s = ents[i].start /\ s = ents[n].end

\* What begins in front of the new partition has ended there, and what begins
\* behind its start does not begin before find_last_free has stopped.
LEMMA AddedStops ==
    ASSUME Orderly, Tidy, Typed, LayoutInv, HasLabel, NEW n \in Slots,
           NEW pa \in Partition, NEW tag, Addable(n, pa),
           AddedStart(pa) <= AddedEnd(pa, AddedStart(pa))
    PROVE  LET ents == [gpt.ents EXCEPT ![n] =
                           Entry(TRUE, AddedStart(pa),
                                 AddedEnd(pa, AddedStart(pa)), tag)]
           IN  StopsAt(ents, n) /\ LiesIn(ents, n, gpt.p)
<1> DEFINE start == AddedStart(pa)
           end == AddedEnd(pa, start)
           stop == LastFree(gpt.p, gpt.ents, start)
           e == Entry(TRUE, start, end, tag)
           ents == [gpt.ents EXCEPT ![n] = e]
<1>1. FieldsTyped(gpt.p) /\ IsTable(gpt.ents)
    BY EditedFields
<1>2. \A i \in Slots : gpt.ents[i] \in Entries
    BY <1>1 DEF IsTable
<1>3. \A i \in Slots : gpt.ents[i].start \in Int /\ gpt.ents[i].end \in Int
    BY <1>2 DEF Entries
<1>4. start \in Nat /\ end \in Int /\ end <= stop
    BY AddedTyped, AddedWithin
<1>5. gpt.p.last_usable_lba \in Int
    <2>1. gpt.p.last_usable_lba \in Nat
        BY <1>1, Zenon DEF FieldsTyped
    <2> QED
        BY <2>1
<1>6. /\ stop \in Int
      /\ \A i \in Slots : start < gpt.ents[i].start => stop <= gpt.ents[i].start
    BY <1>3, <1>4, <1>5, LastFreeIs
<1>7. /\ ents[n] = e
      /\ \A i \in Slots \ {n} : ents[i] = gpt.ents[i]
    BY <1>1 DEF IsTable
<1>8. e.used = TRUE /\ e.start = start /\ e.end = end
    BY DEF Entry
<1>9. Sectors(e) = start..end
    BY <1>8 DEF Sectors
<1>10. gpt.p.first_usable_lba <= start /\ end <= gpt.p.last_usable_lba
       /\ gpt.p.first_usable_lba \in Int
    <2>1. gpt.p.first_usable_lba \in Nat
        BY <1>1, Zenon DEF FieldsTyped
    <2> QED
        BY <2>1, AddedWithin
<1> HIDE DEF start, end, stop, e, ents
<1>11. ASSUME NEW i \in Slots \ {n}, start \notin Sectors(gpt.ents[i]),
              NEW s \in Sectors(gpt.ents[i]) \cap Sectors(e)
       PROVE  s = gpt.ents[i].start /\ s = end
    <2> DEFINE from == gpt.ents[i].start
               to == gpt.ents[i].end
    <2>1. from \in Int /\ to \in Int
        BY <1>3
    <2>2. Sectors(gpt.ents[i]) = from..to
        BY <1>11 DEF Sectors
    <2>3. start < from => stop <= from
        BY <1>6
    <2> HIDE DEF from, to
    <2>4. s = from /\ s = end
        BY <1>4, <1>6, <1>9, <1>11, <2>1, <2>2, <2>3
    <2> QED
        BY <2>4 DEF from
<1>12. StopsAt(ents, n)
    BY <1>7, <1>8, <1>11, Zenon DEF StopsAt
<1>13. LiesIn(ents, n, gpt.p)
    BY <1>4, <1>5, <1>7, <1>9, <1>10 DEF LiesIn
<1> QED
    BY <1>12, <1>13 DEF ents, e, end, start

\* Only a call that adds a partition returns as one.
OtherCall == call'.name # "add" \/ UNCHANGED <<call, gpt>>

LEMMA OtherStops ==
    ASSUME OtherCall, AddedStopsAtNext
    PROVE  AddedStopsAtNext'
<1>1. CASE call'.name # "add"
    BY <1>1 DEF AddedStopsAtNext
<1>2. CASE UNCHANGED <<call, gpt>>
    BY <1>2 DEF AddedStopsAtNext, Usable
<1> QED
    BY <1>1, <1>2 DEF OtherCall

LEMMA SessionOther ==
    ASSUME \/ Assign \/ Deassign \/ Write \/ Kill \/ PowerFailure
           \/ \E s \in DOMAIN disk : WriteBack(s)
           \/ \E n \in Sizes : Resize(n)
    PROVE  OtherCall
<1>1. CASE Assign
    BY <1>1 DEF Assign, Return, Call, OtherCall
<1>2. CASE Deassign
    <2>1. \E rc : call' = Call("deassign", 0, rc)
        BY <1>2, Zenon DEF Deassign
    <2> QED
        BY <2>1 DEF Call, OtherCall
<1>3. CASE Write
    <2>1. CASE WriteBegin
        <3>1. \E rc : Return("write", 0, rc)
            BY <2>1, Zenon DEF WriteBegin
        <3> QED
            BY <3>1 DEF Return, Call, OtherCall
    <2>2. ASSUME NEW here, NEW lba, NEW there, WriteEntries(here, lba, there)
          PROVE  OtherCall
        BY <2>2 DEF WriteEntries, Abort, Call, OtherCall, memory
    <2>3. ASSUME NEW here, NEW h, NEW lba, NEW there,
                 WriteHeader(here, h, lba, there)
          PROVE  OtherCall
        BY <2>3 DEF WriteHeader, Abort, Call, OtherCall, memory
    <2>4. CASE WriteMbr
        BY <2>4 DEF WriteMbr, Abort, Call, OtherCall
    <2> QED
        BY <1>3, <2>1, <2>2, <2>3, <2>4, Zenon DEF Write
<1>4. CASE Kill \/ PowerFailure
    <2>1. Gone
        BY <1>4, Zenon DEF Kill, PowerFailure
    <2> QED
        BY <2>1 DEF Gone, Call, OtherCall
<1>5. CASE \E s \in DOMAIN disk : WriteBack(s)
    BY <1>5 DEF WriteBack, OtherCall, memory
<1>6. CASE \E n \in Sizes : Resize(n)
    BY <1>6 DEF Resize, OtherCall, memory
<1> QED
    BY <1>1, <1>2, <1>3, <1>4, <1>5, <1>6

LEMMA ChangeOther ==
    ASSUME Change
    PROVE  \/ OtherCall
           \/ \E n \in Slots, pa \in Partition, bad \in Bad : Add(n, pa, bad)
<1>1. ASSUME NEW g, Create(g) \/ SetId(g)
      PROVE  OtherCall
    BY <1>1 DEF Create, SetId, Return, Call, OtherCall
<1>2. ASSUME NEW n, NEW pa, NEW enlarge, NEW bad, Set(n, pa, enlarge, bad)
      PROVE  OtherCall
    <2>1. \E rc : Return("set", n, rc)
        BY <1>2, Zenon DEF Set
    <2> QED
        BY <2>1 DEF Return, Call, OtherCall
<1>3. ASSUME NEW n, NEW t, ToggleFlag(n, t)
      PROVE  OtherCall
    BY <1>3 DEF ToggleFlag, Return, Call, OtherCall
<1>4. ASSUME NEW n, Delete(n)
      PROVE  OtherCall
    BY <1>4 DEF Delete, Return, Call, OtherCall
<1>5. CASE Reorder
    <2>1. Return("reorder", 0, "ok")
        BY <1>5, Zenon DEF Reorder
    <2> QED
        BY <2>1 DEF Return, Call, OtherCall
<1>6. CASE Verify
    BY <1>6 DEF Verify, Return, Call, OtherCall
<1> QED
    BY <1>1, <1>2, <1>3, <1>4, <1>5, <1>6, Zenon DEF Change

LEMMA AddStops ==
    ASSUME Orderly, Tidy, Typed, LayoutInv, NEW n \in Slots, NEW pa \in Partition,
           NEW bad, Add(n, pa, bad)
    PROVE  AddedStopsAtNext'
<1> DEFINE start == AddedStart(pa)
           end == AddedEnd(pa, start)
           ents == [gpt.ents EXCEPT ![n] =
                       Entry(TRUE, start, end,
                             IF bad THEN gpt.ents[n].tag ELSE pa.tag)]
           l == [gpt EXCEPT !.ents = ents]
<1>1. HasLabel
    BY DEF Add, Editing
<1>2. \/ \E rc \in {"refused", "failed"} : Return("add", n, rc)
      \/ /\ Addable(n, pa) /\ start <= end
         /\ gpt' = Sealed(l)
         /\ Return("add", n, "ok")
    <2>1. ents = [gpt.ents EXCEPT ![n] =
                     Entry(TRUE, start, end, IF bad THEN @.tag ELSE pa.tag)]
        OBVIOUS
    <2> HIDE DEF ents
    <2> QED
        BY <2>1, Zenon DEF Add
<1>3. CASE \E rc \in {"refused", "failed"} : Return("add", n, rc)
    BY <1>3 DEF Return, Call, AddedStopsAtNext
<1>4. CASE /\ Addable(n, pa) /\ start <= end
           /\ gpt' = Sealed(l)
           /\ Return("add", n, "ok")
    <2>1. StopsAt(ents, n) /\ LiesIn(ents, n, gpt.p)
        BY <1>1, <1>4, AddedStops
    <2>2. LabelShape(gpt) /\ FieldsTyped(gpt.p)
        BY <1>1, EditedFields
    <2> HIDE DEF ents
    <2>3. l.ents = ents /\ l.p = gpt.p
        BY <2>2 DEF LabelShape
    <2> HIDE DEF l
    <2>4. gpt'.ents = ents /\ gpt'.p = Recomputed(gpt.p, ents)
        BY <1>4, <2>3 DEF Sealed, Label
    <2>5. call'.slot = n
        BY <1>4 DEF Return, Call
    <2>6. SamePlace(gpt'.p, gpt.p)
        BY <2>2, <2>4, ChangedPlace
    <2>7. LiesIn(gpt'.ents, n, gpt'.p)
        BY <2>1, <2>4, <2>6 DEF LiesIn, SamePlace
    <2> QED
        BY <2>1, <2>4, <2>5, <2>7
        DEF AddedStopsAtNext, StopsAt, LiesIn, Usable
<1> QED
    BY <1>2, <1>3, <1>4

\* In a tidy layout gpt_add_partition puts a partition where it meets no other
\* one that it does not begin in, but for the first sector of one that begins
\* where find_last_free stopped.  Further than that sector no order of the entries
\* and no alignment takes it.
THEOREM AddedPartitionsStop ==
    ASSUME Orderly, Tidy
    PROVE  Spec => []AddedStopsAtNext
<1> DEFINE AInv == Typed /\ LayoutInv /\ AddedStopsAtNext
<1>1. Init => AInv
    <2>1. Init => AddedStopsAtNext
        BY DEF Init, Call, AddedStopsAtNext
    <2> QED
        BY <2>1, InitTyped, InitPlaced DEF Orderly
<1>2. AInv /\ [Next]_vars => AInv'
    <2> SUFFICES ASSUME AInv, [Next]_vars PROVE AInv'
        OBVIOUS
    <2>1. (Typed /\ LayoutInv)'
        BY NextTyped, NextPlaced DEF Orderly
    <2>2. CASE \E n \in Slots, pa \in Partition, bad \in Bad : Add(n, pa, bad)
        BY <2>1, <2>2, AddStops
    <2>3. CASE UNCHANGED vars
        <3>1. OtherCall
            BY <2>3 DEF vars, OtherCall
        <3> QED
            BY <2>1, <3>1, OtherStops
    <2>4. CASE Next
        <3>1. \/ OtherCall
              \/ \E n \in Slots, pa \in Partition, bad \in Bad : Add(n, pa, bad)
            BY <2>4, SessionOther, ChangeOther, Zenon DEF Next
        <3> QED
            BY <2>1, <2>2, <3>1, OtherStops
    <2> QED
        BY <2>3, <2>4
<1> QED
    BY <1>1, <1>2, PTL DEF Spec
=============================================================================
