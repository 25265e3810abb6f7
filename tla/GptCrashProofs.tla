---------------------------- MODULE GptCrashProofs ----------------------------
(***************************************************************************)
(* What gpt_write_disklabel guarantees while its process can be killed and *)
(* its writes can fail, for devices of any size with any number of entries *)
(* whose headers, as far as there are any, lie where libfdisk puts them:   *)
(* a write that starts from a good primary copy switches from the old      *)
(* table to the new one in one step, and what a write that returned 0 has  *)
(* written is found.                                                       *)
(***************************************************************************)
EXTENDS GptProofs

(***************************************************************************)
(* The layout                                                              *)
(***************************************************************************)
\* There is room for both copies and a usable sector between them.
Room(n) == n \in Nat /\ n >= 2 * NEntries + 4

RangeFits(h, n) ==
    /\ h.first_usable_lba \in Int /\ h.last_usable_lba \in Int
    /\ 1 <= h.first_usable_lba
    /\ h.first_usable_lba <= h.last_usable_lba
    /\ h.last_usable_lba <= n - 1

IsPrimary(h, n) ==
    /\ RangeFits(h, n)
    /\ h.my_lba = 1 /\ h.alternative_lba = n - 1
    /\ h.partition_entry_lba = 2

IsBackup(h, n) ==
    /\ RangeFits(h, n)
    /\ h.my_lba = n - 1 /\ h.alternative_lba = 1
    /\ h.partition_entry_lba = n - 1 - NEntries

\* Headers are in the second sector and in the last, and nowhere else.
Layout(d, n) ==
    \A s \in DOMAIN d : d[s].kind = "header" =>
        (s = 1 /\ IsPrimary(d[s], n)) \/ (s = n - 1 /\ IsBackup(d[s], n))

\* What the theorems assume: the program can be killed and writes can fail,
\* every call gets strings that parse, and the device keeps its size.
Undisturbed ==
    /\ Faults \subseteq {"kill", "error"}
    /\ BadCalls = FALSE
    /\ Sizes = {}
    /\ \A d \in Devices : Room(d.size) /\ Layout(d.disk, d.size)
    /\ \A guid, ents : [guid |-> guid, ents |-> ents] # NoTable

\* The table that is found behind a valid MBR.
Tab(d, n) ==
    IF Intact(d, n, 1) THEN TableAt(d, 1)
    ELSE IF Intact(d, n, n - 1) THEN TableAt(d, n - 1)
    ELSE NoTable

\* In this layout both readers ask the same of a header.
LEMMA ReadersAgree ==
    ASSUME NEW d, NEW n, Room(n), DOMAIN d = 0..(MaxSize - 1), n <= MaxSize,
           Layout(d, n), NEW lba \in {1, n - 1}
    PROVE  /\ FdiskReads(d, n, lba) <=> Intact(d, n, lba)
           /\ BlkidReads(d, n, lba) <=> Intact(d, n, lba)
<1>1. lba \in DOMAIN d
    BY GptAssumption, EditorAssumption DEF Room
<1>2. ASSUME Intact(d, n, lba) PROVE RangeFits(d[lba], n)
    BY <1>1, <1>2 DEF Intact, Layout, IsPrimary, IsBackup
<1>3. ASSUME RangeFits(d[lba], n)
      PROVE  /\ ~(d[lba].first_usable_lba < PRIMARY /\ PRIMARY < d[lba].last_usable_lba)
             /\ ~(d[lba].first_usable_lba < lba /\ lba < d[lba].last_usable_lba)
    BY <1>3, GptAssumption DEF RangeFits, PRIMARY, Room
<1> QED
    BY <1>2, <1>3 DEF FdiskReads, BlkidReads

LEMMA FoundTables ==
    ASSUME NEW d, NEW n, Room(n), DOMAIN d = 0..(MaxSize - 1), n <= MaxSize,
           Layout(d, n)
    PROVE  /\ FdiskTable(d, n) = IF FdiskMbr(d[0]) THEN Tab(d, n) ELSE NoTable
           /\ BlkidTable(d, n) = IF BlkidMbr(d[0]) THEN Tab(d, n) ELSE NoTable
<1>1. \A lba \in {1, n - 1} :
         /\ FdiskReads(d, n, lba) <=> Intact(d, n, lba)
         /\ BlkidReads(d, n, lba) <=> Intact(d, n, lba)
    BY ReadersAgree
<1> QED
    BY <1>1 DEF FdiskTable, BlkidTable, Tab, PRIMARY

(***************************************************************************)
(* Copies of the table                                                     *)
(***************************************************************************)
\* A header whose checksums are right, over the entries ents.
Valid(h, ents) ==
    h.crc32 = Covered(h) /\ h.partition_entry_array_crc32 = ents

\* A valid header in its place, with its entries, is one that readers take.
LEMMA ValidIntact ==
    ASSUME NEW n, Room(n), NEW d, NEW lba, NEW ents,
           d[lba].kind = "header", Valid(d[lba], ents),
           \/ lba = 1 /\ IsPrimary(d[lba], n)
           \/ lba = n - 1 /\ IsBackup(d[lba], n),
           EntriesAt(d, d[lba].partition_entry_lba) = ents
    PROVE  /\ Intact(d, n, lba)
           /\ TableAt(d, lba) = [guid |-> d[lba].disk_guid, ents |-> ents]
<1>1. lba < n /\ d[lba].partition_entry_lba + NEntries <= n
    BY GptAssumption DEF Room, IsPrimary, IsBackup
<1>2. d[lba].my_lba = lba /\ RangeFits(d[lba], n)
    BY DEF IsPrimary, IsBackup
<1> QED
    BY <1>1, <1>2 DEF Intact, TableAt, Valid, RangeFits

\* A header never stands for two tables.
LEMMA OneTable ==
    ASSUME NEW n, NEW d, NEW e, NEW lba, Intact(d, n, lba), Intact(e, n, lba),
           e[lba] = d[lba]
    PROVE  TableAt(e, lba) = TableAt(d, lba)
BY DEF Intact, TableAt

\* The sectors of the primary copy with the MBR, and of the backup.
FrontSame(d, e) == \A s \in 0..(NEntries + 1) : e[s] = d[s]
BackSame(d, e, n) == \A s \in (n - 1 - NEntries)..(n - 1) : e[s] = d[s]

LEMMA FrontKept ==
    ASSUME NEW n, Room(n), n <= MaxSize, NEW d, DOMAIN d = 0..(MaxSize - 1),
           Layout(d, n), NEW e, FrontSame(d, e), Intact(d, n, 1)
    PROVE  Intact(e, n, 1) /\ TableAt(e, 1) = TableAt(d, 1)
<1>1. 1 \in DOMAIN d /\ n - 1 # 1
    BY GptAssumption, EditorAssumption DEF Room
<1>2. d[1].partition_entry_lba = 2
    BY <1>1 DEF Layout, Intact, IsPrimary
<1>3. e[1] = d[1] /\ EntriesAt(e, 2) = EntriesAt(d, 2)
    BY GptAssumption DEF FrontSame, EntriesAt, Slots
<1>4. EntriesAt(e, d[1].partition_entry_lba)
         = EntriesAt(d, d[1].partition_entry_lba)
    BY <1>2, <1>3
<1> QED
    BY <1>3, <1>4 DEF Intact, TableAt

LEMMA BackKept ==
    ASSUME NEW n, Room(n), n <= MaxSize, NEW d, DOMAIN d = 0..(MaxSize - 1),
           Layout(d, n), NEW e, BackSame(d, e, n), Intact(d, n, n - 1)
    PROVE  Intact(e, n, n - 1) /\ TableAt(e, n - 1) = TableAt(d, n - 1)
<1>1. n - 1 \in DOMAIN d /\ n - 1 # 1
    BY GptAssumption, EditorAssumption DEF Room
<1>2. d[n - 1].partition_entry_lba = n - 1 - NEntries
    BY <1>1 DEF Layout, Intact, IsBackup
<1>3. /\ e[n - 1] = d[n - 1]
      /\ EntriesAt(e, n - 1 - NEntries) = EntriesAt(d, n - 1 - NEntries)
    BY GptAssumption DEF BackSame, EntriesAt, Slots, Room
<1>4. EntriesAt(e, d[n - 1].partition_entry_lba)
         = EntriesAt(d, d[n - 1].partition_entry_lba)
    BY <1>2, <1>3
<1> QED
    BY <1>3, <1>4 DEF Intact, TableAt

(***************************************************************************)
(* Invariant                                                               *)
(***************************************************************************)
\* The primary copy is good, and is the table in memory.
Done(d) == Intact(d, size, 1) /\ TableAt(d, 1) = Edited

\* Between writes: the primary header tells of the entries in memory, and so
\* does the backup, unless it is a stale one and nothing has been changed.
Ready ==
    /\ gpt.p.partition_entry_array_crc32 = gpt.ents
    /\ gpt.b.partition_entry_array_crc32 = gpt.ents \/ Done(disk)

\* How far a write has come.
Staged ==
    /\ pc = "backup header" =>
          EntriesAt(disk, size - 1 - NEntries) = gpt.ents
    /\ pc = "header" => EntriesAt(disk, 2) = gpt.ents
    /\ pc = "mbr" => Done(disk)

\* What there is to fall back on.
Safe ==
    \/ Done(disk)
    \/ /\ Valid(gpt.b, gpt.ents)
       /\ gpt.b.disk_guid = gpt.p.disk_guid
       /\ pc \in {"backup entries", "backup header", "entries"} =>
             Intact(disk, size, 1)
       /\ pc \in {"entries", "header"} =>
             Intact(disk, size, size - 1) /\ TableAt(disk, size - 1) = Edited

InMemory ==
    /\ IsPrimary(gpt.p, size)
    /\ IsBackup(gpt.b, size)

CInv ==
    /\ Room(size)
    /\ Layout(disk, size)
    /\ HasLabel => InMemory
    /\ HasLabel /\ pc = "idle" => Ready
    /\ pc # "idle" =>
          /\ InMemory
          /\ Valid(gpt.p, gpt.ents)
          /\ Staged
          /\ sure => Safe
    /\ pc \in {"idle", "backup entries", "backup header", "entries", "header",
               "mbr"}

(***************************************************************************)
(* What a write does to the device                                         *)
(***************************************************************************)
\* The device after a step of a write, or after part of one.
Reached(d) ==
    \/ d = disk
    \/ /\ pc = "backup entries"
       /\ \E k \in 0..NEntries : d = WithEntries(gpt.b.partition_entry_lba, k)
    \/ /\ pc = "backup header"
       /\ d = [disk EXCEPT ![gpt.p.alternative_lba] = gpt.b]
    \/ /\ pc = "entries"
       /\ \E k \in 0..NEntries : d = WithEntries(gpt.p.partition_entry_lba, k)
    \/ pc = "header" /\ d = [disk EXCEPT ![PRIMARY] = gpt.p]
    \/ pc = "mbr" /\ d = [disk EXCEPT ![0] = Mbr("protective")]

\* Facts that hold of device and memory in the middle of a write.
Midway ==
    /\ Room(size) /\ size <= MaxSize
    /\ DOMAIN disk = 0..(MaxSize - 1)
    /\ Layout(disk, size)
    /\ LabelShape(gpt) /\ InMemory
    /\ Valid(gpt.p, gpt.ents)

LEMMA InvMidway ==
    ASSUME IInv, CInv, pc # "idle"
    PROVE  Midway
<1>1. size <= MaxSize
    BY EditorAssumption DEF IInv
<1>2. DOMAIN disk = 0..(MaxSize - 1) /\ LabelShape(gpt)
    BY DEF IInv, Known, Writing
<1> QED
    BY <1>1, <1>2 DEF CInv, Midway

LEMMA AfterBackupEntries ==
    ASSUME Midway, NEW k \in 0..NEntries, NEW d,
           d = WithEntries(gpt.b.partition_entry_lba, k)
    PROVE  /\ DOMAIN d = DOMAIN disk /\ Layout(d, size)
           /\ FrontSame(disk, d) /\ d[size - 1] = disk[size - 1]
           /\ k = NEntries => EntriesAt(d, size - 1 - NEntries) = gpt.ents
<1> DEFINE lba == size - 1 - NEntries
<1>1. gpt.b.partition_entry_lba = lba
    BY DEF Midway, InMemory, IsBackup
<1>2. /\ DOMAIN d = DOMAIN disk
      /\ \A s \in DOMAIN disk :
            d[s] = IF s \in lba..(lba + k - 1) THEN gpt.ents[s - lba] ELSE disk[s]
    BY <1>1 DEF WithEntries
<1>3. NEntries \in Nat \ {0} /\ size \in Nat /\ size >= 2 * NEntries + 4
      /\ size <= MaxSize /\ MaxSize \in Nat /\ DOMAIN disk = 0..(MaxSize - 1)
    BY GptAssumption, EditorAssumption DEF Midway, Room
<1>4. FrontSame(disk, d) /\ d[size - 1] = disk[size - 1]
    <2>1. k \in Nat /\ k <= NEntries
        BY <1>3
    <2>2. ASSUME NEW s \in 0..(NEntries + 1)
          PROVE  s \in DOMAIN disk /\ s \notin lba..(lba + k - 1)
        BY <1>3, <2>1
    <2>3. size - 1 \in DOMAIN disk /\ size - 1 \notin lba..(lba + k - 1)
        BY <1>3, <2>1
    <2> HIDE DEF lba
    <2> QED
        BY <1>2, <2>2, <2>3 DEF FrontSame
<1>5. \A s \in lba..(lba + k - 1) : s - lba \in Slots
    BY <1>3 DEF Slots
<1>6. \A s \in DOMAIN d : d[s].kind = "header" => d[s] = disk[s]
    BY <1>2, <1>5 DEF Midway, LabelShape, Plain
<1>7. Layout(d, size)
    BY <1>2, <1>6 DEF Midway, Layout
<1>8. ASSUME k = NEntries PROVE EntriesAt(d, lba) = gpt.ents
    <2>1. \A i \in Slots : /\ lba + i \in DOMAIN disk
                           /\ lba + i \in lba..(lba + k - 1)
                           /\ (lba + i) - lba = i
        BY <1>3, <1>8 DEF Slots
    <2>2. \A i \in Slots : d[lba + i] = gpt.ents[i]
        BY <1>2, <2>1
    <2>3. gpt.ents = [i \in Slots |-> gpt.ents[i]]
        BY DEF Midway, LabelShape, Plain
    <2> QED
        BY <2>2, <2>3 DEF EntriesAt
<1> QED
    BY <1>2, <1>4, <1>7, <1>8

LEMMA AfterEntries ==
    ASSUME Midway, NEW k \in 0..NEntries, NEW d,
           d = WithEntries(gpt.p.partition_entry_lba, k)
    PROVE  /\ DOMAIN d = DOMAIN disk /\ Layout(d, size)
           /\ BackSame(disk, d, size) /\ d[0] = disk[0] /\ d[1] = disk[1]
           /\ k = NEntries => EntriesAt(d, 2) = gpt.ents
           /\ EntriesAt(disk, 2) = gpt.ents => EntriesAt(d, 2) = gpt.ents
<1>1. gpt.p.partition_entry_lba = 2
    BY DEF Midway, InMemory, IsPrimary
<1>2. /\ DOMAIN d = DOMAIN disk
      /\ \A s \in DOMAIN disk :
            d[s] = IF s \in 2..(2 + k - 1) THEN gpt.ents[s - 2] ELSE disk[s]
    BY <1>1 DEF WithEntries
<1>3. NEntries \in Nat \ {0} /\ size \in Nat /\ size >= 2 * NEntries + 4
      /\ size <= MaxSize /\ MaxSize \in Nat /\ DOMAIN disk = 0..(MaxSize - 1)
    BY GptAssumption, EditorAssumption DEF Midway, Room
<1>4. BackSame(disk, d, size) /\ d[0] = disk[0] /\ d[1] = disk[1]
    <2>1. k \in Nat /\ k <= NEntries
        BY <1>3
    <2>2. ASSUME NEW s \in (size - 1 - NEntries)..(size - 1)
          PROVE  s \in DOMAIN disk /\ s \notin 2..(2 + k - 1)
        BY <1>3, <2>1
    <2>3. /\ 0 \in DOMAIN disk /\ 0 \notin 2..(2 + k - 1)
          /\ 1 \in DOMAIN disk /\ 1 \notin 2..(2 + k - 1)
        BY <1>3, <2>1
    <2> QED
        BY <1>2, <2>2, <2>3 DEF BackSame
<1>5. \A s \in 2..(2 + k - 1) : s - 2 \in Slots
    BY <1>3 DEF Slots
<1>6. \A s \in DOMAIN d : d[s].kind = "header" => d[s] = disk[s]
    BY <1>2, <1>5 DEF Midway, LabelShape, Plain
<1>7. Layout(d, size)
    BY <1>2, <1>6 DEF Midway, Layout
<1>8. \A i \in Slots : 2 + i \in DOMAIN disk /\ (2 + i) - 2 = i
    BY <1>3 DEF Slots
<1>9. gpt.ents = [i \in Slots |-> gpt.ents[i]]
    BY DEF Midway, LabelShape, Plain
<1>10. ASSUME k = NEntries PROVE EntriesAt(d, 2) = gpt.ents
    <2>1. \A i \in Slots : 2 + i \in 2..(2 + k - 1)
        BY <1>3, <1>10 DEF Slots
    <2>2. \A i \in Slots : d[2 + i] = gpt.ents[i]
        BY <1>2, <1>8, <2>1
    <2> QED
        BY <1>9, <2>2 DEF EntriesAt
<1>11. ASSUME EntriesAt(disk, 2) = gpt.ents PROVE EntriesAt(d, 2) = gpt.ents
    <2>1. \A i \in Slots : disk[2 + i] = gpt.ents[i]
        BY <1>11 DEF EntriesAt
    <2>2. \A i \in Slots : d[2 + i] = gpt.ents[i]
        BY <1>2, <1>8, <2>1
    <2> QED
        BY <1>9, <2>2 DEF EntriesAt
<1> QED
    BY <1>2, <1>4, <1>7, <1>10, <1>11

LEMMA AfterBackupHeader ==
    ASSUME Midway, NEW d, d = [disk EXCEPT ![gpt.p.alternative_lba] = gpt.b]
    PROVE  /\ DOMAIN d = DOMAIN disk /\ Layout(d, size)
           /\ FrontSame(disk, d) /\ d[size - 1] = gpt.b
           /\ EntriesAt(d, size - 1 - NEntries)
                 = EntriesAt(disk, size - 1 - NEntries)
<1>1. gpt.p.alternative_lba = size - 1 /\ IsBackup(gpt.b, size)
    BY DEF Midway, InMemory, IsPrimary
<1>2. NEntries \in Nat \ {0} /\ size \in Nat /\ size >= 2 * NEntries + 4
      /\ size <= MaxSize /\ MaxSize \in Nat /\ DOMAIN disk = 0..(MaxSize - 1)
    BY GptAssumption, EditorAssumption DEF Midway, Room
<1>3. /\ DOMAIN d = DOMAIN disk /\ d[size - 1] = gpt.b
      /\ \A s \in DOMAIN disk : s # size - 1 => d[s] = disk[s]
    BY <1>1, <1>2
<1>4. Layout(d, size)
    BY <1>1, <1>3 DEF Midway, Layout
<1>5. FrontSame(disk, d)
    BY <1>2, <1>3 DEF FrontSame
<1>6. \A i \in Slots : d[size - 1 - NEntries + i] = disk[size - 1 - NEntries + i]
    BY <1>2, <1>3 DEF Slots
<1> QED
    BY <1>3, <1>4, <1>5, <1>6 DEF EntriesAt

LEMMA AfterHeader ==
    ASSUME Midway, NEW d, d = [disk EXCEPT ![PRIMARY] = gpt.p]
    PROVE  /\ DOMAIN d = DOMAIN disk /\ Layout(d, size)
           /\ BackSame(disk, d, size) /\ d[0] = disk[0] /\ d[1] = gpt.p
           /\ EntriesAt(d, 2) = EntriesAt(disk, 2)
<1>1. IsPrimary(gpt.p, size)
    BY DEF Midway, InMemory
<1>2. NEntries \in Nat \ {0} /\ size \in Nat /\ size >= 2 * NEntries + 4
      /\ size <= MaxSize /\ MaxSize \in Nat /\ DOMAIN disk = 0..(MaxSize - 1)
    BY GptAssumption, EditorAssumption DEF Midway, Room
<1>3. /\ DOMAIN d = DOMAIN disk /\ d[1] = gpt.p
      /\ \A s \in DOMAIN disk : s # 1 => d[s] = disk[s]
    BY <1>2 DEF PRIMARY
<1>4. Layout(d, size)
    BY <1>1, <1>3 DEF Midway, Layout
<1>5. BackSame(disk, d, size) /\ d[0] = disk[0]
    BY <1>2, <1>3 DEF BackSame
<1>6. \A i \in Slots : d[2 + i] = disk[2 + i]
    BY <1>2, <1>3 DEF Slots
<1> QED
    BY <1>3, <1>4, <1>5, <1>6 DEF EntriesAt

LEMMA AfterMbr ==
    ASSUME Midway, NEW d, d = [disk EXCEPT ![0] = Mbr("protective")]
    PROVE  /\ DOMAIN d = DOMAIN disk /\ Layout(d, size)
           /\ d[0] = Mbr("protective") /\ d[1] = disk[1]
           /\ EntriesAt(d, 2) = EntriesAt(disk, 2)
<1>1. NEntries \in Nat \ {0} /\ size \in Nat /\ size >= 2 * NEntries + 4
      /\ size <= MaxSize /\ MaxSize \in Nat /\ DOMAIN disk = 0..(MaxSize - 1)
    BY GptAssumption, EditorAssumption DEF Midway, Room
<1>2. /\ DOMAIN d = DOMAIN disk /\ d[0] = Mbr("protective")
      /\ \A s \in DOMAIN disk : s # 0 => d[s] = disk[s]
    BY <1>1
<1>3. Layout(d, size)
    BY <1>2 DEF Midway, Layout, Mbr
<1>4. \A i \in Slots : d[2 + i] = disk[2 + i]
    BY <1>1, <1>2 DEF Slots
<1> QED
    BY <1>1, <1>2, <1>3, <1>4 DEF EntriesAt

(***************************************************************************)
(* What is found                                                           *)
(***************************************************************************)
LEMMA HeaderDone ==
    ASSUME Midway, NEW d, d[1] = gpt.p, EntriesAt(d, 2) = gpt.ents
    PROVE  Done(d)
<1>1. IsPrimary(d[1], size) /\ d[1].kind = "header" /\ Valid(d[1], gpt.ents)
    BY DEF Midway, InMemory, LabelShape, HeaderShape
<1>2. d[1].partition_entry_lba = 2
    BY <1>1 DEF IsPrimary
<1>3. /\ Intact(d, size, 1)
      /\ TableAt(d, 1) = [guid |-> d[1].disk_guid, ents |-> gpt.ents]
    BY <1>1, <1>2, ValidIntact DEF Midway
<1> QED
    BY <1>3 DEF Done, Edited

LEMMA BackupDone ==
    ASSUME Midway, Valid(gpt.b, gpt.ents), gpt.b.disk_guid = gpt.p.disk_guid,
           NEW d, d[size - 1] = gpt.b,
           EntriesAt(d, size - 1 - NEntries) = gpt.ents
    PROVE  Intact(d, size, size - 1) /\ TableAt(d, size - 1) = Edited
<1>1. /\ IsBackup(d[size - 1], size) /\ d[size - 1].kind = "header"
      /\ Valid(d[size - 1], gpt.ents)
    BY DEF Midway, InMemory, LabelShape, HeaderShape
<1>2. d[size - 1].partition_entry_lba = size - 1 - NEntries
    BY <1>1 DEF IsBackup
<1>3. /\ Intact(d, size, size - 1)
      /\ TableAt(d, size - 1)
            = [guid |-> d[size - 1].disk_guid, ents |-> gpt.ents]
    BY <1>1, <1>2, ValidIntact DEF Midway
<1> QED
    BY <1>3 DEF Edited

\* A good primary copy that is the table in memory stays one, whatever is
\* written.
LEMMA DoneKept ==
    ASSUME Midway, Done(disk), NEW d, Reached(d)
    PROVE  Done(d)
<1>1. /\ Room(size) /\ size <= MaxSize /\ DOMAIN disk = 0..(MaxSize - 1)
      /\ Layout(disk, size)
    BY DEF Midway
<1>2. disk[1].partition_entry_lba = 2
    BY <1>1, GptAssumption, EditorAssumption
    DEF Done, Intact, Layout, IsPrimary, Room
<1>3. ASSUME FrontSame(disk, d) PROVE Done(d)
    BY <1>1, <1>3, FrontKept DEF Done
<1>4. ASSUME d[1] = disk[1], EntriesAt(d, 2) = EntriesAt(disk, 2) PROVE Done(d)
    BY <1>2, <1>4 DEF Done, Intact, TableAt
<1>5. EntriesAt(disk, 2) = gpt.ents
    BY <1>2 DEF Done, TableAt, Edited
<1>6. CASE d = disk
    BY <1>6
<1>7. CASE \E k \in 0..NEntries : d = WithEntries(gpt.b.partition_entry_lba, k)
    BY <1>3, <1>7, AfterBackupEntries
<1>8. CASE d = [disk EXCEPT ![gpt.p.alternative_lba] = gpt.b]
    BY <1>3, <1>8, AfterBackupHeader
<1>9. CASE \E k \in 0..NEntries : d = WithEntries(gpt.p.partition_entry_lba, k)
    BY <1>4, <1>5, <1>9, AfterEntries
<1>10. CASE d = [disk EXCEPT ![PRIMARY] = gpt.p]
    BY <1>5, <1>10, AfterHeader, HeaderDone
<1>11. CASE d = [disk EXCEPT ![0] = Mbr("protective")]
    BY <1>4, <1>11, AfterMbr
<1> QED
    BY <1>6, <1>7, <1>8, <1>9, <1>10, <1>11 DEF Reached

\* Every step of a write leaves what was found before, or the new table; and
\* the MBR is only touched when the new table is in its place.
LEMMA FoundOldOrNew ==
    ASSUME Midway, Staged, Safe, pc # "idle", NEW d, Reached(d)
    PROVE  /\ Tab(d, size) \in {Tab(disk, size), Edited}
           /\ \/ d[0] = disk[0]
              \/ d[0] = Mbr("protective") /\ Tab(d, size) = Edited
<1>1. ASSUME Done(d) PROVE Tab(d, size) = Edited
    BY <1>1 DEF Done, Tab
<1>2. Room(size) /\ size <= MaxSize /\ DOMAIN disk = 0..(MaxSize - 1)
         /\ Layout(disk, size)
    BY DEF Midway
<1>3. ASSUME FrontSame(disk, d), Intact(disk, size, 1)
      PROVE  Tab(d, size) = Tab(disk, size)
    BY <1>2, <1>3, FrontKept DEF Tab
<1>4. ASSUME FrontSame(disk, d) PROVE d[0] = disk[0]
    BY <1>4, GptAssumption DEF FrontSame
<1>5. CASE d = disk
    BY <1>5
<1>6. CASE /\ pc \in {"backup entries", "backup header"}
           /\ FrontSame(disk, d)
    <2>1. Intact(disk, size, 1)
        BY <1>6 DEF Safe, Done
    <2> QED
        BY <1>3, <1>4, <1>6, <2>1
<1>7. CASE /\ pc = "entries" /\ d # disk
           /\ \E k \in 0..NEntries : d = WithEntries(gpt.p.partition_entry_lba, k)
    <2>1. BackSame(disk, d, size) /\ d[0] = disk[0] /\ d[1] = disk[1]
        BY <1>7, AfterEntries
    <2>2. CASE Done(disk)
        BY <1>1, <2>1, <2>2, DoneKept
    <2>3. CASE ~Done(disk)
        <3>1. /\ Intact(disk, size, size - 1)
              /\ TableAt(disk, size - 1) = Edited
              /\ Intact(disk, size, 1)
            BY <1>7, <2>3 DEF Safe
        <3>2. Intact(d, size, size - 1) /\ TableAt(d, size - 1) = Edited
            BY <1>2, <2>1, <3>1, BackKept
        <3>3. Intact(d, size, 1) => TableAt(d, 1) = TableAt(disk, 1)
            BY <2>1, <3>1, OneTable
        <3> QED
            BY <2>1, <3>1, <3>2, <3>3 DEF Tab
    <2> QED
        BY <2>2, <2>3
<1>8. CASE pc = "header" /\ d = [disk EXCEPT ![PRIMARY] = gpt.p]
    <2>1. d[0] = disk[0] /\ d[1] = gpt.p /\ EntriesAt(d, 2) = gpt.ents
        BY <1>8, AfterHeader DEF Staged
    <2> QED
        BY <1>1, <2>1, HeaderDone
<1>9. CASE pc = "mbr" /\ d = [disk EXCEPT ![0] = Mbr("protective")]
    <2>1. d[0] = Mbr("protective")
        BY <1>9, AfterMbr
    <2>2. Done(d)
        BY <1>9, DoneKept DEF Staged
    <2> QED
        BY <1>1, <2>1, <2>2
<1> QED
    BY <1>5, <1>6, <1>7, <1>8, <1>9, AfterBackupEntries, AfterBackupHeader
    DEF Reached

(***************************************************************************)
(* Between writes                                                          *)
(***************************************************************************)
LEMMA CInvInit == Undisturbed /\ Init => CInv
<1> SUFFICES ASSUME Undisturbed, Init PROVE CInv
    OBVIOUS
<1>1. PICK d \in Devices : size = d.size /\ disk = d.disk
    BY DEF Init
<1>2. Room(size) /\ Layout(disk, size)
    BY <1>1 DEF Undisturbed
<1>3. ~HasLabel /\ pc = "idle"
    BY DEF Init, HasLabel
<1> QED
    BY <1>2, <1>3 DEF CInv

\* Checksums are all that gpt_recompute_crc changes.
LEMMA RecomputedSame ==
    ASSUME NEW h, HeaderShape(h), NEW ents, NEW n
    PROVE  /\ IsPrimary(h, n) => IsPrimary(Recomputed(h, ents), n)
           /\ IsBackup(h, n) => IsBackup(Recomputed(h, ents), n)
           /\ Recomputed(h, ents).disk_guid = h.disk_guid
           /\ Recomputed(h, ents).crc32 = Covered(h)
           /\ h.partition_entry_array_crc32 = ents =>
                 Valid(Recomputed(h, ents), ents)
<1> DEFINE r == Recomputed(h, ents)
<1>1. /\ r.disk_guid = h.disk_guid
      /\ r.my_lba = h.my_lba
      /\ r.alternative_lba = h.alternative_lba
      /\ r.first_usable_lba = h.first_usable_lba
      /\ r.last_usable_lba = h.last_usable_lba
      /\ r.partition_entry_lba = h.partition_entry_lba
      /\ r.partition_entry_array_crc32 = ents
      /\ r.crc32 = Covered(h)
    BY DEF Recomputed, HeaderShape
<1>2. /\ IsPrimary(h, n) => IsPrimary(r, n)
      /\ IsBackup(h, n) => IsBackup(r, n)
    BY <1>1 DEF IsPrimary, IsBackup, RangeFits
<1>3. h.partition_entry_array_crc32 = ents => Covered(r) = Covered(h)
    BY <1>1 DEF Covered
<1> QED
    BY <1>1, <1>2, <1>3 DEF Valid

InPlaces(l, n) == IsPrimary(l.p, n) /\ IsBackup(l.b, n)

LEMMA SealedSame ==
    ASSUME NEW l, LabelShape(l), NEW n
    PROVE  /\ InPlaces(l, n) => InPlaces(Sealed(l), n)
           /\ Sealed(l).p.disk_guid = l.p.disk_guid
           /\ Sealed(l).b.disk_guid = l.b.disk_guid
           /\ l.p.partition_entry_array_crc32 = l.ents =>
                 Valid(Sealed(l).p, l.ents)
           /\ l.b.partition_entry_array_crc32 = l.ents =>
                 Valid(Sealed(l).b, l.ents)
<1>1. /\ Sealed(l).p = Recomputed(l.p, l.ents)
      /\ Sealed(l).b = Recomputed(l.b, l.ents)
    BY DEF Sealed, Label
<1> QED
    BY <1>1, RecomputedSame DEF LabelShape, InPlaces

\* gpt_copy_header makes a backup of a primary header and the other way round.
LEMMA CopiedPlace ==
    ASSUME NEW h, HeaderShape(h), NEW n, Room(n), NEW ents
    PROVE  /\ IsPrimary(h, n) => IsBackup(Recomputed(Copied(h, n), ents), n)
           /\ IsBackup(h, n) => IsPrimary(Recomputed(Copied(h, n), ents), n)
<1> DEFINE c == Copied(h, n)
<1>1. HeaderShape(c)
    BY BuiltShape, GptAssumption DEF Room
<1>2. IsPrimary(h, n) => IsBackup(c, n)
    BY GptAssumption
    DEF Copied, Header, IsPrimary, IsBackup, RangeFits, Room, PRIMARY, BackupEntries
<1>3. IsBackup(h, n) => IsPrimary(c, n)
    BY DEF Copied, Header, IsPrimary, IsBackup, RangeFits, PRIMARY
<1> QED
    BY <1>1, <1>2, <1>3, RecomputedSame

\* Calls that leave the device alone.
LEMMA QuietStep ==
    ASSUME CInv, UNCHANGED <<size, disk>>, pc' = "idle",
           HasLabel' => InPlaces(gpt', size) /\ Ready'
    PROVE  CInv'
<1>1. HasLabel' => InMemory'
    BY DEF InPlaces, InMemory
<1> QED
    BY <1>1 DEF CInv

\* The label that gpt_probe_label leaves tells of what is on the device.
LEMMA ProbedReady ==
    ASSUME IInv, CInv, Probed # NoLabel, gpt' = Probed, UNCHANGED <<size, disk>>
    PROVE  InPlaces(gpt', size) /\ Ready'
<1> DEFINE p == disk[PRIMARY]
           alt == IF FdiskReads(disk, size, PRIMARY)
                  THEN p.alternative_lba ELSE size - 1
           pOK == FdiskReads(disk, size, PRIMARY)
           bOK == FdiskReads(disk, size, alt)
           ents == TableAt(disk, IF pOK THEN PRIMARY ELSE alt).ents
           fromB == Recomputed(Copied(disk[alt], size), ents)
           fromP == Recomputed(Copied(p, size), ents)
<1>1. Probed = Label(IF pOK THEN p ELSE fromB, IF bOK THEN disk[alt] ELSE fromP,
                     ents)
    BY Zenon DEF Probed
<1>2. pOK \/ bOK
    BY Zenon DEF Probed
<1>3. /\ PRIMARY = 1 /\ size \in Nat /\ size - 1 \in Nat /\ size - 1 # 1
      /\ 1 \in DOMAIN disk /\ size - 1 \in DOMAIN disk
      /\ Layout(disk, size) /\ Room(size)
    <2>1. Layout(disk, size) /\ Room(size)
        BY DEF CInv
    <2>2. DOMAIN disk = 0..(MaxSize - 1) /\ size \in 1..MaxSize
        BY DEF IInv, Known
    <2> QED
        BY <2>1, <2>2, GptAssumption, EditorAssumption DEF Room, PRIMARY
<1>4. ASSUME pOK
      PROVE  /\ IsPrimary(p, size) /\ HeaderShape(p)
             /\ p.partition_entry_array_crc32 = TableAt(disk, 1).ents
             /\ Intact(disk, size, 1)
    BY <1>3, <1>4, ReadKnown DEF FdiskReads, Intact, Layout, TableAt, IInv
<1>5. alt = size - 1
    BY <1>4 DEF IsPrimary
<1>6. ASSUME bOK
      PROVE  /\ IsBackup(disk[alt], size) /\ HeaderShape(disk[alt])
             /\ disk[alt].partition_entry_array_crc32 = TableAt(disk, alt).ents
    BY <1>3, <1>5, <1>6, ReadKnown DEF FdiskReads, Intact, Layout, TableAt, IInv
<1>7. CASE pOK
    <2>1. /\ gpt'.p = p /\ gpt'.ents = TableAt(disk, 1).ents
          /\ gpt'.b = IF bOK THEN disk[alt] ELSE fromP
        BY <1>1, <1>3, <1>7 DEF Label
    <2>2. IsBackup(fromP, size)
        BY <1>3, <1>4, <1>7, CopiedPlace
    <2>3. Done(disk)'
        BY <1>3, <1>4, <1>7, <2>1 DEF Done, TableAt, Edited
    <2> QED
        BY <1>4, <1>6, <1>7, <2>1, <2>2, <2>3 DEF InPlaces, Ready
<1>8. CASE ~pOK
    <2>1. /\ gpt'.p = fromB /\ gpt'.b = disk[alt]
          /\ gpt'.ents = TableAt(disk, alt).ents /\ gpt'.ents = ents
        BY <1>1, <1>2, <1>8 DEF Label
    <2>2. HeaderShape(Copied(disk[alt], size))
        <3>1. HeaderShape(disk[alt])
            BY <1>2, <1>6, <1>8
        <3>2. size \in Nat \ {0}
            BY <1>3, GptAssumption DEF Room
        <3> HIDE DEF alt
        <3> QED
            BY <3>1, <3>2, BuiltShape
    <2>3. /\ IsPrimary(fromB, size)
          /\ fromB.partition_entry_array_crc32 = ents
        BY <1>2, <1>3, <1>6, <1>8, <2>2, CopiedPlace, RecomputedShape
    <2> QED
        BY <1>2, <1>6, <1>8, <2>1, <2>3 DEF InPlaces, Ready
<1> QED
    BY <1>7, <1>8

\* A call that changes the table seals both headers.
LEMMA SealedReady ==
    ASSUME CInv, UNCHANGED <<size, disk>>, pc' = "idle",
           NEW l, LabelShape(l), InPlaces(l, size), gpt' = Sealed(l)
    PROVE  CInv'
<1>1. InPlaces(gpt', size)
    BY SealedSame
<1>2. Ready'
    BY SealedShape DEF Ready
<1> QED
    BY <1>1, <1>2, QuietStep

LEMMA NothingChanged ==
    ASSUME IInv, CInv, UNCHANGED <<size, disk, gpt>>, pc = "idle", pc' = "idle"
    PROVE  CInv'
<1>1. HasLabel' => InPlaces(gpt', size) /\ Ready'
    BY DEF CInv, InMemory, InPlaces, Ready, Done, HasLabel, Edited
<1> QED
    BY <1>1, QuietStep

LEMMA AssignStep ==
    ASSUME IInv, CInv, Assign \/ Deassign
    PROVE  CInv'
<1>1. CASE Assign
    <2>1. UNCHANGED <<size, disk>> /\ gpt' = Probed
        BY <1>1 DEF Assign
    <2>2. pc' = "idle"
        BY <1>1 DEF Assign
    <2>3. HasLabel' => InPlaces(gpt', size) /\ Ready'
        BY <2>1, ProbedReady DEF HasLabel
    <2> QED
        BY <2>1, <2>2, <2>3, QuietStep
<1>2. CASE Deassign
    BY <1>2, NothingChanged DEF Deassign
<1> QED
    BY <1>1, <1>2

LEMMA CreateStep ==
    ASSUME IInv, CInv, NEW g \in Guids, Create(g)
    PROVE  CInv'
<1> DEFINE p == NewPrimary(g, size)
           none == [i \in Slots |-> Zero]
           l == Label(p, NewBackup(p, size), none)
<1>1. Room(size) /\ size \in Nat \ {0}
    <2>1. Room(size)
        BY DEF CInv
    <2> QED
        BY <2>1, GptAssumption DEF Room
<1>2. HeaderShape(p)
    BY <1>1, GptAssumption DEF HeaderShape, NewPrimary, Header, PRIMARY, Room
<1>3. HeaderShape(NewBackup(p, size))
    BY <1>1, <1>2, BuiltShape
<1>4. Plain(none)
    BY DEF Plain, Zero, Entry
<1>5. LabelShape(l)
    BY <1>2, <1>3, <1>4 DEF LabelShape, Label
<1>6. IsPrimary(p, size)
    BY <1>1, GptAssumption
    DEF NewPrimary, Header, IsPrimary, RangeFits, Room, PRIMARY, FirstMade,
        FirstUsable, LastUsable
<1>7. IsBackup(NewBackup(p, size), size)
    BY <1>1, <1>6, GptAssumption
    DEF NewBackup, Header, IsPrimary, IsBackup, RangeFits, PRIMARY, BackupEntries
<1>8. InPlaces(l, size)
    BY <1>6, <1>7 DEF InPlaces, Label
<1>9. gpt' = Sealed(l) /\ UNCHANGED <<size, disk>> /\ pc' = "idle"
    BY DEF Create, UNCHANGED_Device
<1> QED
    BY <1>5, <1>8, <1>9, SealedReady

\* Entries change, the places of the headers do not.
LEMMA EditStep ==
    ASSUME IInv, CInv, Editing, UNCHANGED_Device, NEW ents, Plain(ents),
           gpt' = Sealed([gpt EXCEPT !.ents = ents])
    PROVE  CInv'
<1> DEFINE l == [gpt EXCEPT !.ents = ents]
<1>1. LabelShape(l)
    BY LabelChanged DEF Editing
<1>2. l.p = gpt.p /\ l.b = gpt.b
    OBVIOUS
<1>3. InPlaces(l, size)
    BY <1>2 DEF CInv, Editing, InMemory, InPlaces
<1> QED
    BY <1>1, <1>3, SealedReady DEF Editing, UNCHANGED_Device

LEMMA AddEdit ==
    ASSUME IInv, CInv, NEW n \in Slots, NEW pa, Add(n, pa, FALSE)
    PROVE  CInv'
<1> DEFINE e == Entry(TRUE, AddedStart(pa), AddedEnd(pa, AddedStart(pa)), pa.tag)
           ents == [gpt.ents EXCEPT ![n] = e]
<1>1. Editing /\ UNCHANGED_Device
    BY DEF Add
<1>2. UNCHANGED gpt \/ gpt' = Sealed([gpt EXCEPT !.ents = ents])
    BY DEF Add
<1>3. Plain(ents)
    BY <1>1, ChangedPlain, EntryKind DEF Editing, IInv, LabelShape
<1>4. CASE UNCHANGED gpt
    BY <1>1, <1>4, NothingChanged DEF Editing, UNCHANGED_Device
<1> QED
    BY <1>1, <1>2, <1>3, <1>4, EditStep

LEMMA SetEdit ==
    ASSUME IInv, CInv, NEW n \in Slots, NEW pa, NEW enlarge,
           Set(n, pa, enlarge, FALSE)
    PROVE  CInv'
<1> DEFINE t == IF pa.tag = 0 THEN gpt.ents[n].tag ELSE pa.tag
           e == Entry(TRUE, SetStart(gpt.ents[n], pa, enlarge),
                      SetEnd(gpt.ents[n], pa, enlarge), t)
           ents == [gpt.ents EXCEPT ![n] = e]
<1>1. Editing /\ UNCHANGED_Device
    BY DEF Set
<1>2. gpt' = Sealed([gpt EXCEPT !.ents = ents])
    BY DEF Set
<1>3. Plain(ents)
    BY <1>1, ChangedPlain, EntryKind DEF Editing, IInv, LabelShape
<1> QED
    BY <1>1, <1>2, <1>3, EditStep

LEMMA OtherEdit ==
    ASSUME IInv, CInv, NEW n \in Slots, NEW t,
           ToggleFlag(n, t) \/ Delete(n) \/ Reorder
    PROVE  CInv'
<1>1. Editing /\ UNCHANGED_Device /\ LabelShape(gpt)
    BY DEF ToggleFlag, Delete, Reorder, Editing, IInv
<1>2. CASE ToggleFlag(n, t)
    <2> DEFINE ents == [gpt.ents EXCEPT ![n] = [gpt.ents[n] EXCEPT !.tag = t]]
    <2>1. gpt' = Sealed([gpt EXCEPT !.ents = ents])
        BY <1>2 DEF ToggleFlag
    <2>2. Plain(ents)
        BY <1>1 DEF LabelShape, Plain
    <2> QED
        BY <1>1, <2>1, <2>2, EditStep
<1>3. CASE Delete(n)
    <2> DEFINE ents == [gpt.ents EXCEPT ![n] = Zero]
    <2>1. gpt' = Sealed([gpt EXCEPT !.ents = ents])
        BY <1>3 DEF Delete
    <2>2. Plain(ents)
        BY <1>1, ChangedPlain, EntryKind DEF LabelShape
    <2> QED
        BY <1>1, <2>1, <2>2, EditStep
<1>4. CASE Reorder
    <2>1. PICK to \in [Slots -> Slots] :
             gpt' = Sealed([gpt EXCEPT !.ents =
                              [i \in Slots |-> gpt.ents[to[i]]]])
        BY <1>4 DEF Reorder
    <2> DEFINE ents == [i \in Slots |-> gpt.ents[to[i]]]
    <2>2. Plain(ents)
        BY <1>1 DEF LabelShape, Plain
    <2> QED
        BY <1>1, <2>1, <2>2, EditStep
<1> QED
    BY <1>2, <1>3, <1>4

LEMMA SetIdEdit ==
    ASSUME IInv, CInv, NEW g \in Guids, SetId(g)
    PROVE  CInv'
<1> DEFINE l == [gpt EXCEPT !.p.disk_guid = g, !.b.disk_guid = g]
<1>1. Editing /\ UNCHANGED_Device /\ LabelShape(gpt) /\ InPlaces(gpt, size)
    BY DEF SetId, Editing, IInv, CInv, InMemory, InPlaces
<1>2. /\ DOMAIN l = DOMAIN gpt
      /\ l.p = [gpt.p EXCEPT !.disk_guid = g]
      /\ l.b = [gpt.b EXCEPT !.disk_guid = g]
      /\ l.ents = gpt.ents
    BY <1>1 DEF LabelShape
<1>3. ASSUME NEW h, HeaderShape(h)
      PROVE  /\ HeaderShape([h EXCEPT !.disk_guid = g])
             /\ IsPrimary(h, size) => IsPrimary([h EXCEPT !.disk_guid = g], size)
             /\ IsBackup(h, size) => IsBackup([h EXCEPT !.disk_guid = g], size)
    BY <1>3 DEF HeaderShape, IsPrimary, IsBackup, RangeFits
<1>4. LabelShape(l) /\ InPlaces(l, size)
    BY <1>1, <1>2, <1>3 DEF LabelShape, InPlaces
<1>5. gpt' = Sealed(l)
    BY DEF SetId
<1> QED
    BY <1>1, <1>4, <1>5, SealedReady DEF Editing, UNCHANGED_Device

\* gpt_verify_disklabel renews checksums of headers that tell of the entries,
\* or of none.
LEMMA VerifyEdit ==
    ASSUME IInv, CInv, Verify
    PROVE  CInv'
<1>1. /\ Editing /\ UNCHANGED_Device /\ LabelShape(gpt) /\ InPlaces(gpt, size)
      /\ Ready
    BY DEF Verify, Editing, IInv, CInv, InMemory, InPlaces
<1>2. /\ gpt'.p = Rechecked(gpt.p, gpt.ents)
      /\ gpt'.b = Rechecked(gpt.b, gpt.ents)
      /\ gpt'.ents = gpt.ents
    BY DEF Verify, Label
<1>3. ASSUME NEW h, HeaderShape(h)
      PROVE  LET r == Rechecked(h, gpt.ents)
             IN  /\ IsPrimary(h, size) => IsPrimary(r, size)
                 /\ IsBackup(h, size) => IsBackup(r, size)
                 /\ r.disk_guid = h.disk_guid
                 /\ h.partition_entry_array_crc32 = gpt.ents =>
                       r.partition_entry_array_crc32 = gpt.ents
    BY <1>3, RecomputedSame, RecomputedShape DEF Rechecked
<1>4. InPlaces(gpt', size)
    BY <1>1, <1>2, <1>3 DEF InPlaces, LabelShape
<1>5. Edited' = Edited
    BY <1>1, <1>2, <1>3 DEF Edited, LabelShape
<1>6. Done(disk) => Done(disk)'
    BY <1>1, <1>5 DEF Done, UNCHANGED_Device
<1>7. Ready'
    BY <1>1, <1>2, <1>3, <1>6 DEF Ready, LabelShape
<1> QED
    BY <1>1, <1>4, <1>7, QuietStep DEF Editing, UNCHANGED_Device

LEMMA ChangeKeeps ==
    ASSUME Undisturbed, IInv, CInv, Change
    PROVE  CInv'
<1>1. Bad = {FALSE}
    BY DEF Undisturbed, Bad
<1>2. \/ \E g \in Guids : Create(g) \/ SetId(g)
      \/ \E n \in Slots, pa \in Partition : Add(n, pa, FALSE)
      \/ \E n \in Slots, t \in Tags :
            Set(n, [Unasked EXCEPT !.tag = t], FALSE, FALSE)
      \/ \E n \in Slots, pa \in Partition, enlarge \in BOOLEAN :
            Set(n, pa, enlarge, FALSE)
      \/ \E n \in Slots, t \in Tags : ToggleFlag(n, t)
      \/ \E n \in Slots : Delete(n)
      \/ Reorder \/ Verify
    BY <1>1, Zenon DEF Change
<1>3. CASE \E g \in Guids : Create(g) \/ SetId(g)
    BY <1>3, CreateStep, SetIdEdit
<1>4. CASE \E n \in Slots, pa \in Partition : Add(n, pa, FALSE)
    BY <1>4, AddEdit
<1>5. CASE \/ \E n \in Slots, t \in Tags :
                 Set(n, [Unasked EXCEPT !.tag = t], FALSE, FALSE)
           \/ \E n \in Slots, pa \in Partition, enlarge \in BOOLEAN :
                 Set(n, pa, enlarge, FALSE)
    BY <1>5, SetEdit, Zenon
<1>6. CASE \/ \E n \in Slots, t \in Tags : ToggleFlag(n, t)
           \/ \E n \in Slots : Delete(n)
           \/ Reorder
    <2>1. 0 \in Slots
        BY GptAssumption DEF Slots
    <2> QED
        BY <1>6, <2>1, OtherEdit
<1>7. CASE Verify
    BY <1>7, VerifyEdit
<1> QED
    BY <1>2, <1>3, <1>4, <1>5, <1>6, <1>7

(***************************************************************************)
(* In the middle of a write                                                *)
(***************************************************************************)
LEMMA WriteBeginKeeps ==
    ASSUME IInv, CInv, WriteBegin
    PROVE  CInv'
<1>1. /\ Editing /\ UNCHANGED <<size, disk>> /\ LabelShape(gpt)
      /\ InPlaces(gpt, size) /\ Ready /\ pc = "idle"
    BY DEF WriteBegin, Editing, IInv, CInv, InMemory, InPlaces
<1>2. CASE UNCHANGED <<gpt, pc>>
    BY <1>1, <1>2, NothingChanged
<1>3. CASE /\ gpt' = Sealed(gpt)
           /\ sure' = (/\ FdiskReads(disk, size, PRIMARY)
                       /\ gpt.p.disk_guid = gpt.b.disk_guid)
           /\ pc' = "backup entries"
    <2>1. /\ InPlaces(gpt', size) /\ LabelShape(gpt')
          /\ gpt'.ents = gpt.ents
          /\ gpt'.p.disk_guid = gpt.p.disk_guid
          /\ gpt'.b.disk_guid = gpt.b.disk_guid
          /\ Valid(gpt'.p, gpt.ents)
          /\ gpt.b.partition_entry_array_crc32 = gpt.ents =>
                Valid(gpt'.b, gpt.ents)
        BY <1>1, <1>3, SealedShape, SealedSame DEF Ready
    <2>2. Done(disk) => Done(disk)'
        BY <1>1, <2>1 DEF Done, Edited
    <2>3. sure' => Intact(disk, size, 1) /\ gpt.p.disk_guid = gpt.b.disk_guid
        BY <1>3 DEF FdiskReads, PRIMARY
    <2>4. sure' => Safe'
        BY <1>1, <1>3, <2>1, <2>2, <2>3 DEF Ready, Safe
    <2>5. Staged'
        BY <1>3 DEF Staged
    <2>6. InMemory'
        BY <1>1, <2>1 DEF InPlaces, InMemory
    <2> QED
        BY <1>1, <1>3, <2>1, <2>4, <2>5, <2>6 DEF CInv
<1> QED
    BY <1>2, <1>3 DEF WriteBegin

\* The end of a write leaves a label that tells of what is in memory.
LEMMA EndKeeps ==
    ASSUME IInv, CInv, pc # "idle", pc' = "idle", UNCHANGED size,
           UNCHANGED gpt \/ gpt' = NoLabel,
           NEW d, Reached(d), disk' = d
    PROVE  CInv'
<1>1. Midway
    BY InvMidway
<1>2. Layout(d, size)
    <2>1. CASE d = disk
        BY <1>1, <2>1 DEF Midway
    <2> QED
        BY <1>1, <2>1, AfterBackupEntries, AfterBackupHeader, AfterEntries,
           AfterHeader, AfterMbr
        DEF Reached
<1>3. gpt' = NoLabel => ~HasLabel'
    BY DEF HasLabel
<1>4. UNCHANGED gpt => InMemory' /\ Ready'
    BY <1>1 DEF Midway, InMemory, Ready, IInv, Writing
<1> QED
    BY <1>2, <1>3, <1>4 DEF CInv

LEMMA AllOfThem == NEntries \in 0..NEntries
BY GptAssumption

\* A part that is written completely takes the write to its next stage.
LEMMA GoesOn ==
    ASSUME IInv, CInv, UNCHANGED <<size, gpt, sure>>,
           \/ /\ pc = "backup entries" /\ pc' = "backup header"
              /\ disk' = WithEntries(gpt.b.partition_entry_lba, NEntries)
           \/ /\ pc = "backup header" /\ pc' = "entries"
              /\ disk' = [disk EXCEPT ![gpt.p.alternative_lba] = gpt.b]
           \/ /\ pc = "entries" /\ pc' = "header"
              /\ disk' = WithEntries(gpt.p.partition_entry_lba, NEntries)
           \/ /\ pc = "header" /\ pc' = "mbr"
              /\ disk' = [disk EXCEPT ![PRIMARY] = gpt.p]
    PROVE  CInv'
<1>1. Midway /\ Staged /\ (sure => Safe)
    BY InvMidway DEF CInv
<1>2. NEntries \in 0..NEntries
    BY AllOfThem
<1>3. Reached(disk')
    BY <1>2 DEF Reached
<1>4. InMemory' /\ Valid(gpt.p, gpt.ents)' /\ Edited' = Edited
    BY <1>1 DEF Midway, InMemory, Edited, Valid, Covered
<1>5. Done(disk) => Done(disk)'
    BY <1>1, <1>3, <1>4, DoneKept DEF Done
<1>6. /\ Room(size) /\ size <= MaxSize /\ DOMAIN disk = 0..(MaxSize - 1)
      /\ Layout(disk, size)
    BY <1>1 DEF Midway
<1>7. FrontSame(disk, disk') /\ Intact(disk, size, 1) =>
         Intact(disk', size, 1)
    BY <1>6, FrontKept
<1>8. CASE /\ pc = "backup entries" /\ pc' = "backup header"
           /\ disk' = WithEntries(gpt.b.partition_entry_lba, NEntries)
    <2>1. /\ Layout(disk', size) /\ FrontSame(disk, disk')
          /\ EntriesAt(disk', size - 1 - NEntries) = gpt.ents
        BY <1>1, <1>2, <1>8, AfterBackupEntries
    <2>2. Staged'
        BY <1>8, <2>1 DEF Staged
    <2>3. sure => Safe'
        BY <1>1, <1>5, <1>7, <1>8, <2>1 DEF Safe, Valid, Covered
    <2> QED
        BY <1>4, <1>6, <1>8, <2>1, <2>2, <2>3 DEF CInv
<1>9. CASE /\ pc = "backup header" /\ pc' = "entries"
           /\ disk' = [disk EXCEPT ![gpt.p.alternative_lba] = gpt.b]
    <2>1. /\ Layout(disk', size) /\ FrontSame(disk, disk')
          /\ disk'[size - 1] = gpt.b
          /\ EntriesAt(disk', size - 1 - NEntries) = gpt.ents
        BY <1>1, <1>9, AfterBackupHeader DEF Staged
    <2>2. Staged'
        BY <1>9 DEF Staged
    <2>3. Valid(gpt.b, gpt.ents) /\ gpt.b.disk_guid = gpt.p.disk_guid =>
             /\ Intact(disk', size, size - 1)
             /\ TableAt(disk', size - 1) = Edited
        BY <1>1, <2>1, BackupDone
    <2>4. sure => Safe'
        BY <1>1, <1>4, <1>5, <1>7, <1>9, <2>1, <2>3 DEF Safe, Valid, Covered
    <2> QED
        BY <1>4, <1>6, <1>9, <2>1, <2>2, <2>4 DEF CInv
<1>10. CASE /\ pc = "entries" /\ pc' = "header"
            /\ disk' = WithEntries(gpt.p.partition_entry_lba, NEntries)
    <2>1. /\ Layout(disk', size) /\ BackSame(disk, disk', size)
          /\ EntriesAt(disk', 2) = gpt.ents
        BY <1>1, <1>2, <1>10, AfterEntries
    <2>2. Staged'
        BY <1>10, <2>1 DEF Staged
    <2>3. Intact(disk, size, size - 1) =>
             /\ Intact(disk', size, size - 1)
             /\ TableAt(disk', size - 1) = TableAt(disk, size - 1)
        BY <1>6, <2>1, BackKept
    <2>4. sure => Safe'
        BY <1>1, <1>4, <1>5, <1>10, <2>3 DEF Safe, Valid, Covered
    <2> QED
        BY <1>4, <1>6, <1>10, <2>1, <2>2, <2>4 DEF CInv
<1>11. CASE /\ pc = "header" /\ pc' = "mbr"
            /\ disk' = [disk EXCEPT ![PRIMARY] = gpt.p]
    <2>1. /\ Layout(disk', size) /\ disk'[1] = gpt.p
          /\ EntriesAt(disk', 2) = gpt.ents
        BY <1>1, <1>11, AfterHeader DEF Staged
    <2>2. Done(disk')
        BY <1>1, <2>1, HeaderDone
    <2>3. Done(disk)'
        BY <1>4, <2>2 DEF Done
    <2>4. Staged' /\ Safe'
        BY <1>11, <2>3 DEF Staged, Safe
    <2> QED
        BY <1>4, <1>6, <1>11, <2>1, <2>4 DEF CInv
<1> QED
    BY <1>8, <1>9, <1>10, <1>11

(***************************************************************************)
(* The steps, seen from the device                                         *)
(***************************************************************************)
\* Between writes nothing changes the device, until a write begins.
LEMMA IdleNext ==
    ASSUME Undisturbed, IInv, CInv, pc = "idle", Next
    PROVE  /\ CInv'
           /\ UNCHANGED <<size, disk>>
           /\ \/ pc' = "idle" /\ UNCHANGED sure
              \/ pc' # "idle" /\ sure' \in BOOLEAN
<1>1. CASE Assign \/ Deassign
    <2>1. UNCHANGED <<size, disk, sure>> /\ pc' = "idle"
        BY <1>1 DEF Assign, Deassign
    <2> QED
        BY <1>1, <2>1, AssignStep
<1>2. CASE Change
    <2>1. UNCHANGED_Device
        BY <1>2 DEF Change, Create, SetId, Add, Set, ToggleFlag, Delete,
                    Reorder, Verify
    <2> QED
        BY <1>2, <2>1, ChangeKeeps DEF UNCHANGED_Device
<1>3. CASE Write
    <2>1. WriteBegin
        BY <1>3 DEF Write, WriteEntries, WriteHeader, WriteMbr
    <2>2. UNCHANGED <<size, disk>>
        BY <2>1 DEF WriteBegin
    <2>3. \/ pc' = "idle" /\ UNCHANGED sure
          \/ pc' # "idle" /\ sure' \in BOOLEAN
        BY <2>1 DEF WriteBegin
    <2> QED
        BY <2>1, <2>2, <2>3, WriteBeginKeeps
<1>4. CASE Kill
    <2>1. UNCHANGED <<size, disk, sure>> /\ pc' = "idle" /\ gpt' = NoLabel
        BY <1>4 DEF Kill, Gone
    <2> QED
        BY <2>1, QuietStep DEF HasLabel
<1>5. CASE PowerFailure \/ (\E n \in Sizes : Resize(n))
    BY <1>5 DEF Undisturbed, PowerFailure
<1>6. ASSUME NEW s \in DOMAIN disk, WriteBack(s)
      PROVE  CInv' /\ UNCHANGED <<size, disk, gpt, sure>> /\ pc' = "idle"
    BY <1>6, NothingChanged DEF WriteBack, memory
<1> QED
    BY <1>1, <1>2, <1>3, <1>4, <1>5, <1>6 DEF Next

\* In the middle of a write, the device reaches one of a few states.
LEMMA BusyNext ==
    ASSUME Undisturbed, IInv, CInv, pc # "idle", Next
    PROVE  /\ CInv'
           /\ UNCHANGED <<size, sure>>
           /\ Reached(disk')
           /\ pc' # "idle" => UNCHANGED gpt
<1>1. Midway /\ open /\ "short" \notin Faults /\ "power" \notin Faults
    BY InvMidway DEF IInv, Writing, Undisturbed
<1>2. ASSUME UNCHANGED <<size, sure, gpt>>, pc' = "idle", Reached(disk')
      PROVE  CInv'
    BY <1>2, EndKeeps
<1>3. CASE WriteEntries("backup entries", gpt.b.partition_entry_lba,
                        "backup header")
    <2>1. /\ UNCHANGED <<size, gpt, sure>> /\ pc = "backup entries"
          /\ \/ /\ pc' = "backup header"
                /\ disk' = WithEntries(gpt.b.partition_entry_lba, NEntries)
             \/ pc' = "idle" /\ disk' = disk
        BY <1>1, <1>3 DEF WriteEntries, Put, Abort, memory
    <2>2. Reached(disk')
        BY <2>1, AllOfThem DEF Reached
    <2> QED
        BY <1>2, <2>1, <2>2, GoesOn
<1>4. CASE WriteHeader("backup header", gpt.b, gpt.p.alternative_lba, "entries")
    <2>1. /\ UNCHANGED <<size, gpt, sure>> /\ pc = "backup header"
          /\ \/ /\ pc' = "entries"
                /\ disk' = [disk EXCEPT ![gpt.p.alternative_lba] = gpt.b]
             \/ pc' = "idle" /\ disk' = disk
        BY <1>4 DEF WriteHeader, Put, Abort, memory
    <2>2. Reached(disk')
        BY <2>1 DEF Reached
    <2> QED
        BY <1>2, <2>1, <2>2, GoesOn
<1>5. CASE WriteEntries("entries", gpt.p.partition_entry_lba, "header")
    <2>1. /\ UNCHANGED <<size, gpt, sure>> /\ pc = "entries"
          /\ \/ /\ pc' = "header"
                /\ disk' = WithEntries(gpt.p.partition_entry_lba, NEntries)
             \/ pc' = "idle" /\ disk' = disk
        BY <1>1, <1>5 DEF WriteEntries, Put, Abort, memory
    <2>2. Reached(disk')
        BY <2>1, AllOfThem DEF Reached
    <2> QED
        BY <1>2, <2>1, <2>2, GoesOn
<1>6. CASE WriteHeader("header", gpt.p, PRIMARY, "mbr")
    <2>1. /\ UNCHANGED <<size, gpt, sure>> /\ pc = "header"
          /\ \/ pc' = "mbr" /\ disk' = [disk EXCEPT ![PRIMARY] = gpt.p]
             \/ pc' = "idle" /\ disk' = disk
        BY <1>6 DEF WriteHeader, Put, Abort, memory
    <2>2. Reached(disk')
        BY <2>1 DEF Reached
    <2> QED
        BY <1>2, <2>1, <2>2, GoesOn
<1>7. CASE WriteMbr
    <2>1. /\ UNCHANGED <<size, gpt, sure>> /\ pc = "mbr" /\ pc' = "idle"
          /\ disk' = disk \/ disk' = [disk EXCEPT ![0] = Mbr("protective")]
        BY <1>7 DEF WriteMbr, Put, Abort
    <2>2. Reached(disk')
        BY <2>1 DEF Reached
    <2> QED
        BY <1>2, <2>1, <2>2
<1>8. CASE Kill
    <2>1. UNCHANGED <<size, sure>> /\ pc' = "idle" /\ gpt' = NoLabel
        BY <1>8 DEF Kill, Gone
    <2>2. \A k \in 1..NEntries : k \in 0..NEntries
        BY GptAssumption
    <2>3. Reached(disk')
        BY <1>8, <2>2 DEF Kill, Put, Reached
    <2> QED
        BY <2>1, <2>3, EndKeeps
<1>9. ASSUME NEW s \in DOMAIN disk, WriteBack(s)
      PROVE  CInv' /\ UNCHANGED <<size, sure, gpt>> /\ Reached(disk')
    <2>1. UNCHANGED <<size, disk, gpt, pc, sure>>
        BY <1>9 DEF WriteBack, memory
    <2>2. CInv'
        BY <2>1 DEF CInv, InMemory, Staged, Safe, Done, Edited, HasLabel
    <2> QED
        BY <2>1, <2>2 DEF Reached
<1>10. ~Assign /\ ~Deassign /\ ~Change /\ ~WriteBegin /\ ~PowerFailure
          /\ ~(\E n \in Sizes : Resize(n))
    BY <1>1 DEF Assign, Deassign, Change, Create, SetId, Add, Set, ToggleFlag,
                Delete, Reorder, Verify, Editing, WriteBegin, PowerFailure,
                Undisturbed
<1> QED
    BY <1>3, <1>4, <1>5, <1>6, <1>7, <1>8, <1>9, <1>10 DEF Next, Write

LEMMA NextCInv == Undisturbed /\ IInv /\ CInv /\ [Next]_vars => CInv'
<1> SUFFICES ASSUME Undisturbed, IInv, CInv, [Next]_vars PROVE CInv'
    OBVIOUS
<1>1. CASE Next
    BY <1>1, IdleNext, BusyNext
<1>2. CASE UNCHANGED vars
    <2>1. UNCHANGED <<size, disk, gpt, pc, sure>>
        BY <1>2 DEF vars
    <2> QED
        BY <2>1 DEF CInv, InMemory, Ready, Staged, Safe, Done, Edited, HasLabel
<1> QED
    BY <1>1, <1>2

\* In the middle of a write that started from a good primary copy, both
\* readers go on finding what they found, or find the new table.
LEMMA BusyFound ==
    ASSUME Undisturbed, IInv, CInv, pc # "idle", Next, sure
    PROVE  /\ FdiskTable(disk', size') \in {FdiskTable(disk, size), Edited}
           /\ BlkidTable(disk', size') \in {BlkidTable(disk, size), Edited}
<1>1. Midway /\ Staged /\ Safe
    BY InvMidway DEF CInv
<1>2. CInv' /\ size' = size /\ Reached(disk')
    BY BusyNext
<1>3. Layout(disk', size)
    BY <1>2 DEF CInv
<1>4. DOMAIN disk' = 0..(MaxSize - 1)
    BY NextInv DEF IInv, Known
<1>5. Room(size) /\ size <= MaxSize /\ DOMAIN disk = 0..(MaxSize - 1)
         /\ Layout(disk, size)
    BY <1>1 DEF Midway
<1>6. /\ Tab(disk', size) \in {Tab(disk, size), Edited}
      /\ \/ disk'[0] = disk[0]
         \/ disk'[0] = Mbr("protective") /\ Tab(disk', size) = Edited
    BY <1>1, <1>2, FoundOldOrNew
<1>7. /\ FdiskTable(disk, size) = IF FdiskMbr(disk[0]) THEN Tab(disk, size) ELSE NoTable
      /\ BlkidTable(disk, size) = IF BlkidMbr(disk[0]) THEN Tab(disk, size) ELSE NoTable
    BY <1>5, FoundTables
<1>8. /\ FdiskTable(disk', size) = IF FdiskMbr(disk'[0]) THEN Tab(disk', size) ELSE NoTable
      /\ BlkidTable(disk', size) = IF BlkidMbr(disk'[0]) THEN Tab(disk', size) ELSE NoTable
    BY <1>3, <1>4, <1>5, FoundTables
<1>9. FdiskMbr(Mbr("protective")) /\ BlkidMbr(Mbr("protective"))
    BY DEF FdiskMbr, BlkidMbr, Mbr
<1>10. CASE disk'[0] = disk[0]
    BY <1>2, <1>6, <1>7, <1>8, <1>10
<1>11. CASE disk'[0] = Mbr("protective") /\ Tab(disk', size) = Edited
    BY <1>2, <1>8, <1>9, <1>11
<1> QED
    BY <1>6, <1>10, <1>11

\* Seen by a reader whose table is `found`, a step of the editor is one of a
\* TableStore.
LEMMA StoreStep ==
    ASSUME Undisturbed, IInv, CInv, [Next]_vars
    PROVE  /\ [ForFdisk!Next]_ForFdisk!vars
           /\ [ForBlkid!Next]_ForBlkid!vars
<1>1. CASE UNCHANGED vars
    BY <1>1 DEF vars, ForFdisk!vars, ForBlkid!vars, UnderWay, Edited
<1>2. ASSUME Next, pc = "idle"
      PROVE  \/ ForFdisk!Begin /\ ForBlkid!Begin
             \/ UNCHANGED ForFdisk!vars /\ UNCHANGED ForBlkid!vars
    <2>1. UNCHANGED <<size, disk>>
        BY <1>2, IdleNext
    <2>2. /\ UNCHANGED <<FdiskTable(disk, size), BlkidTable(disk, size)>>
          /\ UnderWay = NoTable
        BY <1>2, <2>1 DEF UnderWay
    <2>3. CASE pc' = "idle" /\ UNCHANGED sure
        BY <2>2, <2>3 DEF UnderWay, ForFdisk!vars, ForBlkid!vars
    <2>4. CASE pc' # "idle" /\ sure' \in BOOLEAN
        <3>1. UnderWay' # NoTable
            BY <2>4 DEF UnderWay, Edited, Undisturbed
        <3> QED
            BY <2>2, <2>4, <3>1 DEF ForFdisk!Begin, ForBlkid!Begin
    <2> QED
        BY <1>2, <2>3, <2>4, IdleNext
<1>3. ASSUME Next, pc # "idle"
      PROVE  /\ [ForFdisk!Next]_ForFdisk!vars
             /\ [ForBlkid!Next]_ForBlkid!vars
    <2>1. UNCHANGED sure /\ (pc' # "idle" => UNCHANGED gpt)
        BY <1>3, BusyNext
    <2>2. UnderWay = Edited /\ UnderWay # NoTable
        BY <1>3 DEF UnderWay, Edited, Undisturbed
    <2>3. sure =>
             /\ FdiskTable(disk, size)' \in {FdiskTable(disk, size), UnderWay}
             /\ BlkidTable(disk, size)' \in {BlkidTable(disk, size), UnderWay}
        BY <1>3, <2>2, BusyFound
    <2>4. CASE pc' = "idle"
        <3>1. UnderWay' = NoTable
            BY <2>4 DEF UnderWay
        <3> QED
            BY <2>1, <2>2, <2>3, <3>1
            DEF ForFdisk!Next, ForFdisk!End, ForBlkid!Next, ForBlkid!End
    <2>5. CASE pc' # "idle"
        <3>1. UNCHANGED UnderWay
            BY <1>3, <2>1, <2>5 DEF UnderWay, Edited
        <3>2. CASE sure
            BY <2>1, <2>2, <2>3, <3>1, <3>2
            DEF ForFdisk!Next, ForFdisk!Switch, ForFdisk!vars,
                ForBlkid!Next, ForBlkid!Switch, ForBlkid!vars
        <3>3. CASE ~sure
            BY <2>1, <2>2, <3>1, <3>3
            DEF ForFdisk!Next, ForFdisk!Lose, ForBlkid!Next, ForBlkid!Lose
        <3> QED
            BY <3>2, <3>3
    <2> QED
        BY <2>4, <2>5
<1> QED
    BY <1>1, <1>2, <1>3 DEF ForFdisk!Next, ForBlkid!Next

LEMMA StoreInit ==
    ASSUME Init
    PROVE  ForFdisk!Init /\ ForBlkid!Init
BY DEF Init, UnderWay, ForFdisk!Init, ForBlkid!Init

(***************************************************************************)
(* A write that has returned 0                                             *)
(***************************************************************************)
WInv ==
    /\ pc # "idle" => call = Call("write", 0, "running")
    /\ open => mbr \in {disk[0], Mbr("protective")}
    /\ Written => /\ Done(disk)
                  /\ disk[0] \in {Mbr("protective"), Mbr("hybrid")}

LEMMA IdleWritten ==
    ASSUME Undisturbed, IInv, CInv, WInv, pc = "idle", Next
    PROVE  WInv'
<1>1. UNCHANGED <<size, disk>>
    BY IdleNext
<1>2. CASE Assign \/ Deassign \/ Kill
    <2>1. CASE Assign
        BY <1>1, <2>1 DEF Assign, Return, Call, WInv, Written
    <2>2. CASE Deassign
        <3>1. open /\ UNCHANGED <<disk, mbr, pc>>
            BY <2>2 DEF Deassign
        <3>2. \E rc : call' = Call("deassign", 0, rc)
            BY <2>2 DEF Deassign
        <3>3. ~Written'
            BY <3>2 DEF Written, Call
        <3> QED
            BY <3>1, <3>3 DEF WInv
    <2>3. CASE Kill
        BY <1>1, <2>3 DEF Kill, Gone, Call, WInv, Written
    <2> QED
        BY <1>2, <2>1, <2>2, <2>3
<1>3. CASE Change
    <2>1. /\ UNCHANGED <<open, pc>>
          /\ mbr' \in {mbr, Mbr("protective")}
        BY <1>3 DEF Change, Create, SetId, Add, Set, ToggleFlag, Delete,
                    Reorder, Verify, UNCHANGED_Device
    <2>2. \A name, slot, rc :
             Return(name, slot, rc) /\ name # "write" => call'.name # "write"
        BY DEF Return, Call
    <2>3. call'.name # "write"
        BY <1>3, <2>2 DEF Change, Create, SetId, Add, Set, ToggleFlag, Delete,
                          Reorder, Verify
    <2> QED
        BY <1>1, <2>1, <2>3 DEF WInv, Written, Call
<1>4. CASE Write
    <2>1. WriteBegin
        BY <1>4 DEF Write, WriteEntries, WriteHeader, WriteMbr
    <2>2. /\ UNCHANGED <<open, mbr>>
          /\ \/ call' = Call("write", 0, "running")
             \/ pc' = "idle" /\ call' = Call("write", 0, "refused")
        BY <2>1 DEF WriteBegin, Return
    <2> QED
        BY <1>1, <2>2 DEF WInv, Written, Call
<1>5. ASSUME NEW s \in DOMAIN disk, WriteBack(s)
      PROVE  WInv'
    BY <1>5 DEF WriteBack, memory, WInv, Written, Done, Edited
<1>6. ~PowerFailure /\ ~(\E n \in Sizes : Resize(n))
    BY DEF Undisturbed, PowerFailure
<1> QED
    BY <1>2, <1>3, <1>4, <1>5, <1>6 DEF Next

LEMMA BusyWritten ==
    ASSUME Undisturbed, IInv, CInv, WInv, pc # "idle", Next
    PROVE  WInv'
<1>1. Midway /\ open /\ "short" \notin Faults /\ "power" \notin Faults
    BY InvMidway DEF IInv, Writing, Undisturbed
<1>2. call = Call("write", 0, "running") /\ mbr \in {disk[0], Mbr("protective")}
    BY <1>1 DEF WInv
<1>3. \A d : FrontSame(disk, d) => d[0] = disk[0]
    BY GptAssumption DEF FrontSame
<1>4. ASSUME \/ UNCHANGED call
             \/ pc' = "idle" /\ call' = Call("write", 0, "failed"),
             UNCHANGED <<open, mbr>>, disk'[0] = disk[0]
      PROVE  WInv'
    BY <1>2, <1>4 DEF WInv, Written, Call
<1>5. CASE WriteEntries("backup entries", gpt.b.partition_entry_lba,
                        "backup header")
    <2>1. disk' = disk
             \/ disk' = WithEntries(gpt.b.partition_entry_lba, NEntries)
        BY <1>1, <1>5 DEF WriteEntries, Put
    <2>2. disk'[0] = disk[0]
        BY <1>1, <1>3, <2>1, AllOfThem, AfterBackupEntries
    <2>3. /\ \/ UNCHANGED call
             \/ pc' = "idle" /\ call' = Call("write", 0, "failed")
          /\ UNCHANGED <<open, mbr>>
        BY <1>1, <1>5 DEF WriteEntries, Abort, memory
    <2> QED
        BY <1>4, <2>2, <2>3
<1>6. CASE WriteHeader("backup header", gpt.b, gpt.p.alternative_lba, "entries")
    <2>1. disk' = disk \/ disk' = [disk EXCEPT ![gpt.p.alternative_lba] = gpt.b]
        BY <1>6 DEF WriteHeader, Put
    <2>2. disk'[0] = disk[0]
        BY <1>1, <1>3, <2>1, AfterBackupHeader
    <2>3. /\ \/ UNCHANGED call
             \/ pc' = "idle" /\ call' = Call("write", 0, "failed")
          /\ UNCHANGED <<open, mbr>>
        BY <1>1, <1>6 DEF WriteHeader, Abort, memory
    <2> QED
        BY <1>4, <2>2, <2>3
<1>7. CASE WriteEntries("entries", gpt.p.partition_entry_lba, "header")
    <2>1. disk' = disk
             \/ disk' = WithEntries(gpt.p.partition_entry_lba, NEntries)
        BY <1>1, <1>7 DEF WriteEntries, Put
    <2>2. disk'[0] = disk[0]
        BY <1>1, <2>1, AllOfThem, AfterEntries
    <2>3. /\ \/ UNCHANGED call
             \/ pc' = "idle" /\ call' = Call("write", 0, "failed")
          /\ UNCHANGED <<open, mbr>>
        BY <1>1, <1>7 DEF WriteEntries, Abort, memory
    <2> QED
        BY <1>4, <2>2, <2>3
<1>8. CASE WriteHeader("header", gpt.p, PRIMARY, "mbr")
    <2>1. disk' = disk \/ disk' = [disk EXCEPT ![PRIMARY] = gpt.p]
        BY <1>8 DEF WriteHeader, Put
    <2>2. disk'[0] = disk[0]
        BY <1>1, <2>1, AfterHeader
    <2>3. /\ \/ UNCHANGED call
             \/ pc' = "idle" /\ call' = Call("write", 0, "failed")
          /\ UNCHANGED <<open, mbr>>
        BY <1>1, <1>8 DEF WriteHeader, Abort, memory
    <2> QED
        BY <1>4, <2>2, <2>3
<1>9. CASE WriteMbr
    <2>1. pc = "mbr" /\ pc' = "idle" /\ UNCHANGED <<size, gpt>>
        BY <1>9 DEF WriteMbr, Abort
    <2>2. /\ Reached(disk')
          /\ mbr' \in {disk'[0], Mbr("protective")}
        BY <1>1, <1>2, <1>9, AfterMbr DEF WriteMbr, Put, Abort, Reached
    <2>3. Written' => disk'[0] \in {Mbr("protective"), Mbr("hybrid")}
        <3>1. ASSUME mbr = Mbr("hybrid") PROVE disk[0] = Mbr("hybrid")
            BY <1>2, <3>1 DEF Mbr
        <3>2. CASE /\ disk' = [disk EXCEPT ![0] = Mbr("protective")]
            BY <1>1, <3>2, AfterMbr
        <3>3. CASE mbr = Mbr("hybrid") /\ disk' = disk
            BY <3>1, <3>3
        <3>4. CASE call' = Call("write", 0, "failed")
            BY <3>4 DEF Written, Call
        <3> QED
            BY <1>9, <3>2, <3>3, <3>4 DEF WriteMbr, Put, Abort
    <2>4. Done(disk)
        BY <2>1 DEF CInv, Staged
    <2>5. Done(disk')
        BY <1>1, <2>2, <2>4, DoneKept
    <2>6. Done(disk)'
        BY <2>1, <2>5 DEF Done, Edited
    <2> QED
        BY <2>1, <2>2, <2>3, <2>6 DEF WInv
<1>10. CASE Kill
    <2>1. pc' = "idle" /\ ~open' /\ call'.name = "none"
        BY <1>10 DEF Kill, Gone, Call
    <2> QED
        BY <2>1 DEF WInv, Written, Call
<1>11. ASSUME NEW s \in DOMAIN disk, WriteBack(s)
       PROVE  WInv'
    BY <1>11 DEF WriteBack, memory, WInv, Written, Done, Edited
<1>12. ~Assign /\ ~Deassign /\ ~Change /\ ~WriteBegin /\ ~PowerFailure
          /\ ~(\E n \in Sizes : Resize(n))
    BY <1>1 DEF Assign, Deassign, Change, Create, SetId, Add, Set, ToggleFlag,
                Delete, Reorder, Verify, Editing, WriteBegin, PowerFailure,
                Undisturbed
<1> QED
    BY <1>5, <1>6, <1>7, <1>8, <1>9, <1>10, <1>11, <1>12 DEF Next, Write

LEMMA NextWInv == Undisturbed /\ IInv /\ CInv /\ WInv /\ [Next]_vars => WInv'
<1> SUFFICES ASSUME Undisturbed, IInv, CInv, WInv, [Next]_vars PROVE WInv'
    OBVIOUS
<1>1. CASE Next
    BY <1>1, IdleWritten, BusyWritten
<1>2. CASE UNCHANGED vars
    BY <1>2 DEF vars, WInv, Written, Done, Edited
<1> QED
    BY <1>1, <1>2

(***************************************************************************)
(* Both copies                                                             *)
(***************************************************************************)
\* Where both copies on a device are good, they are the same table.
TwoCopies(d, n) ==
    Intact(d, n, 1) /\ Intact(d, n, n - 1) => TableAt(d, 1) = TableAt(d, n - 1)

\* What is asked of the devices, besides Undisturbed: no earlier writer has
\* left two tables behind.
NotSplit == \A d \in Devices : TwoCopies(d.disk, d.size)

\* The headers in memory tell of one table.
Alike(l) ==
    /\ l.p.disk_guid = l.b.disk_guid
    /\ l.b.partition_entry_array_crc32 = l.ents

\* The backup is good, and is the table in memory.
BackDone(d) == Intact(d, size, size - 1) /\ TableAt(d, size - 1) = Edited

BothInv ==
    clean =>
        /\ pc = "idle" => TwoCopies(disk, size)
        /\ HasLabel \/ pc # "idle" => Alike(gpt)
        /\ pc # "idle" => Valid(gpt.b, gpt.ents)
        /\ pc \in {"entries", "header", "mbr"} \/ Written => BackDone(disk)

LEMMA BothInit == NotSplit /\ Init => BothInv
<1> SUFFICES ASSUME NotSplit, Init PROVE BothInv
    OBVIOUS
<1>1. TwoCopies(disk, size)
    BY DEF NotSplit, Init
<1>2. ~HasLabel /\ pc = "idle" /\ ~Written
    BY DEF Init, HasLabel, Written, Call
<1> QED
    BY <1>1, <1>2 DEF BothInv

\* Two good copies are the table in memory, or are no concern.
LEMMA SameTwice ==
    ASSUME NEW d, Done(d), BackDone(d)
    PROVE  TwoCopies(d, size)
BY DEF Done, BackDone, TwoCopies

LEMMA SealedAlike ==
    ASSUME NEW l, HeaderShape(l.p), HeaderShape(l.b), l.p.disk_guid = l.b.disk_guid
    PROVE  Alike(Sealed(l))
<1>1. /\ Sealed(l).p = Recomputed(l.p, l.ents)
      /\ Sealed(l).b = Recomputed(l.b, l.ents)
      /\ Sealed(l).ents = l.ents
    BY DEF Sealed, Label
<1>2. \A h, ents : HeaderShape(h) =>
         /\ Recomputed(h, ents).disk_guid = h.disk_guid
         /\ Recomputed(h, ents).partition_entry_array_crc32 = ents
    BY RecomputedSame, RecomputedShape
<1> QED
    BY <1>1, <1>2 DEF Alike

LEMMA EditAlike ==
    ASSUME LabelShape(gpt), Alike(gpt), NEW ents,
           gpt' = Sealed([gpt EXCEPT !.ents = ents])
    PROVE  Alike(gpt')
<1> DEFINE l == [gpt EXCEPT !.ents = ents]
<1>1. l.p = gpt.p /\ l.b = gpt.b
    OBVIOUS
<1> QED
    BY <1>1, SealedAlike DEF LabelShape, Alike

\* gpt_probe_label takes a backup that is not there from the primary copy, and
\* the other way round.
LEMMA ProbedAlike ==
    ASSUME IInv, CInv, TwoCopies(disk, size), Probed # NoLabel
    PROVE  Alike(Probed)
<1> DEFINE p == disk[PRIMARY]
           alt == IF FdiskReads(disk, size, PRIMARY)
                  THEN p.alternative_lba ELSE size - 1
           pOK == FdiskReads(disk, size, PRIMARY)
           bOK == FdiskReads(disk, size, alt)
           ents == TableAt(disk, IF pOK THEN PRIMARY ELSE alt).ents
           fromB == Recomputed(Copied(disk[alt], size), ents)
           fromP == Recomputed(Copied(p, size), ents)
<1>1. Probed = Label(IF pOK THEN p ELSE fromB, IF bOK THEN disk[alt] ELSE fromP,
                     ents)
    BY Zenon DEF Probed
<1>2. pOK \/ bOK
    BY Zenon DEF Probed
<1>3. /\ PRIMARY = 1 /\ size \in Nat \ {0} /\ size - 1 \in Nat /\ size - 1 # 1
      /\ 1 \in DOMAIN disk /\ size - 1 \in DOMAIN disk
      /\ Layout(disk, size)
    <2>1. Layout(disk, size) /\ Room(size)
        BY DEF CInv
    <2>2. DOMAIN disk = 0..(MaxSize - 1) /\ size \in 1..MaxSize
        BY DEF IInv, Known
    <2> QED
        BY <2>1, <2>2, GptAssumption, EditorAssumption DEF Room, PRIMARY
<1>4. ASSUME pOK
      PROVE  /\ HeaderShape(p) /\ p.alternative_lba = size - 1
             /\ Intact(disk, size, 1)
    BY <1>3, <1>4, ReadKnown DEF FdiskReads, Intact, Layout, IsPrimary, IInv
<1>5. alt = size - 1
    BY <1>4
<1>6. ASSUME bOK
      PROVE  /\ HeaderShape(disk[alt]) /\ Intact(disk, size, size - 1)
             /\ disk[alt].partition_entry_array_crc32 = TableAt(disk, alt).ents
    BY <1>3, <1>5, <1>6, ReadKnown DEF FdiskReads, Intact, TableAt, IInv
<1>7. ASSUME NEW h, HeaderShape(h)
      PROVE  /\ Recomputed(Copied(h, size), ents).disk_guid = h.disk_guid
             /\ Recomputed(Copied(h, size), ents).partition_entry_array_crc32
                   = ents
    <2>1. HeaderShape(Copied(h, size))
        BY <1>3, <1>7, BuiltShape
    <2>2. Copied(h, size).disk_guid = h.disk_guid
        BY DEF Copied, Header
    <2> QED
        BY <2>1, <2>2, RecomputedSame, RecomputedShape
<1> HIDE DEF fromB, fromP, ents
<1>8. CASE pOK /\ bOK
    <2>1. Probed.p = p /\ Probed.b = disk[alt] /\ Probed.ents = ents
        BY <1>1, <1>8 DEF Label
    <2>2. TableAt(disk, 1) = TableAt(disk, alt)
        BY <1>4, <1>5, <1>6, <1>8 DEF TwoCopies
    <2>3. p.disk_guid = disk[alt].disk_guid
        BY <1>3, <2>2 DEF TableAt
    <2>4. disk[alt].partition_entry_array_crc32 = ents
        BY <1>3, <1>6, <1>8, <2>2 DEF ents
    <2> QED
        BY <2>1, <2>3, <2>4 DEF Alike
<1>9. CASE pOK /\ ~bOK
    <2>1. Probed.p = p /\ Probed.b = fromP /\ Probed.ents = ents
        BY <1>1, <1>9 DEF Label
    <2> QED
        BY <1>4, <1>7, <1>9, <2>1 DEF Alike, fromP
<1>10. CASE ~pOK /\ bOK
    <2>1. Probed.p = fromB /\ Probed.b = disk[alt] /\ Probed.ents = ents
        BY <1>1, <1>10 DEF Label
    <2>2. disk[alt].partition_entry_array_crc32 = ents
        BY <1>6, <1>10 DEF ents
    <2> QED
        BY <1>6, <1>7, <1>10, <2>1, <2>2 DEF Alike, fromB
<1> QED
    BY <1>2, <1>8, <1>9, <1>10

LEMMA ChangeAlike ==
    ASSUME Undisturbed, IInv, CInv, Change, HasLabel => Alike(gpt)
    PROVE  Alike(gpt')
<1>1. Bad = {FALSE}
    BY DEF Undisturbed, Bad
<1>2. \/ \E g \in Guids : Create(g) \/ SetId(g)
      \/ \E n \in Slots, pa \in Partition : Add(n, pa, FALSE)
      \/ \E n \in Slots, t \in Tags :
            Set(n, [Unasked EXCEPT !.tag = t], FALSE, FALSE)
      \/ \E n \in Slots, pa \in Partition, enlarge \in BOOLEAN :
            Set(n, pa, enlarge, FALSE)
      \/ \E n \in Slots, t \in Tags : ToggleFlag(n, t)
      \/ \E n \in Slots : Delete(n)
      \/ Reorder \/ Verify
    BY <1>1, Zenon DEF Change
<1>3. Editing => LabelShape(gpt) /\ Alike(gpt)
    BY DEF Editing, IInv
<1>4. CASE \E g \in Guids : Create(g)
    <2>1. PICK g \in Guids : Create(g)
        BY <1>4
    <2> DEFINE p == NewPrimary(g, size)
               l == Label(p, NewBackup(p, size), [i \in Slots |-> Zero])
    <2>2. size \in Nat \ {0}
        BY EditorAssumption DEF IInv
    <2>3. /\ HeaderShape(p)
          /\ NewBackup(p, size).disk_guid = p.disk_guid
        BY <2>2, GptAssumption
        DEF HeaderShape, NewPrimary, NewBackup, Header, PRIMARY
    <2>4. HeaderShape(NewBackup(p, size))
        BY <2>2, <2>3, BuiltShape
    <2>5. Alike(Sealed(l))
        BY <2>3, <2>4, SealedAlike DEF Label
    <2> QED
        BY <2>1, <2>5 DEF Create
<1>5. CASE \E g \in Guids : SetId(g)
    <2>1. PICK g \in Guids : SetId(g)
        BY <1>5
    <2> DEFINE l == [gpt EXCEPT !.p.disk_guid = g, !.b.disk_guid = g]
    <2>2. LabelShape(gpt)
        BY <1>3, <2>1 DEF SetId
    <2>3. /\ l.p = [gpt.p EXCEPT !.disk_guid = g]
          /\ l.b = [gpt.b EXCEPT !.disk_guid = g]
        BY <2>2 DEF LabelShape
    <2>4. ASSUME NEW h, HeaderShape(h)
          PROVE  /\ HeaderShape([h EXCEPT !.disk_guid = g])
                 /\ [h EXCEPT !.disk_guid = g].disk_guid = g
        BY <2>4 DEF HeaderShape
    <2>5. /\ HeaderShape(l.p) /\ HeaderShape(l.b)
          /\ l.p.disk_guid = l.b.disk_guid
        <3> HIDE DEF l
        <3> QED
            BY <2>2, <2>3, <2>4 DEF LabelShape
    <2>6. Alike(Sealed(l))
        BY <2>5, SealedAlike
    <2> QED
        BY <2>1, <2>6 DEF SetId
<1>6. CASE \E n \in Slots, pa \in Partition : Add(n, pa, FALSE)
    <2>1. PICK n \in Slots, pa \in Partition : Add(n, pa, FALSE)
        BY <1>6
    <2>2. \/ UNCHANGED gpt
          \/ \E ents : gpt' = Sealed([gpt EXCEPT !.ents = ents])
        BY <2>1 DEF Add
    <2>3. Editing
        BY <2>1 DEF Add
    <2> QED
        BY <1>3, <2>2, <2>3, EditAlike
<1>7. CASE \/ \E n \in Slots, t \in Tags :
                 Set(n, [Unasked EXCEPT !.tag = t], FALSE, FALSE)
           \/ \E n \in Slots, pa \in Partition, enlarge \in BOOLEAN :
                 Set(n, pa, enlarge, FALSE)
    <2>1. \E n, pa, enlarge : Set(n, pa, enlarge, FALSE)
        BY <1>7, Zenon
    <2>2. PICK n, pa, enlarge : Set(n, pa, enlarge, FALSE)
        BY <2>1
    <2>3. \E e : gpt' = Sealed([gpt EXCEPT !.ents = [gpt.ents EXCEPT ![n] = e]])
        BY <2>2 DEF Set
    <2>4. Editing
        BY <2>2 DEF Set
    <2> QED
        BY <1>3, <2>3, <2>4, EditAlike
<1>8. CASE \/ \E n \in Slots, t \in Tags : ToggleFlag(n, t)
           \/ \E n \in Slots : Delete(n)
           \/ Reorder
    <2>1. \E ents : gpt' = Sealed([gpt EXCEPT !.ents = ents])
        BY <1>8 DEF ToggleFlag, Delete, Reorder
    <2>2. Editing
        BY <1>8 DEF ToggleFlag, Delete, Reorder
    <2> QED
        BY <1>3, <2>1, <2>2, EditAlike
<1>9. CASE Verify
    <2>1. LabelShape(gpt) /\ Alike(gpt)
        BY <1>3, <1>9 DEF Verify
    <2>2. /\ gpt'.p = Rechecked(gpt.p, gpt.ents)
          /\ gpt'.b = Rechecked(gpt.b, gpt.ents)
          /\ gpt'.ents = gpt.ents
        BY <1>9 DEF Verify, Label
    <2>3. ASSUME NEW h, HeaderShape(h)
          PROVE  /\ Rechecked(h, gpt.ents).disk_guid = h.disk_guid
                 /\ h.partition_entry_array_crc32 = gpt.ents =>
                       Rechecked(h, gpt.ents).partition_entry_array_crc32
                          = gpt.ents
        BY <2>3, RecomputedSame, RecomputedShape DEF Rechecked
    <2> QED
        BY <2>1, <2>2, <2>3 DEF Alike, LabelShape
<1> QED
    BY <1>2, <1>4, <1>5, <1>6, <1>7, <1>8, <1>9

\* A call between writes says nothing of a write that returned 0.
LEMMA QuietBoth ==
    ASSUME BothInv, pc = "idle", pc' = "idle",
           UNCHANGED <<size, disk>>, clean' => clean, ~Written',
           clean /\ HasLabel' => Alike(gpt')
    PROVE  BothInv'
BY DEF BothInv, TwoCopies

LEMMA IdleBoth ==
    ASSUME Undisturbed, IInv, CInv, BothInv, pc = "idle", Next
    PROVE  BothInv'
<1>1. UNCHANGED <<size, disk>>
    BY IdleNext
<1>2. CASE Assign
    <2>1. /\ pc' = "idle" /\ UNCHANGED clean /\ gpt' = Probed
          /\ call' = Call("assign", 0, "ok")
        BY <1>2 DEF Assign, Return
    <2>2. ~Written'
        BY <2>1 DEF Written, Call
    <2>3. clean /\ HasLabel' => Alike(gpt')
        BY <2>1, ProbedAlike DEF BothInv, HasLabel
    <2> QED
        BY <1>1, <2>1, <2>2, <2>3, QuietBoth
<1>3. CASE Deassign
    <2>1. pc' = "idle" /\ UNCHANGED <<clean, gpt>>
        BY <1>3 DEF Deassign
    <2>2. \E rc : call' = Call("deassign", 0, rc)
        BY <1>3 DEF Deassign
    <2>3. ~Written'
        BY <2>2 DEF Written, Call
    <2>4. clean /\ HasLabel' => Alike(gpt')
        BY <2>1 DEF BothInv, HasLabel
    <2> QED
        BY <1>1, <2>1, <2>3, <2>4, QuietBoth
<1>4. CASE Change
    <2>1. UNCHANGED <<pc, clean>>
        BY <1>4 DEF Change, Create, SetId, Add, Set, ToggleFlag, Delete,
                    Reorder, Verify, UNCHANGED_Device
    <2>2. \A name, slot, rc :
             Return(name, slot, rc) /\ name # "write" => call'.name # "write"
        BY DEF Return, Call
    <2>3. call'.name # "write"
        BY <1>4, <2>2 DEF Change, Create, SetId, Add, Set, ToggleFlag, Delete,
                          Reorder, Verify
    <2>4. ~Written'
        BY <2>3 DEF Written, Call
    <2>5. clean => Alike(gpt')
        BY <1>4, ChangeAlike DEF BothInv
    <2> QED
        BY <1>1, <2>1, <2>4, <2>5, QuietBoth
<1>5. CASE Write
    <2>1. WriteBegin
        BY <1>5 DEF Write, WriteEntries, WriteHeader, WriteMbr
    <2>2. UNCHANGED clean /\ LabelShape(gpt) /\ HasLabel
        BY <2>1 DEF WriteBegin, Editing, IInv
    <2>3. \/ call' = Call("write", 0, "refused")
          \/ call' = Call("write", 0, "running")
        BY <2>1 DEF WriteBegin, Return
    <2>4. ~Written'
        BY <2>3 DEF Written, Call
    <2>5. CASE UNCHANGED <<gpt, pc>>
        <3>1. clean => Alike(gpt')
            BY <2>2, <2>5 DEF BothInv
        <3> QED
            BY <1>1, <2>2, <2>4, <2>5, <3>1, QuietBoth
    <2>6. CASE gpt' = Sealed(gpt) /\ pc' = "backup entries"
        <3>1. clean => /\ Alike(gpt')
                       /\ Valid(gpt.b, gpt.ents)'
            BY <2>2, <2>6, SealedAlike, SealedSame, SealedShape
            DEF BothInv, Alike, LabelShape
        <3> QED
            BY <2>2, <2>4, <2>6, <3>1 DEF BothInv
    <2> QED
        BY <2>1, <2>5, <2>6 DEF WriteBegin
<1>6. CASE Kill
    <2>1. /\ pc' = "idle" /\ gpt' = NoLabel /\ (clean' => clean)
          /\ call' = Call("none", 0, "ok")
        BY <1>6 DEF Kill, Gone
    <2>2. ~Written' /\ ~HasLabel'
        BY <2>1 DEF Written, Call, HasLabel
    <2> QED
        BY <1>1, <2>1, <2>2, QuietBoth
<1>7. ASSUME NEW s \in DOMAIN disk, WriteBack(s)
      PROVE  BothInv'
    BY <1>7 DEF WriteBack, memory, BothInv, TwoCopies, Written, HasLabel,
                BackDone, Edited
<1>8. ~PowerFailure /\ ~(\E n \in Sizes : Resize(n))
    BY DEF Undisturbed, PowerFailure
<1> QED
    BY <1>2, <1>3, <1>4, <1>5, <1>6, <1>7, <1>8 DEF Next

\* A write that fails or is killed is of no more concern.
LEMMA BusyBoth ==
    ASSUME Undisturbed, IInv, CInv, WInv, BothInv, pc # "idle", Next
    PROVE  BothInv'
<1>1. Midway /\ open /\ Staged /\ "short" \notin Faults /\ "power" \notin Faults
    BY InvMidway DEF IInv, CInv, Writing, Undisturbed
<1>2. /\ Room(size) /\ size <= MaxSize /\ DOMAIN disk = 0..(MaxSize - 1)
      /\ Layout(disk, size)
    BY <1>1 DEF Midway
<1>3. ~Written
    BY DEF WInv, Written, Call
<1>4. ASSUME ~clean' PROVE BothInv'
    BY <1>4 DEF BothInv
<1>5. ASSUME UNCHANGED <<size, gpt, call, clean>>, pc' # "idle",
             clean /\ pc' \in {"entries", "header", "mbr"} => BackDone(disk')
      PROVE  BothInv'
    <2>1. clean => Alike(gpt) /\ Valid(gpt.b, gpt.ents)
        BY DEF BothInv
    <2>2. clean' => /\ Alike(gpt') /\ Valid(gpt'.b, gpt'.ents)
        BY <1>5, <2>1
    <2>3. BackDone(disk') => BackDone(disk)'
        BY <1>5 DEF BackDone, Edited
    <2>4. ~Written'
        BY <1>3, <1>5 DEF Written
    <2> QED
        BY <1>5, <2>2, <2>3, <2>4 DEF BothInv
<1>6. ASSUME BackSame(disk, disk', size), BackDone(disk) PROVE BackDone(disk')
    BY <1>2, <1>6, BackKept DEF BackDone
<1>7. CASE WriteEntries("backup entries", gpt.b.partition_entry_lba,
                        "backup header")
    <2>1. \/ /\ UNCHANGED <<size, gpt, call, clean>>
             /\ pc' = "backup header"
          \/ ~clean'
        BY <1>1, <1>7 DEF WriteEntries, Abort, memory
    <2> QED
        BY <1>4, <1>5, <2>1
<1>8. CASE WriteHeader("backup header", gpt.b, gpt.p.alternative_lba, "entries")
    <2>1. \/ /\ UNCHANGED <<size, gpt, call, clean>>
             /\ pc = "backup header" /\ pc' = "entries"
             /\ disk' = [disk EXCEPT ![gpt.p.alternative_lba] = gpt.b]
          \/ ~clean'
        BY <1>8 DEF WriteHeader, Put, Abort, memory
    <2>2. CASE ~clean'
        BY <1>4, <2>2
    <2>3. CASE /\ UNCHANGED <<size, gpt, call, clean>>
               /\ pc = "backup header" /\ pc' = "entries"
               /\ disk' = [disk EXCEPT ![gpt.p.alternative_lba] = gpt.b]
        <3>1. /\ disk'[size - 1] = gpt.b
              /\ EntriesAt(disk', size - 1 - NEntries) = gpt.ents
            BY <1>1, <2>3, AfterBackupHeader DEF Staged
        <3>2. clean => /\ Valid(gpt.b, gpt.ents)
                       /\ gpt.b.disk_guid = gpt.p.disk_guid
            BY DEF BothInv, Alike
        <3>3. clean => BackDone(disk')
            BY <1>1, <3>1, <3>2, BackupDone DEF BackDone
        <3> QED
            BY <1>5, <2>3, <3>3
    <2> QED
        BY <2>1, <2>2, <2>3
<1>9. CASE WriteEntries("entries", gpt.p.partition_entry_lba, "header")
    <2>1. \/ /\ UNCHANGED <<size, gpt, call, clean>>
             /\ pc = "entries" /\ pc' = "header"
             /\ disk' = WithEntries(gpt.p.partition_entry_lba, NEntries)
          \/ ~clean'
        BY <1>1, <1>9 DEF WriteEntries, Put, Abort, memory
    <2>2. CASE ~clean'
        BY <1>4, <2>2
    <2>3. CASE /\ UNCHANGED <<size, gpt, call, clean>>
               /\ pc = "entries" /\ pc' = "header"
               /\ disk' = WithEntries(gpt.p.partition_entry_lba, NEntries)
        <3>1. BackSame(disk, disk', size)
            BY <1>1, <2>3, AllOfThem, AfterEntries
        <3>2. clean => BackDone(disk')
            BY <1>6, <2>3, <3>1 DEF BothInv
        <3> QED
            BY <1>5, <2>3, <3>2
    <2> QED
        BY <2>1, <2>2, <2>3
<1>10. CASE WriteHeader("header", gpt.p, PRIMARY, "mbr")
    <2>1. \/ /\ UNCHANGED <<size, gpt, call, clean>>
             /\ pc = "header" /\ pc' = "mbr"
             /\ disk' = [disk EXCEPT ![PRIMARY] = gpt.p]
          \/ ~clean'
        BY <1>10 DEF WriteHeader, Put, Abort, memory
    <2>2. CASE ~clean'
        BY <1>4, <2>2
    <2>3. CASE /\ UNCHANGED <<size, gpt, call, clean>>
               /\ pc = "header" /\ pc' = "mbr"
               /\ disk' = [disk EXCEPT ![PRIMARY] = gpt.p]
        <3>1. BackSame(disk, disk', size)
            BY <1>1, <2>3, AfterHeader
        <3>2. clean => BackDone(disk')
            BY <1>6, <2>3, <3>1 DEF BothInv
        <3> QED
            BY <1>5, <2>3, <3>2
    <2> QED
        BY <2>1, <2>2, <2>3
<1>11. CASE WriteMbr
    <2>1. \/ /\ UNCHANGED <<size, gpt, clean>> /\ pc = "mbr" /\ pc' = "idle"
             /\ disk' = disk \/ disk' = [disk EXCEPT ![0] = Mbr("protective")]
          \/ ~clean'
        BY <1>11 DEF WriteMbr, Put, Abort
    <2>2. CASE ~clean'
        BY <1>4, <2>2
    <2>3. CASE /\ UNCHANGED <<size, gpt, clean>> /\ pc = "mbr" /\ pc' = "idle"
               /\ disk' = disk \/ disk' = [disk EXCEPT ![0] = Mbr("protective")]
        <3>1. /\ NEntries \in Nat \ {0} /\ size \in Nat
              /\ size >= 2 * NEntries + 4
            BY <1>2, GptAssumption DEF Room
        <3>2. \A s \in (size - 1 - NEntries)..(size - 1) :
                 s # 0 /\ s \in DOMAIN disk
            BY <1>2, <3>1, EditorAssumption
        <3>3. BackSame(disk, disk', size)
            BY <2>3, <3>2 DEF BackSame
        <3>4. Done(disk')
            BY <1>1, <2>3, DoneKept DEF Staged, Reached
        <3>5. clean => BackDone(disk') /\ Alike(gpt)
            BY <1>6, <2>3, <3>3 DEF BothInv
        <3>6. clean => TwoCopies(disk', size)
            BY <3>4, <3>5, SameTwice
        <3>7. BackDone(disk') => BackDone(disk)'
            BY <2>3 DEF BackDone, Edited
        <3> QED
            BY <2>3, <3>5, <3>6, <3>7 DEF BothInv
    <2> QED
        BY <2>1, <2>2, <2>3
<1>12. CASE Kill
    BY <1>4, <1>12 DEF Kill
<1>13. ASSUME NEW s \in DOMAIN disk, WriteBack(s)
       PROVE  BothInv'
    BY <1>13 DEF WriteBack, memory, BothInv, TwoCopies, Written, HasLabel,
                 BackDone, Edited
<1>14. ~Assign /\ ~Deassign /\ ~Change /\ ~WriteBegin /\ ~PowerFailure
          /\ ~(\E n \in Sizes : Resize(n))
    BY <1>1 DEF Assign, Deassign, Change, Create, SetId, Add, Set, ToggleFlag,
                Delete, Reorder, Verify, Editing, WriteBegin, PowerFailure,
                Undisturbed
<1> QED
    BY <1>7, <1>8, <1>9, <1>10, <1>11, <1>12, <1>13, <1>14 DEF Next, Write

-----------------------------------------------------------------------------
\* Whenever the process that writes is killed or a write of it fails, libfdisk
\* finds the old table or the new one, provided the write started from a good
\* primary copy: gpt_write_disklabel renews the backup first.
THEOREM FdiskFindsOldOrNew ==
    ASSUME Undisturbed
    PROVE  Spec => KeepsTableForFdisk
<1>1. Undisturbed /\ Init => CInv
    BY CInvInit
<1>2. IInv /\ CInv /\ [Next]_vars => CInv'
    BY NextCInv
<1>3. IInv /\ CInv /\ [Next]_vars => [ForFdisk!Next]_ForFdisk!vars
    BY StoreStep
<1>4. Init => ForFdisk!Init /\ CInv
    BY <1>1, StoreInit
<1> QED
    BY <1>2, <1>3, <1>4, SpecInv, PTL
    DEF Spec, KeepsTableForFdisk, ForFdisk!Spec

\* And so does libblkid, which reads the same sectors with other checks
\* (probe_gpt_pt).
THEOREM BlkidFindsOldOrNew ==
    ASSUME Undisturbed
    PROVE  Spec => KeepsTableForBlkid
<1>1. Undisturbed /\ Init => CInv
    BY CInvInit
<1>2. IInv /\ CInv /\ [Next]_vars => CInv'
    BY NextCInv
<1>3. IInv /\ CInv /\ [Next]_vars => [ForBlkid!Next]_ForBlkid!vars
    BY StoreStep
<1>4. Init => ForBlkid!Init /\ CInv
    BY <1>1, StoreInit
<1> QED
    BY <1>2, <1>3, <1>4, SpecInv, PTL
    DEF Spec, KeepsTableForBlkid, ForBlkid!Spec

\* Once gpt_write_disklabel has returned 0 both readers find what it wrote,
\* and do until the table in memory is changed, released or written again.
THEOREM WrittenIsFound ==
    ASSUME Undisturbed
    PROVE  Spec => []WrittenTableReads
<1>1. Undisturbed /\ Init => CInv /\ WInv
    BY CInvInit DEF Init, WInv, Written, Call
<1>2. IInv /\ CInv /\ [Next]_vars => CInv'
    BY NextCInv
<1>3. IInv /\ CInv /\ WInv /\ [Next]_vars => WInv'
    BY NextWInv
<1>4. ASSUME IInv, CInv, WInv PROVE WrittenTableReads
    <2> SUFFICES ASSUME Written
                 PROVE  /\ FdiskTable(disk, size) = Edited
                        /\ BlkidTable(disk, size) = Edited
        BY DEF WrittenTableReads
    <2>1. Room(size) /\ Layout(disk, size)
        BY <1>4 DEF CInv
    <2>2. size <= MaxSize /\ DOMAIN disk = 0..(MaxSize - 1)
        BY <1>4, EditorAssumption DEF IInv, Known
    <2>3. Tab(disk, size) = Edited
        BY <1>4 DEF WInv, Done, Tab
    <2>4. FdiskMbr(disk[0]) /\ BlkidMbr(disk[0])
        BY <1>4 DEF WInv, FdiskMbr, BlkidMbr, Mbr
    <2> QED
        BY <2>1, <2>2, <2>3, <2>4, FoundTables
<1> QED
    BY <1>1, <1>2, <1>3, <1>4, SpecInv, PTL DEF Spec

\* A write that returned 0 has left the table twice, and either copy alone is
\* enough for either reader, also where gpt_probe_label had to make a copy up;
\* unless a write failed or was cut off, which may leave two tables.
THEOREM CopiesAlwaysAgree ==
    ASSUME Undisturbed, NotSplit
    PROVE  Spec => []CopiesAgree
<1>1. Undisturbed /\ NotSplit /\ Init => CInv /\ WInv /\ BothInv
    BY CInvInit, BothInit DEF Init, WInv, Written, Call
<1>2. IInv /\ CInv /\ [Next]_vars => CInv'
    BY NextCInv
<1>3. IInv /\ CInv /\ WInv /\ [Next]_vars => WInv'
    BY NextWInv
<1>4. IInv /\ CInv /\ WInv /\ BothInv /\ [Next]_vars => BothInv'
    <2>1. CASE Next
        BY <2>1, IdleBoth, BusyBoth
    <2>2. CASE UNCHANGED vars
        BY <2>2 DEF vars, BothInv, TwoCopies, Written, HasLabel, BackDone, Edited
    <2> QED
        BY <2>1, <2>2
<1>5. ASSUME IInv, CInv, WInv, BothInv PROVE CopiesAgree
    <2> SUFFICES ASSUME Written, clean, NEW lba \in {PRIMARY, size - 1}
                 PROVE  /\ FdiskReads(disk, size, lba)
                        /\ BlkidReads(disk, size, lba)
                        /\ TableAt(disk, lba) = Edited
        BY DEF CopiesAgree
    <2>1. /\ Room(size) /\ Layout(disk, size)
          /\ size <= MaxSize /\ DOMAIN disk = 0..(MaxSize - 1)
        <3>1. Room(size) /\ Layout(disk, size)
            BY <1>5 DEF CInv
        <3>2. size <= MaxSize /\ DOMAIN disk = 0..(MaxSize - 1)
            BY <1>5, EditorAssumption DEF IInv, Known
        <3> QED
            BY <3>1, <3>2
    <2>2. Done(disk) /\ BackDone(disk)
        BY <1>5 DEF WInv, BothInv
    <2>3. lba \in {1, size - 1}
        BY DEF PRIMARY
    <2>4. Intact(disk, size, lba) /\ TableAt(disk, lba) = Edited
        BY <2>2, <2>3 DEF Done, BackDone
    <2> QED
        BY <2>1, <2>3, <2>4, ReadersAgree
<1> QED
    BY <1>1, <1>2, <1>3, <1>4, <1>5, SpecInv, PTL DEF Spec
=============================================================================
