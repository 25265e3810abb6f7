-------------------------------- MODULE Gpt --------------------------------
(***************************************************************************)
(* GUID partition tables on a device, as libfdisk's gpt.c writes and reads *)
(* them and libblkid's partitions/gpt.c reads them: a protective MBR, two  *)
(* headers, each with an array of entries, and the checksums over them;    *)
(* and the search for free space that gpt_add_partition does.              *)
(*                                                                         *)
(* The unit is a sector, and one entry of the table fills one.  A checksum *)
(* is what it is computed over: two contents never share one.              *)
(***************************************************************************)
EXTENDS Integers, FiniteSetsExt

CONSTANTS
    NEntries,   \* npartition_entries, GPT_NPARTITIONS
    Guids,      \* GUIDs of disks
    Tags,       \* what tells entries at one place apart: GUIDs, name, bits
    Grain,      \* cxt->grain, in sectors
    FirstLba,   \* cxt->first_lba of a device without a table, from its topology
    NoTable,    \* what a reader has that finds no valid table
    NoSum       \* a checksum nobody has computed

ASSUME GptAssumption ==
    /\ NEntries \in Nat \ {0}
    /\ Grain \in Nat \ {0}
    /\ FirstLba \in Nat
    /\ 0 \notin Tags

Slots == 0..(NEntries - 1)

PRIMARY == 1    \* GPT_PRIMARY_PARTITION_TABLE_LBA

-----------------------------------------------------------------------------
(* What a sector can hold. *)

\* A sector of zeros is an unused entry.
Entry(used, start, end, tag) ==
    [kind |-> "entry", used |-> used, start |-> start, end |-> end, tag |-> tag]

Zero == Entry(FALSE, 0, 0, 0)

\* A record of type 0xEE is there alone ("protective"), next to others
\* ("hybrid"), or while the first record does not start at LBA 1 ("shifted").
Mbr(type) == [kind |-> "mbr", type |-> type]

\* struct gpt_header
Header(guid, my, alt, first, last, entlba, entsum, sum) ==
    [kind |-> "header", disk_guid |-> guid, my_lba |-> my,
     alternative_lba |-> alt, first_usable_lba |-> first,
     last_usable_lba |-> last, partition_entry_lba |-> entlba,
     partition_entry_array_crc32 |-> entsum, crc32 |-> sum]

-----------------------------------------------------------------------------
(* Checksums. *)

\* What the header's checksum is computed over.
Covered(h) ==
    <<h.disk_guid, h.my_lba, h.alternative_lba, h.first_usable_lba,
      h.last_usable_lba, h.partition_entry_lba, h.partition_entry_array_crc32>>

\* gpt_recompute_crc: the header's own checksum comes first, over the old
\* checksum of the entries.
Recomputed(h, ents) ==
    [h EXCEPT !.crc32 = Covered(h), !.partition_entry_array_crc32 = ents]

\* gpt_check_header_crc with entries: a header that does not match is given
\* new checksums and another chance.
Rechecked(h, ents) == IF h.crc32 = Covered(h) THEN h ELSE Recomputed(h, ents)

-----------------------------------------------------------------------------
(* Building headers for a device of `size` sectors. *)

\* gpt_mknew_header_common and gpt_copy_header
BackupEntries(size) == size - 1 - NEntries

\* Bug: the MBR is forgotten.
FirstUsable_early == NEntries + 1

\* count_first_last_lba: the first and the last sector that are free of the
\* copies, and the first one that is made usable.
FirstUsable == NEntries + 2
LastUsable(size) == size - 2 - NEntries
FirstMade(size) ==
    IF FirstUsable < FirstLba /\ FirstLba < LastUsable(size)
    THEN FirstLba ELSE FirstUsable

\* gpt_mknew_header, for the primary header, and gpt_mknew_header_from_bkp
NewPrimary(guid, size) ==
    Header(guid, PRIMARY, size - 1, FirstMade(size), LastUsable(size), 2,
           NoSum, NoSum)

NewBackup(p, size) ==
    Header(p.disk_guid, size - 1, PRIMARY, p.first_usable_lba,
           p.last_usable_lba, BackupEntries(size), NoSum, NoSum)

\* gpt_copy_header
Copied(h, size) ==
    Header(h.disk_guid, h.alternative_lba, h.my_lba, h.first_usable_lba,
           h.last_usable_lba,
           IF h.alternative_lba = PRIMARY THEN 2 ELSE BackupEntries(size),
           NoSum, NoSum)

-----------------------------------------------------------------------------
(* Readers of a device d[lba] of `size` sectors. *)

\* gpt_read_entries
EntriesAt(d, lba) == [i \in Slots |-> d[lba + i]]

\* Bug: the checksum of the entries is not looked at.
Intact_header_only(d, size, lba) ==
    /\ lba < size
    /\ d[lba].kind = "header"
    /\ d[lba].crc32 = Covered(d[lba])
    /\ d[lba].partition_entry_lba + NEntries <= size
    /\ d[lba].my_lba = lba
    /\ d[lba].first_usable_lba <= d[lba].last_usable_lba
    /\ d[lba].last_usable_lba <= size - 1

\* What both readers ask of a header and its entries.
Intact(d, size, lba) ==
    /\ lba < size
    /\ d[lba].kind = "header"
    /\ d[lba].crc32 = Covered(d[lba])
    /\ d[lba].partition_entry_lba + NEntries <= size
    /\ EntriesAt(d, d[lba].partition_entry_lba)
          = d[lba].partition_entry_array_crc32
    /\ d[lba].my_lba = lba
    /\ d[lba].first_usable_lba <= d[lba].last_usable_lba
    /\ d[lba].last_usable_lba <= size - 1

\* gpt_read_header with gpt_check_lba_sanity, get_gpt_header: the header is
\* not between the first and the last usable sector; libfdisk always looks
\* at LBA 1, also for the backup.
FdiskReads(d, size, lba) ==
    /\ Intact(d, size, lba)
    /\ ~(d[lba].first_usable_lba < PRIMARY /\ PRIMARY < d[lba].last_usable_lba)

BlkidReads(d, size, lba) ==
    /\ Intact(d, size, lba)
    /\ ~(d[lba].first_usable_lba < lba /\ lba < d[lba].last_usable_lba)

\* valid_pmbr and is_pmbr_valid
FdiskMbr(sector) == sector.kind = "mbr" /\ sector.type \in {"protective", "hybrid"}
BlkidMbr(sector) == sector.kind = "mbr"

TableAt(d, lba) ==
    [guid |-> d[lba].disk_guid, ents |-> EntriesAt(d, d[lba].partition_entry_lba)]

\* gpt_probe_label, without what it keeps for an editor
FdiskTable(d, size) ==
    IF ~FdiskMbr(d[0]) THEN NoTable
    ELSE IF FdiskReads(d, size, PRIMARY) THEN TableAt(d, PRIMARY)
    ELSE IF FdiskReads(d, size, size - 1) THEN TableAt(d, size - 1)
    ELSE NoTable

\* probe_gpt_pt, before it leaves out what does not fit
BlkidTable(d, size) ==
    IF ~BlkidMbr(d[0]) THEN NoTable
    ELSE IF BlkidReads(d, size, PRIMARY) THEN TableAt(d, PRIMARY)
    ELSE IF BlkidReads(d, size, size - 1) THEN TableAt(d, size - 1)
    ELSE NoTable

-----------------------------------------------------------------------------
(* Partitions and the space between them. *)

Used(ents) == {i \in Slots : ents[i].used}

\* The sectors of an entry.
Sectors(e) == IF e.used THEN e.start..e.end ELSE {}

\* partition_overlap: an entry that starts at 0 overlaps none.
Overlap(e, f) ==
    /\ e.start # 0 /\ f.start # 0
    /\ (e.start <= f.end) # (e.end < f.start)

\* check_overlap_partitions
Overlapping(ents) ==
    \E i, j \in Used(ents) : j < i /\ Overlap(ents[i], ents[j])

\* find_first_available: walking over the partitions again and again until
\* the sector is in none finds the first such sector.
FirstAvailable(h, ents, start) ==
    LET free == {s \in h.first_usable_lba..h.last_usable_lba :
                    s >= start /\ \A i \in Slots : s \notin Sectors(ents[i])}
    IN IF free = {} THEN 0 ELSE Min(free)

\* Bug: what begins right behind the start is passed over.
LastFree_behind(h, ents, start) ==
    LET nearest[i \in 0..NEntries] ==
            IF i = 0 THEN h.last_usable_lba
            ELSE LET ps == ents[i - 1].start
                 IN IF start + 1 < ps /\ ps < nearest[i - 1] THEN ps - 1
                    ELSE nearest[i - 1]
    IN nearest[NEntries]

\* find_last_free: one pass over the entries, in their order.
LastFree(h, ents, start) ==
    LET nearest[i \in 0..NEntries] ==
            IF i = 0 THEN h.last_usable_lba
            ELSE LET ps == ents[i - 1].start
                 IN IF start < ps /\ ps < nearest[i - 1] THEN ps - 1
                    ELSE nearest[i - 1]
    IN nearest[NEntries]

\* find_first_in_largest: of the gaps, the first of the largest.
FirstInLargest(h, ents) ==
    LET best[s \in Nat] ==
            LET first == FirstAvailable(h, ents, s)
                last  == LastFree(h, ents, first)
                rest  == best[last + 1]
            IN IF first = 0 THEN [size |-> 0, first |-> 0]
               ELSE IF last - first + 1 >= rest.size
                    THEN [size |-> last - first + 1, first |-> first]
                    ELSE rest
    IN best[0].first

\* fdisk_align_lba, where no alignment offset is set.  `least` is first_lba,
\* which follows the table (gpt_reset_alignment).
Align(lba, up, least) ==
    IF lba % Grain = 0 THEN lba
    ELSE IF lba < least THEN least
    ELSE ((lba + up) \div Grain) * Grain

\* fdisk_align_lba_in_range: the start is aligned up, the end down.  Nothing
\* lies between them if no sector of the range is aligned.
AlignInRange(lba, start, stop, least) ==
    LET lo == Align(start, Grain, least)
        hi == Align(stop, 0, least)
        at == Align(lba, Grain \div 2, least)
    IN IF at < lo THEN lo ELSE IF at > hi THEN hi ELSE at
=============================================================================
