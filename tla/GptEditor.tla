----------------------------- MODULE GptEditor -----------------------------
(***************************************************************************)
(* A program that edits the GPT of a device through libfdisk (context.c,   *)
(* label.c, gpt.c): it assigns the device, changes the table in memory,    *)
(* writes it part by part, and releases the device, any number of times.   *)
(* Writes can fail or be cut short, the program can be killed in the       *)
(* middle of one, and the power can fail with writes still in the cache.   *)
(* Between two sessions the device can be resized.                         *)
(*                                                                         *)
(* Templates of partitions are complete: the dialogs of libfdisk do not    *)
(* take part.  Partitions are changed that are in use.                     *)
(***************************************************************************)
EXTENDS Gpt

CONSTANTS
    MaxSize,      \* sectors of the largest device
    Devices,      \* what the device holds at first: [size, disk]
    Sizes,        \* the sizes to which the device is resized
    Starts,       \* the sectors that a caller asks for as a start
    Lengths,      \* and as a length
    Explicit,     \* fdisk_partition_size_explicit() is used
    SetsPosition, \* fdisk_set_partition() is also used to move and resize
    BadCalls,     \* strings are handed in that do not parse
    Faults,       \* subset of {"kill", "error", "short", "power"}
    MaxCalls      \* bounds the calls that change something

ASSUME EditorAssumption ==
    /\ MaxSize \in Nat /\ MaxCalls \in Nat
    /\ Faults \subseteq {"kill", "error", "short", "power"}
    /\ Starts \subseteq Nat /\ Lengths \subseteq Nat
    /\ Sizes \subseteq 1..MaxSize
    /\ {Explicit, SetsPosition, BadCalls} \subseteq BOOLEAN

VARIABLES
    size,    \* sectors of the device
    disk,    \* disk[lba]: what a read of the device returns
    media,   \* media[lba]: what is there after a power failure
    open,    \* the device is assigned to the context
    mbr,     \* cxt->firstsector
    gpt,     \* struct fdisk_gpt_label: headers p and b, entries, or NoLabel
    pc,      \* the next step of gpt_write_disklabel, "idle" outside it
    sure,    \* history: the write started from a good primary copy
    begun,   \* history: the arrays of entries that some header has told of
    call,    \* the last call: its name, the slot, and its outcome
    clean,   \* history: no write has failed or been cut off so far
    calls    \* calls made

vars == <<size, disk, media, open, mbr, gpt, pc, sure, begun, call, clean,
          calls>>

memory == <<open, mbr, gpt>>

NoLabel == [ents |-> NoTable, p |-> NoTable, b |-> NoTable]

Label(p, b, ents) == [p |-> p, b |-> b, ents |-> ents]

HasLabel == gpt # NoLabel

\* The table in memory.
Edited == [guid |-> gpt.p.disk_guid, ents |-> gpt.ents]

\* Both headers with new checksums.
Sealed(l) == Label(Recomputed(l.p, l.ents), Recomputed(l.b, l.ents), l.ents)

\* struct fdisk_partition.  Anything left to the default is Default; `length`
\* counts sectors, `tag` stands for name, GUID and attributes.
Default == -1
Unasked == [start |-> Default, length |-> Default, tag |-> 0]

Call(name, slot, rc) == [name |-> name, slot |-> slot, rc |-> rc]

Return(name, slot, rc) ==
    /\ call' = Call(name, slot, rc)
    /\ calls' = calls + 1

\* A call that changes nothing but the table in memory.
Editing == open /\ HasLabel /\ pc = "idle" /\ calls < MaxCalls

UNCHANGED_Device ==
    UNCHANGED <<size, disk, media, open, pc, sure, begun, clean>>

-----------------------------------------------------------------------------
(* Sessions. *)

\* gpt_probe_label.  The backup is looked for where the primary header says,
\* or else in the last sector; a missing copy is made from the other.
Probed ==
    LET p    == disk[PRIMARY]
        alt  == IF FdiskReads(disk, size, PRIMARY)
                THEN p.alternative_lba ELSE size - 1
        pOK  == FdiskReads(disk, size, PRIMARY)
        bOK  == FdiskReads(disk, size, alt)
        ents == TableAt(disk, IF pOK THEN PRIMARY ELSE alt).ents
    IN IF ~FdiskMbr(disk[0]) \/ ~(pOK \/ bOK) THEN NoLabel
       ELSE Label(IF pOK THEN p
                  ELSE Recomputed(Copied(disk[alt], size), ents),
                  IF bOK THEN disk[alt]
                  ELSE Recomputed(Copied(p, size), ents),
                  ents)

\* fdisk_assign_device, which first resets the context, with
\* fdisk_probe_labels.
Assign ==
    /\ pc = "idle"
    /\ calls < MaxCalls
    /\ open' = TRUE
    /\ mbr' = disk[0]
    /\ gpt' = Probed
    /\ Return("assign", 0, "ok")
    /\ UNCHANGED <<size, disk, media, pc, sure, begun, clean>>

\* fdisk_deassign_device: fsync and close.  The label stays in memory, and an
\* fsync that fails leaves the device open.
Deassign ==
    /\ open /\ pc = "idle"
    /\ \/ /\ media' = disk
          /\ open' = FALSE
          /\ call' = Call("deassign", 0, "ok")
       \/ /\ "error" \in Faults
          /\ call' = Call("deassign", 0, "failed")
          /\ UNCHANGED <<media, open>>
    /\ UNCHANGED <<size, disk, mbr, gpt, pc, sure, begun, clean, calls>>

-----------------------------------------------------------------------------
(* Changes in memory. *)

\* Bug: the checksums are never computed.
Create_no_crc(g) ==
    /\ open /\ pc = "idle" /\ calls < MaxCalls
    /\ mbr' = Mbr("protective")
    /\ LET p == NewPrimary(g, size)
       IN gpt' = Label(p, NewBackup(p, size), [i \in Slots |-> Zero])
    /\ Return("create", 0, "ok")
    /\ UNCHANGED_Device

\* fdisk_create_disklabel with gpt_create_disklabel
Create(g) ==
    /\ open /\ pc = "idle" /\ calls < MaxCalls
    /\ mbr' = Mbr("protective")
    /\ LET p == NewPrimary(g, size)
       IN gpt' = Sealed(Label(p, NewBackup(p, size), [i \in Slots |-> Zero]))
    /\ Return("create", 0, "ok")
    /\ UNCHANGED_Device

\* gpt_add_partition: the sectors of a new partition from its template.  A
\* start that is asked for has to be free; the aligned one is not looked at.
AddedStart(pa) ==
    LET first == FirstInLargest(gpt.p, gpt.ents)
    IN IF pa.start # Default THEN pa.start
       ELSE AlignInRange(first, first, LastFree(gpt.p, gpt.ents, first),
                         gpt.p.first_usable_lba)

AddedEnd(pa, start) ==
    LET last == LastFree(gpt.p, gpt.ents, start)
        end  == start + pa.length - 1
    IN IF pa.length = Default THEN last
       ELSE IF end = last \/ Explicit THEN end
       ELSE AlignInRange(end, start, last, gpt.p.first_usable_lba) - 1

Addable(n, pa) ==
    /\ ~gpt.ents[n].used
    /\ FirstAvailable(gpt.p, gpt.ents, 0) # 0
    /\ pa.start \in {Default, FirstAvailable(gpt.p, gpt.ents, pa.start)}

\* An end below 0 is the largest number there is: an assertion ends the
\* process (as Kill does).  A GUID that does not parse is noticed after the
\* sectors and the type are in the entry, and before the checksums are renewed.
Add(n, pa, bad) ==
    /\ Editing
    /\ LET start == AddedStart(pa)
           end   == AddedEnd(pa, start)
           ents  == [gpt.ents EXCEPT ![n] =
                        Entry(TRUE, start, end, IF bad THEN @.tag ELSE pa.tag)]
           fits  == Addable(n, pa) /\ start <= end
       IN /\ Addable(n, pa) => end >= 0
          /\ \/ /\ ~fits
                /\ Return("add", n, "refused")
                /\ UNCHANGED gpt
             \/ /\ fits /\ bad
                /\ gpt' = [gpt EXCEPT !.ents = ents]
                /\ Return("add", n, "failed")
             \/ /\ fits /\ ~bad
                /\ gpt' = Sealed([gpt EXCEPT !.ents = ents])
                /\ Return("add", n, "ok")
    /\ UNCHANGED mbr
    /\ UNCHANGED_Device

\* gpt_set_partition.  A type or attributes that do not parse are noticed
\* after the GUID and the name are in the entry.  The new end is counted from
\* the old start; and a partition that is to be enlarged looks for the end of
\* the free space after the largest number there is, unless it is given a
\* start as well.
SetEnd(e, pa, enlarge) ==
    IF enlarge
    THEN IF pa.start # Default
         THEN LastFree(gpt.b, gpt.ents, e.start)
         ELSE LastFree(gpt.b, gpt.ents, MaxSize)
    ELSE IF pa.length # Default THEN e.start + pa.length - 1 ELSE e.end

SetStart(e, pa, enlarge) ==
    IF pa.start # Default /\ ~enlarge THEN pa.start ELSE e.start

Set(n, pa, enlarge, bad) ==
    /\ Editing
    /\ n \in Used(gpt.ents)
    /\ LET e == gpt.ents[n]
           t == IF pa.tag = 0 THEN e.tag ELSE pa.tag
       IN IF bad
          THEN /\ gpt' = [gpt EXCEPT !.ents[n].tag = t]
               /\ Return("set", n, "failed")
          ELSE /\ gpt' = Sealed([gpt EXCEPT !.ents[n] =
                            Entry(TRUE, SetStart(e, pa, enlarge),
                                  SetEnd(e, pa, enlarge), t)])
               /\ Return("set", n, "ok")
    /\ UNCHANGED mbr
    /\ UNCHANGED_Device

\* gpt_toggle_partition_flag
ToggleFlag(n, t) ==
    /\ Editing
    /\ n \in Used(gpt.ents)
    /\ gpt' = Sealed([gpt EXCEPT !.ents[n].tag = t])
    /\ Return("toggle", n, "ok")
    /\ UNCHANGED mbr
    /\ UNCHANGED_Device

\* Bug: the checksums are left to gpt_write_disklabel.
Delete_no_crc(n) ==
    /\ Editing
    /\ n \in Used(gpt.ents)
    /\ gpt' = [gpt EXCEPT !.ents[n] = Zero]
    /\ Return("delete", n, "ok")
    /\ UNCHANGED mbr
    /\ UNCHANGED_Device

\* gpt_delete_partition
Delete(n) ==
    /\ Editing
    /\ n \in Used(gpt.ents)
    /\ gpt' = Sealed([gpt EXCEPT !.ents[n] = Zero])
    /\ Return("delete", n, "ok")
    /\ UNCHANGED mbr
    /\ UNCHANGED_Device

\* Bug: the backup header is forgotten.
SetId_primary(g) ==
    /\ Editing
    /\ gpt' = Sealed([gpt EXCEPT !.p.disk_guid = g])
    /\ Return("set_id", 0, "ok")
    /\ UNCHANGED mbr
    /\ UNCHANGED_Device

\* gpt_set_disklabel_id
SetId(g) ==
    /\ Editing
    /\ gpt' = Sealed([gpt EXCEPT !.p.disk_guid = g, !.b.disk_guid = g])
    /\ Return("set_id", 0, "ok")
    /\ UNCHANGED mbr
    /\ UNCHANGED_Device

\* gpt_reorder: the used entries first, in the order of their starts.
Sorted(ents) ==
    \A i, j \in Slots : i < j /\ ents[j].used =>
        ents[i].used /\ ents[i].start <= ents[j].start

Reorder ==
    /\ Editing
    /\ \E to \in [Slots -> Slots] :
         LET ents == [i \in Slots |-> gpt.ents[to[i]]]
         IN /\ \A i, j \in Slots : to[i] = to[j] => i = j
            /\ Sorted(ents)
            /\ gpt' = Sealed([gpt EXCEPT !.ents = ents])
    /\ Return("reorder", 0, "ok")
    /\ UNCHANGED mbr
    /\ UNCHANGED_Device

\* gpt_verify_disklabel, of which only the checksums change anything.
Verify ==
    /\ Editing
    /\ gpt' = Label(Rechecked(gpt.p, gpt.ents), Rechecked(gpt.b, gpt.ents),
                    gpt.ents)
    /\ Return("verify", 0, "ok")
    /\ UNCHANGED mbr
    /\ UNCHANGED_Device

-----------------------------------------------------------------------------
(* gpt_write_disklabel *)

\* The device holds d now.  No step of a write waits for the medium.
Put(d) ==
    /\ disk' = d
    /\ media' = IF "power" \in Faults THEN media ELSE d

\* The first k sectors of the entries, at lba.
WithEntries(lba, k) ==
    [s \in DOMAIN disk |->
        IF s \in lba..(lba + k - 1) THEN gpt.ents[s - lba] ELSE disk[s]]

Abort ==
    /\ pc' = "idle"
    /\ call' = Call("write", 0, "failed")
    /\ clean' = FALSE

WriteBegin ==
    /\ Editing
    /\ IF \/ gpt.p.alternative_lba > size
          \/ gpt.p.alternative_lba < size - 1
          \/ Overlapping(gpt.ents)
       THEN /\ Return("write", 0, "refused")
            /\ UNCHANGED <<gpt, pc, sure, begun>>
       ELSE /\ gpt' = Sealed(gpt)
            /\ begun' = begun \cup {gpt.ents}
            /\ sure' = (/\ FdiskReads(disk, size, PRIMARY)
                        /\ gpt.p.disk_guid = gpt.b.disk_guid)
            /\ pc' = "backup entries"
            /\ Return("write", 0, "running")
    /\ UNCHANGED <<size, disk, media, open, mbr, clean>>

\* gpt_write_partitions.  A short write returns -errno, which is 0 when no
\* call has failed before.
WriteEntries(here, lba, there) ==
    /\ pc = here
    /\ \/ /\ Put(WithEntries(lba, NEntries))
          /\ pc' = there
          /\ UNCHANGED <<call, clean>>
       \/ /\ "error" \in Faults
          /\ Abort
          /\ UNCHANGED <<disk, media>>
       \/ /\ "short" \in Faults
          /\ \E k \in 1..(NEntries - 1) : Put(WithEntries(lba, k))
          /\ Abort \/ (pc' = there /\ clean' = FALSE /\ UNCHANGED call)
    /\ UNCHANGED <<size, memory, sure, begun, calls>>

\* gpt_write_header.  Nothing can be written behind a block device; an image file,
\* which the write would make longer, is not modelled.
WriteHeader(here, h, lba, there) ==
    /\ pc = here
    /\ \/ /\ lba < size
          /\ Put([disk EXCEPT ![lba] = h])
          /\ pc' = there
          /\ UNCHANGED <<call, clean>>
       \/ /\ "error" \in Faults \/ lba >= size
          /\ Abort
          /\ UNCHANGED <<disk, media>>
    /\ UNCHANGED <<size, memory, sure, begun, calls>>

\* gpt_write_pmbr, not for a hybrid MBR.
WriteMbr ==
    /\ pc = "mbr"
    /\ \/ /\ IF mbr = Mbr("hybrid")
             THEN UNCHANGED <<disk, media, mbr>>
             ELSE /\ mbr' = Mbr("protective")
                  /\ Put([disk EXCEPT ![0] = mbr'])
          /\ pc' = "idle"
          /\ call' = Call("write", 0, "ok")
          /\ UNCHANGED clean
       \/ /\ "error" \in Faults
          /\ mbr # Mbr("hybrid")
          /\ mbr' = Mbr("protective")
          /\ Abort
          /\ UNCHANGED <<disk, media>>
    /\ UNCHANGED <<size, open, gpt, sure, begun, calls>>

\* Bug: both arrays come before the headers.
Write_entries_first ==
    \/ WriteBegin
    \/ WriteEntries("backup entries", gpt.b.partition_entry_lba, "entries")
    \/ WriteEntries("entries", gpt.p.partition_entry_lba, "backup header")
    \/ WriteHeader("backup header", gpt.b, gpt.p.alternative_lba, "header")
    \/ WriteHeader("header", gpt.p, PRIMARY, "mbr")
    \/ WriteMbr

\* Bug: the copy that is being replaced first is the primary one.
Write_primary_first ==
    \/ WriteBegin
    \/ WriteEntries("backup entries", gpt.p.partition_entry_lba, "backup header")
    \/ WriteHeader("backup header", gpt.p, PRIMARY, "entries")
    \/ WriteEntries("entries", gpt.b.partition_entry_lba, "header")
    \/ WriteHeader("header", gpt.b, gpt.p.alternative_lba, "mbr")
    \/ WriteMbr

Write ==
    \/ WriteBegin
    \/ WriteEntries("backup entries", gpt.b.partition_entry_lba, "backup header")
    \/ WriteHeader("backup header", gpt.b, gpt.p.alternative_lba, "entries")
    \/ WriteEntries("entries", gpt.p.partition_entry_lba, "header")
    \/ WriteHeader("header", gpt.p, PRIMARY, "mbr")
    \/ WriteMbr

-----------------------------------------------------------------------------
(* What happens to the program and the device. *)

Gone ==
    /\ open' = FALSE
    /\ mbr' = Zero
    /\ gpt' = NoLabel
    /\ pc' = "idle"
    /\ call' = Call("none", 0, "ok")
    /\ UNCHANGED <<size, sure, begun, calls>>

\* A fatal signal may end write(2) part of the way.
Kill ==
    /\ "kill" \in Faults
    /\ open
    /\ Gone
    /\ clean' = (clean /\ pc = "idle")
    /\ \/ UNCHANGED <<disk, media>>
       \/ /\ pc = "backup entries"
          /\ \E k \in 1..NEntries :
                Put(WithEntries(gpt.b.partition_entry_lba, k))
       \/ /\ pc = "entries"
          /\ \E k \in 1..NEntries :
                Put(WithEntries(gpt.p.partition_entry_lba, k))

\* The cache writes back what it likes, and when it likes.
WriteBack(s) ==
    /\ media[s] # disk[s]
    /\ media' = [media EXCEPT ![s] = disk[s]]
    /\ UNCHANGED <<size, disk, memory, pc, sure, begun, call, clean, calls>>

PowerFailure ==
    /\ "power" \in Faults
    /\ disk' = media
    /\ UNCHANGED media
    /\ clean' = FALSE
    /\ Gone

\* An image or a volume is resized while nobody has it open.
Resize(n) ==
    /\ ~open /\ n # size
    /\ calls < MaxCalls
    /\ size' = n
    /\ disk' = [s \in DOMAIN disk |-> IF s < n THEN disk[s] ELSE Zero]
    /\ media' = disk'
    /\ calls' = calls + 1
    /\ UNCHANGED <<memory, pc, sure, begun, call, clean>>

-----------------------------------------------------------------------------

Partition == [start : Starts \cup {Default}, length : Lengths \cup {Default},
              tag : Tags]

Bad == {FALSE} \cup {BadCalls}

Change ==
    \/ \E g \in Guids : Create(g) \/ SetId(g)
    \/ \E n \in Slots, pa \in Partition, bad \in Bad : Add(n, pa, bad)
    \/ \E n \in Slots, t \in Tags, bad \in Bad :
          Set(n, [Unasked EXCEPT !.tag = t], FALSE, bad)
    \/ \E n \in Slots, pa \in Partition, enlarge \in BOOLEAN :
          SetsPosition /\ Set(n, pa, enlarge, FALSE)
    \/ \E n \in Slots, t \in Tags : ToggleFlag(n, t)
    \/ \E n \in Slots : Delete(n)
    \/ Reorder
    \/ Verify

Init ==
    /\ \E d \in Devices :
         /\ size = d.size
         /\ disk = d.disk
         /\ media = d.disk
    /\ open = FALSE
    /\ mbr = Zero
    /\ gpt = NoLabel
    /\ pc = "idle"
    /\ sure = FALSE
    /\ begun = {disk[s].partition_entry_array_crc32 : s \in
                   {t \in DOMAIN disk : disk[t].kind = "header"}}
    /\ call = Call("none", 0, "ok")
    /\ clean = TRUE
    /\ calls = 0

Next ==
    \/ Assign
    \/ Deassign
    \/ Change
    \/ Write
    \/ Kill
    \/ \E s \in DOMAIN disk : WriteBack(s)
    \/ PowerFailure
    \/ \E n \in Sizes : Resize(n)

Spec == Init /\ [][Next]_vars

-----------------------------------------------------------------------------
(* Properties. *)

Entries ==
    [kind : {"entry"}, used : BOOLEAN, start : Nat, end : Int,
     tag : Tags \cup {0}]

IsTable(ents) == ents \in [Slots -> Entries]

IsHeader(h) ==
    /\ h = Header(h.disk_guid, h.my_lba, h.alternative_lba, h.first_usable_lba,
                  h.last_usable_lba, h.partition_entry_lba,
                  h.partition_entry_array_crc32, h.crc32)
    /\ h.disk_guid \in Guids
    /\ {h.my_lba, h.alternative_lba, h.first_usable_lba, h.last_usable_lba,
        h.partition_entry_lba} \subseteq Nat
    /\ IsTable(h.partition_entry_array_crc32)

IsSector(s) ==
    \/ s \in Entries
    \/ s.kind = "mbr" /\ s.type \in {"protective", "hybrid", "shifted"}
    \/ s.kind = "header" /\ IsHeader(s)

ASSUME DeviceAssumption ==
    \A d \in Devices :
        /\ d.size \in 1..MaxSize
        /\ DOMAIN d.disk = 0..(MaxSize - 1)
        /\ \A s \in DOMAIN d.disk : IsSector(d.disk[s])

\* Every sector holds an entry, a header or an MBR, and the label in memory
\* is complete or not there at all (struct fdisk_gpt_label).
TypeOK ==
    /\ size \in 1..MaxSize
    /\ DOMAIN disk = 0..(MaxSize - 1) /\ DOMAIN media = DOMAIN disk
    /\ \A s \in DOMAIN disk : IsSector(disk[s]) /\ IsSector(media[s])
    /\ {open, sure, clean} \subseteq BOOLEAN
    /\ \A ents \in begun : IsTable(ents)
    /\ IsSector(mbr)
    /\ HasLabel => IsHeader(gpt.p) /\ IsHeader(gpt.b) /\ IsTable(gpt.ents)
    /\ pc \in {"idle", "backup entries", "backup header", "entries", "header", "mbr"}
    /\ pc # "idle" => open /\ HasLabel
    /\ calls \in 0..MaxCalls

Written == call = Call("write", 0, "ok")

\* After fdisk_write_disklabel has returned 0 both readers find on the device
\* the table that was in memory ("Writes in-memory GPT and pMBR data to
\* disk", gpt.c:1698).
WrittenTableReads ==
    Written => /\ FdiskTable(disk, size) = Edited
               /\ BlkidTable(disk, size) = Edited

\* Whatever befalls the writer and the device, nobody ever takes for a table
\* what is partly one array of entries and partly another: what is found was
\* written as a whole (gpt_check_entryarr_crc, gpt.c:790, and get_gpt_header).
NoMixture ==
    \A t \in {FdiskTable(disk, size), BlkidTable(disk, size)} :
        t # NoTable => t.ents \in begun

\* And it is there twice: each copy alone is good and tells the same, also
\* when one of them was bad before (the recovery in gpt_probe_label), if no
\* writer has left two tables behind.
CopiesAgree ==
    Written /\ clean =>
        \A lba \in {PRIMARY, size - 1} :
            /\ FdiskReads(disk, size, lba) /\ BlkidReads(disk, size, lba)
            /\ TableAt(disk, lba) = Edited

\* The sectors that the header leaves to partitions.
Usable == gpt.p.first_usable_lba..gpt.p.last_usable_lba

\* Writing the table changes no sector of a partition in it that lies in the
\* usable sectors (gpt_write_disklabel and the places that the headers name).
\* Nothing keeps the others: gpt_set_partition (gpt.c:1559), the explicit size of
\* gpt_add_partition (gpt.c:2053) and gpt_write_disklabel itself (gpt.c:1715)
\* compare no position with the usable range.
DataKept ==
    [][pc # "idle" =>
        \A s \in DOMAIN disk : disk'[s] # disk[s] =>
            \A i \in Slots : Sectors(gpt.ents[i]) \subseteq Usable =>
                s \notin Sectors(gpt.ents[i])]_vars

\* The three that follow are what comments of gpt.c promise.  The code breaks
\* each of them; the README says in which instances.

\* A write goes on from a part of the table only when all of it is on the
\* device ("If any write fails, we abort the rest", gpt.c:1738); fails with
\* "short" in Faults.
FailureStops ==
    [][/\ pc = "backup entries" /\ pc' = "backup header" =>
          EntriesAt(disk', gpt.b.partition_entry_lba) = gpt.ents
       /\ pc = "entries" /\ pc' = "header" =>
          EntriesAt(disk', gpt.p.partition_entry_lba) = gpt.ents]_vars

\* A device on which libfdisk finds a table is never left without one: the
\* order of the writes is for that (gpt.c:1731); fails with "power".
TableStays ==
    [][FdiskTable(disk, size) # NoTable => FdiskTable(disk, size)' # NoTable]_vars

\* A partition is added where none is (find_last_free "returns last
\* available sector in the free space pointed to by start", gpt.c:1097);
\* fails beside a partition that starts on the last usable sector.
AddedIsFree ==
    call.name = "add" /\ call.rc = "ok" =>
        \A i \in Slots \ {call.slot} :
            Sectors(gpt.ents[i]) \cap Sectors(gpt.ents[call.slot]) = {}

\* What holds of it, unless the size is an explicit one (gpt.c:2053): the new
\* partition lies in the usable sectors, also where its start and its end are
\* aligned, and if it begins in no other one it shares no sector with it, but for
\* the first of the other, on which it then ends (the strict comparisons of
\* find_last_free, gpt.c:1112).
AddedStopsAtNext ==
    call.name = "add" /\ call.rc = "ok" =>
        LET e == gpt.ents[call.slot]
        IN /\ Sectors(e) \subseteq Usable
           /\ \A i \in Slots \ {call.slot} :
                 e.start \notin Sectors(gpt.ents[i]) =>
                    \A s \in Sectors(gpt.ents[i]) \cap Sectors(e) :
                       s = gpt.ents[i].start /\ s = e.end

-----------------------------------------------------------------------------
(* For libfdisk and for libblkid the device is a TableStore. *)

UnderWay == IF pc = "idle" THEN NoTable ELSE Edited

ForFdisk == INSTANCE TableStore WITH
    found <- FdiskTable(disk, size), next <- UnderWay
ForBlkid == INSTANCE TableStore WITH
    found <- BlkidTable(disk, size), next <- UnderWay

\* Whoever looks finds the old or the new table, whenever the writer is
\* killed or a write fails.
KeepsTableForFdisk == ForFdisk!Spec
KeepsTableForBlkid == ForBlkid!Spec
=============================================================================
