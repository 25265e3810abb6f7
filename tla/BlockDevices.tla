---------------------------- MODULE BlockDevices ----------------------------
(***************************************************************************)
(* The table of block devices (lib/uevent.c): what add_uevent_entry makes  *)
(* of a device of /sys/class/block, and the lookups that lead from the     *)
(* path in an fstab to a node and its device number.                       *)
(***************************************************************************)
EXTENDS Naturals, Sequences

CONSTANTS
    NoRdev,   \* the st_rdev 0
    Null      \* the C NULL

\* Paths of block devices, by what the lookups make of them.
MmcPath(part) == [kind |-> "mmc", part |-> part]      \* /dev/block/mmcblk%up%u
ByName(name)  == [kind |-> "byname", name |-> name]   \* .../by-name/%s
LoopPath(n)   == [kind |-> "loop", minor |-> n]       \* /multiboot/dev/block/loop%d
Directory(d)  == [kind |-> "dir", dir |-> d]

\* A device of sysfs: its number, its DEVNAME as a path, PARTN and PARTNAME.
\* Names other than mmcblk%up%u do not tell the partition.
SysDevice(rdev, devname, partn, partname) ==
    [rdev |-> rdev, devname |-> devname, partn |-> partn,
     partname |-> partname]

\* Bug: PARTN is taken also where the name tells the partition.
add_uevent_entry_partn(d) ==
    [rdev     |-> d.rdev,
     devname  |-> d.devname,
     part     |-> <<0, d.partn>>,
     partname |-> d.partname]

\* struct sys_block_uevent.  part_major stays 0 and part_minor is PARTN unless
\* the name is that of an MMC partition.
add_uevent_entry(d) ==
    [rdev     |-> d.rdev,
     devname  |-> d.devname,
     part     |-> IF d.devname.kind = "mmc" THEN d.devname.part
                  ELSE <<0, d.partn>>,
     partname |-> d.partname]

\* Whether event e answers to a path.  Looking up a name, the function goes on
\* to compare part_major and part_minor, which it has not set: `junk` is what
\* they happen to be.
Answers(e, path, junk) ==
    \/ /\ path.kind = "byname"
       /\ (e.partname # Null /\ e.partname = path.name) \/ e.part = junk
    \/ path.kind = "mmc" /\ e.part = path.part

Answering(info, path, junk) ==
    {i \in 1..Len(info) : Answers(info[i], path, junk)}

\* The index of the first event that answers, 0 for NULL.
get_blockinfo_for_path(info, path, junk) ==
    IF Answering(info, path, junk) = {} THEN 0
    ELSE CHOOSE i \in Answering(info, path, junk) :
             \A j \in Answering(info, path, junk) : i <= j

uevent_realpath(info, path, junk) ==
    LET i == get_blockinfo_for_path(info, path, junk)
    IN  IF i = 0 THEN Null ELSE MmcPath(info[i].part)

uevent_stat(info, path, junk) ==
    LET i == get_blockinfo_for_path(info, path, junk)
    IN  IF i = 0 THEN NoRdev ELSE info[i].rdev

\* The nodes that uevent_create_nodes has made.
Nodes(info) == {info[i].devname : i \in 1..Len(info)}
=============================================================================
