---------------------------- MODULE MCBlkidProbe ----------------------------
(***************************************************************************)
(* An instance of BlkidProbe for TLC: the kinds of superblocks in their    *)
(* order in idinfos, one topology driver and two partition tables.         *)
(***************************************************************************)
EXTENDS BlkidProbe

SomeProbers ==
    [c \in Chains |->
        IF c = SUBLKS
        THEN <<Prober("linux_raid_member", "raid", FALSE, 0, FALSE, FALSE),
               Prober("LVM2_member", "raid", FALSE, 0, TRUE, FALSE),
               Prober("vfat", "filesystem", FALSE, 0, FALSE, FALSE),
               Prober("iso9660", "filesystem", TRUE, 0, FALSE, FALSE),
               Prober("nilfs2", "filesystem", FALSE, 2, FALSE, FALSE)>>
        ELSE IF c = TOPLGY
        THEN <<Prober("sysfs", "none", FALSE, 0, FALSE, FALSE)>>
        ELSE <<Prober("dos", "none", FALSE, 0, FALSE, TRUE),
               Prober("mac", "none", FALSE, 0, FALSE, FALSE)>>]

Disk(raid, lvm, vfat, iso, nilfs, topology, dos, mac) ==
    [c \in Chains |->
        IF c = SUBLKS THEN <<raid, lvm, vfat, iso, nilfs>>
        ELSE IF c = TOPLGY THEN <<topology>>
        ELSE <<dos, mac>>]

No == <<"none">>
Yes == <<"good">>

Twice == <<"good", "good">>

SomeDisks ==
    {Disk(raid, lvm, vfat, No, No, Yes, dos, No) :
        raid \in {No, Yes}, lvm \in {No, Yes}, vfat \in {No, Yes},
        dos \in {No, Yes}}
    \cup
    {Disk(No, No, vfat, iso, nilfs, Yes, No, Yes) :
        vfat \in {Twice, <<"bad", "good">>}, iso \in {No, Yes},
        nilfs \in {No, Yes}}
    \cup
    {Disk(<<"unreadable">>, No, Yes, No, No, No, Yes, Yes),
     Disk(No, No, <<"bad">>, <<"failing">>, Yes, Yes, <<"unreadable">>, Yes),
     Disk(No, No, <<"bad">>, Yes, No, <<"failing">>, <<"bad">>,
          <<"failing">>)}

SomeDevices ==
    {Device(2, TRUE, FALSE, FALSE),
     Device(2, TRUE, TRUE, FALSE),
     Device(1, FALSE, FALSE, FALSE),
     Device(0, TRUE, FALSE, FALSE),
     Device(2, TRUE, FALSE, TRUE)}

SomeOthers ==
    {[dev |-> Device(2, TRUE, FALSE, FALSE),
      disk |-> Disk(No, No, <<"good", "none">>, Yes, No, Yes, Yes, No)],
     [dev |-> Device(2, TRUE, FALSE, TRUE),
      disk |-> Disk(No, Yes, No, No, No, Yes, No, No)]}

SomeFilters == {{1, 3}}

SomeEnabled == {{SUBLKS}, Chains}
=============================================================================
