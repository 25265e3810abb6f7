------------------------------ MODULE MCRecords ------------------------------
(***************************************************************************)
(* Instances of Records for TLC: a phone with the partitions system,       *)
(* userdata and boot on its MMC, the MMC itself, and an SD card.           *)
(***************************************************************************)
EXTENDS Records

Mmc(n, name) == SysDevice(<<179, n>>, MmcPath(<<0, n>>), n, name)
SdCard == SysDevice(<<179, 33>>, MmcPath(<<1, 1>>), 1, Null)
Other(rdev, node, partn) ==
    SysDevice(rdev, [kind |-> "other", node |-> node], partn, Null)

MmcDisk == Other(<<179, 0>>, "mmcblk0", 0)
Phone == {Mmc(1, "system"), Mmc(2, "userdata"), Mmc(3, "boot"),
          SdCard, MmcDisk}

\* Two numbers that are those of no device.
SomeJunk == {<<7, 7>>}

SourceParam(n) == [key |-> "multiboot.source", scans |-> TRUE,
                   part |-> <<0, n>>, dir |-> <<"rom">>]
GrubParam(n) == [key |-> "multiboot.grubdir", scans |-> TRUE,
                 part |-> <<0, n>>, dir |-> <<"grub">>]
StageParam(v) == [key |-> "multiboot.2ndstage", scans |-> TRUE, val |-> v]
BadParam == [key |-> "multiboot.source", scans |-> FALSE]

SomeCmdlines ==
    {<<BadParam, StageParam(0)>>,
     <<StageParam(1)>>,
     <<SourceParam(2), GrubParam(9)>>,
     <<SourceParam(2)>>,
     <<GrubParam(3), SourceParam(2), StageParam(1)>>}

Sys == <<"system">>
Data == <<"data">>
Boot == <<"boot">>
Sd == <<"sdcard">>

SysRow(flags) ==
    AndroidRow(ByName("system"), Sys, "ext4", <<"ro">>, flags)
DataRow(flags) ==
    AndroidRow(ByName("userdata"), Data, "f2fs", <<"noatime", "nosuid">>, flags)
SdRow(flags) ==
    AndroidRow(MmcPath(<<1, 1>>), Sd, "vfat", <<"ro">>, flags)
BootRow == AndroidRow(ByName("boot"), Boot, "emmc", Defaults, {"recoveryonly"})
Short == <<ByName("system"), Sys>>

\* Multiboot fstabs: two that name a partition by its node, one with a record
\* that is not to be replaced, and one that cannot be read.
SomeMbFiles ==
    {<<SysRow({"multiboot"}), DataRow({"multiboot"}), SdRow({"multiboot"})>>,
     <<DataRow({"wait"}), SdRow({"multiboot"})>>,
     <<SysRow({"multiboot"}), Short>>}

SomeContent ==
    [f \in {"fstab.device", "fstab.sd", "fstab.broken", FSTAB_RECOVERY} |->
        IF f = "fstab.device"
        THEN <<SysRow({"wait"}), DataRow({"wait", "encryptable"}), BootRow>>
        ELSE IF f = "fstab.sd" THEN <<SdRow({"wait"})>>
        ELSE IF f = "fstab.broken" THEN <<Short>>
        ELSE <<TwrpRow(Sys, "ext4", ByName("system"), <<>>),
               TwrpRow(Boot, "emmc", MmcPath(<<0, 3>>), <<"backup">>)>>]

File(name) == [name |-> name, regular |-> TRUE, fstab |-> TRUE]
InitBinary == [name |-> "init", regular |-> TRUE, fstab |-> FALSE]

EtcRecovery == File(FSTAB_RECOVERY)

SomeRootDirs ==
    {{File("fstab.device"), File("fstab.sd"), File("fstab.goldfish"),
      InitBinary},
     {File("fstab.device"), File("fstab.broken"), EtcRecovery}}

\* The tables are such that the theorems on the guest's mounts and on the source
\* partition are about them.
ASSUME GuestsWriteHere == GuestsWrite
ASSUME GuestsAskClearlyHere == GuestsAskClearly
=============================================================================
