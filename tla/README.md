# A specification of grub4android/multiboot

`multiboot_init` is the `/init` of an Android device that boots several
systems from one set of partitions.  It runs as process 1, prepares the
replacements of the partitions on a *source* partition, and starts the real
`/init`; the processes that would touch the partitions themselves are traced
with ptrace (the library tracy) and their system calls redirected.

A partition is replaced in one of two ways:

* a **bind** record (ext2/3/4, f2fs): a directory on the source partition is
  bind-mounted where the partition would be.  Whatever opens the block device
  gets a small *stub* loop device with a file system of its own.  If the guest
  formats the stub, the directory has to be emptied;
* an **image** record: a copy of the partition in a file, behind a loop device.

## Inventory

| component | state | operations | what makes it correct |
|---|---|---|---|
| init driver `src/src/multiboot_init.c` | `module_data`, mounts, the signal handler | `setup`, `main`, parsing of the command line, `voldwrapper`, `usr1_sighandler`, child callbacks | a guest starts prepared or not at all; `/proc` and `/sys` are left unmounted; every boot comes to a decision; vold is traced |
| env_prepare `modules/env_prepare.c` | mount points, directories, images, loop devices | `ep_early_init`, `ep_fstab_init` | an image exists before a guest needs it and is never made again |
| fstab_patcher `modules/fstab_patcher.c` | the guest's fstab files | `fp_fstab_init`, `patch_fstab` | all tables patched, or no guest; lines replaced for multiboot records only |
| fs_redirection `modules/fs_redirection.c` | per child: `memory`, `tmp`, `handled_by_open`, `files`; the table `info` | `hook_fileaccess` (with `hook_open`, `redirect_file_access`), `hook_close`, `hook_dup`, `hook_fcntl`, `hook_mount`, child create/destroy | no protected partition is reached; plain files are left alone; every format is noticed, none imagined; the directory mirrors the stub |
| format detection `lib/fs/` | a snapshot of the super block per descriptor | `fs_pre`, `fs_was_format`, `fs_cleanup`, the ext2 handler | equal to "another file system was made since" |
| utilities `util.c` | errno, files | `do_exec` and the tools, `get_patharg`, `copy_patharg`, `get_fstype` | a failure is reported as one |
| module registry `modules.c` | the list of modules | `module_register`, `modules_call_*` | link order; the first failure ends a stage |
| fstab parser `lib/fs_mgr/fs_mgr.c` | a table of records | `parse_flags`, `do_fs_mgr_read_fstab`, lookup by mount point | a guest mounts what its own table asks for, replaced where the multiboot fstab says so |
| block devices `lib/uevent.c` | a table of partitions | `get_block_devices`, `get_blockinfo_for_path`, `uevent_realpath`, `uevent_stat`, `uevent_create_nodes` | a path finds its partition or none, in whatever order sysfs is read |
| command line `lib/cmdline.c` | -- | `import_kernel_cmdline` | each parameter reaches `import_kernel_nv` |
| kernel log `lib/klog.c` | -- | -- | -- |
| libblkid (vendored) `lib/libblkid` | a probe: three chains with positions and filters, the values of the result, the wiped area | `blkid_do_probe`, `blkid_do_safeprobe`, `blkid_do_fullprobe`, `blkid_do_wipe`, filters, reset; `get_fstype` calls `blkid_do_fullprobe` | a scan misses nothing; results are not mixed; ambivalence is told |
| libfdisk (vendored) `lib/libblkid/libfdisk`, its GPT label, with libblkid's reader of the same tables | the table in memory (two headers, one array of entries), the first sector, the device | assign and deassign a device, create a table, add, set, delete and reorder partitions, flags and ids, verify, write | what was written is found, twice, by both readers; whatever interrupts a write, the old or the new table is there; no partition's data is touched |
| tracy, libselinux | external | | |

Interactions.  `setup` calls the modules through the registry in three stages
(early, fstab, tracy), in link order: fstab_patcher, env_prepare,
fs_redirection.  tracy calls the hooks of fs_redirection at the entry and the
exit of each hooked system call, one child at a time, from the single thread of
`tracy_main`; the traced processes run concurrently in between.  The child
callbacks come through `multiboot_child_create/destroy`.  The voldwrapper, another process, talks to process 1
with SIGUSR1.  All data between boots is on the source partition.

What is hard to test: entry hook, kernel and exit hook of different processes
interleave; the detection compares timestamps and keeps a snapshot for each
descriptor; the guest can exit, clone, dup or format at any point; power can go
between any two steps of a boot or of the writing of a partition table; setup has many early exits; a signal may come
before its handler.  `PROJECT.json` lists these hazards line by line with the
properties that watch them.

## Modules

| module | models |
|---|---|
| `FstabLookup` | which record a path belongs to: `get_patharg`, the table `info` and the flag handling of `hook_fileaccess`, `fstab_rec_matches`, `get_fstab_rec` (operators) |
| `FormatDetect` | super blocks, snapshots, `fs_pre`, `fs_was_format`, the ext2 handler (operators) |
| `FsRedirection` | the tracer at run time: all hooks, the kernel's part of the hooked calls, children, and the guests around them |
| `MCFsRedirection` | instances of `FsRedirection` |
| `FsRedirectionProofs` | theorems about `FsRedirection`: types, scratch fields, no format imagined; the lemmas about its steps that the next two use |
| `FsrLookupProofs` | theorems about its lookups: isolation, plain files, no crash |
| `FsrFilesProofs` | theorems about its lists, descriptors and directories |
| `BlockDevices` | the table made from `/sys/class/block` and the lookups in it (operators) |
| `FstabFile` | Android and TWRP tables read into records, the lookup by mount point, the row `file_write_fstabrec` writes (operators) |
| `Records` | how `setup` comes by its records: the parameters, the devices, the multiboot fstab, the guest's fstabs, the translation of their paths, and `patch_fstab` row by row |
| `MCRecords`, `RecordsProofs` | an instance of `Records`, and theorems about it |
| `BlkidProbe` | the core of libblkid's probing: chains, positions, results, wipers, the three kinds of scan |
| `MCBlkidProbe`, `BlkidProofs` | an instance of `BlkidProbe`, and theorems about it |
| `Gpt` | GUID partition tables on a device: headers, checksums, both readers, and the search for free space (operators) |
| `TableStore` | what a device promises to a reader of its table while the table is rewritten |
| `GptEditor` | sessions of a program that edits a GPT through libfdisk, with every fault |
| `MCGpt`, `GptProofs`, `GptCrashProofs` | instances of `GptEditor`, and theorems about it: under every fault, and for writers that are killed |
| `BootContract` | what the boot promises to guests and user, over any number of boots |
| `Boot` | process 1 from power on to the guest, over several boots, with env_prepare, fstab_patcher and the start of vold |
| `MCBoot` | instances of `Boot` |
| `BootProofs` | theorems about `Boot` |

### FsRedirection and the code

`memory`, `tmp`, `handled`, `files` are the fields of `struct
multiboot_child_data`; `files[c][fd]` is the part of the list of child `c` with
id `fd` (`ll_find` returns its head, `ll_del` removes the head, `ll_add` adds at either end: the list is
tracy's).  `call[c]` is the system call in flight, in one of three phases:
after its entry hook, after the kernel, none.  `errno` is the tracer's, which
`get_patharg` looks at; whether `tracy_read_mem` leaves it alone depends on
how tracy reads memory (with the fallback or not), so it is a parameter (`ErrnoKept`).  `fdt`, `node`, `mounted` are the kernel's;
`sb` and `dir` are the stub devices and bind directories, `uuid` marks which
file system a file or a snapshot belongs to.  `clock` counts whole seconds.

A hook is one step, because `tracy_main` has one thread and the calls of a
hook are made while the child is stopped.  Each hook's whole effect is in its
action, the e2fsck that `hook_open` runs and the `rm` of `hook_close` included.
Abort and crash of the tracer are terminal states.

A path is a name with a link target and the object it names now, both as the
tracer finds them: `get_patharg` and `get_fstab_rec` resolve the text of the argument with the
tracer's own working directory and root (`util.c:216-221`, `fs_redirection.c:96`), and no hook
looks at the dirfd of openat and its like.  The kernel resolves the name for the process.  `Meant[p]` is the
name by which the tracer would find the file that the process means by `p`: `p`
itself for an absolute name in the tracer's root, anything for a name relative to another directory, with
a dirfd or in another root.  The table
`info` is kept as five rows of calls that the hooks treat alike.  `stray`
is the bit a hook reads from an argument that the kernel does not take the flag
from (the mode of `openat`; the fourth register of `faccessat`, `fchmodat`).
`dup2` stands for `dup3`, `fcntl` for `fcntl64`.

`hook_mount` turns the mount of a stub device into one of a directory, so the kernel
takes it whoever has the device open.  A file remembers in `held` (auxiliary) that it was written
while a descriptor was open through which the device had been formatted.  `Below[i]` names
the records whose directory lies in that of record `i`: the directories of all other
bind records are made on the source partition (`multiboot_init.c:166-168`), so `format_path` for that
one takes them along, and leaves only its own names that begin with a dot.

### Boot and the code

`pc` names where process 1 is: one value for each stage of `setup` and `main`
between which the outcome matters, one for each round of the loops of `fp_fstab_init`
and `ep_fstab_init` (`at` is `i`).  `ok` is `rc`.  `file[n]` is the image behind record `n`:
none, partial or full.  Images of image records are on the source partition
and survive `PowerOff`; the stub images are in the RAM disk and do not.  `wrapped`
says that `init.rc` was patched to start vold through the wrapper.  The wrapper,
the signal and the handler are separate steps (`KillInit`, `ExecVold`,
`usr1_sighandler`), as they are separate processes; `pending` is the one SIGUSR1
that the kernel keeps.  Every operation named in `Operation` can fail if the
constant `MayFail` has it; `"notool"` stands for a tool whose `execve` fails in
`do_exec`.

`BootContract` has the stage of the device (off, preparing, a guest, given up), the
parts of a redirection that the guest of this boot needs, those that are set up and
those that are missed, and the images that a guest has used.  A part is a loop device,
a patched fstab, or the start of vold in `init.rc`; a recovery, which is traced from its start, needs the loop devices only.  The guest starts when every part that it needs was set up
in this very boot or is missed, every boot comes to a decision, and no image that a guest has
written to is ever lost.  `Boot` implements it with `Stage`, `Needed` and `Done`, which are read off `pc`, `opt`,
`loop`, `patched` and `wrapped`.  `missed` is an auxiliary variable of `Boot`: the loop
devices whose losetup has failed, which `ep_fstab_init` reports and no more (`env_prepare.c:134,162`), and
`init.rc` where the sed of `patch_vold` has failed.  So a guest can run without a replacement, but
only one whose own tool has failed and has said so.  The run `boot` checks
the safety part as `KeepsContract` and the decision as `BootDecides`.

### Records and the code

One step is one parameter, one file of sysfs, the reading of the multiboot
fstab, one file of the guest, the translation of all records, and one record of
`patch_fstab`.  `unread` and `unlisted` are directories that readdir returns in
any order.  A path is what the lookups can tell of it: an MMC partition by its
two numbers, a name under by-name, a loop device by its minor, or a directory.
A column of the table is a sequence of options or a set of flags: the program
looks at no option, and copies them.  The two uninitialised numbers that
`get_blockinfo_for_path` compares after a name has not matched are one of
`Junk`; the uninitialised `rc` of the grub branch of `import_kernel_nv` may look
like an error if `RcJunk`.  `"uevent"` and `"write"` in `MayFail` lose a file of
sysfs or rows of a table.

The guest's side is external: a parser of the same kind, and mounts row by row,
where a bind mount ignores its flags and a remount sets those of the file
system it is on.

`Records` gives what `FstabLookup` is given as `Recs`: `RecordsFit` is its
assumption about stubs and replacements.

### BlkidProbe and the code

`Probers[c]` are the `idinfos` of chain `c`; what prober `i` finds at its `k`-th
magic string is data of the device (`disk[c][i][k]`): nothing, a signature, one
that the probing function refuses, or a read that fails.  `idx[c]` is one more
than the `idx` of the chain, so that 0 is its -1.  A client calls any function
in any order; one step is one call, or one round of the loop in it (`pc`).
`seen` is an auxiliary variable, the signatures reported since the position of the
chain was reset.  The two kinds of scan with a result of all chains share their
steps (`AllHead`, `AllReturned`); `superblocks_safeprobe` is a loop of its own
around `superblocks_probe` (`SafeFound`, `SafeDone`, `SafeEnd`).  Values are a
set: no lookup depends on their order.  A topology prober whose function fails does not end the scan
of its chain (`topology.c:184`), one of the other chains does.  The client calls are those of `Next`; left out are
an assignment of a device that fails (`probe.c:706-763`), `blkid_probe_set_dimension`, the clone of a probe, the reset of
a filter and `blkid_probe_get_binary_data` (353-388), and the properties say nothing of them.

### GptEditor and the code

A sector is the unit, and holds one entry of the table, a header, or an MBR.  A
checksum is what it is computed over.  The header's own checksum covers
that of the entries but is computed first (`gpt_recompute_crc`), so each
computation is one behind when the entries have changed: `Recomputed` keeps that
order, and why it does no harm (calls recompute, and the write does it once
more) is part of what is checked and proved.  `Intact` is what both readers ask of a copy; they
differ in the MBRs they accept and in which sector they hold to be outside the
usable ones.

`disk` is what a read returns, the cache included, and `media` what survives a
power failure; they only differ if `"power"` is in `Faults`.  One step is one
call of the interface, except for `fdisk_write_disklabel`: `pc` names the part
that `gpt_write_disklabel` writes next.  A fatal signal may come between two steps,
or end write(2) within the entries.  `FirstLba` and `Grain` are what the topology of the device gives;
both are small in the instances, as they are for devices below 4 MiB.  `Deassign` keeps the label in memory;
`Assign` resets it.  Templates of partitions are complete, and only partitions in use
are set, so no dialog takes part; a template that does not parse (`BadCalls`)
returns from the middle of `gpt_add_partition` or `gpt_set_partition`.  A write at or behind the end of the
device fails; on an image file it would make the file longer.

`begun`, `sure`, `clean` and `call` are history: the arrays of entries that some header
has told of, whether the write under way started from a good primary copy and
equal ids, whether no write was cut off so far, and the last call.

`TableStore` has a table that is found, the table being written, and a switch
from one to the other.  `GptEditor` implements it twice, for libfdisk's reader
and for libblkid's (`ForFdisk`, `ForBlkid`).  It only promises anything of writes that
are `sure`: with a bad primary copy the first parts of a write go over the
one copy there is, and with two ids a crash may bring back the other.

## Properties and runs

Every run checks one module of instances with one configuration.  All pass
with the state space exhausted, except the ones marked *violation*, which
document a place where the code does not do what it says.

| run | properties | instance |
|---|---|---|
| `fsr_format` | TracksWhatIsOpen, DetectsFormat, Mirrored | two processes, one descriptor each, one bind record; mkfs, no erase |
| `fsr_dup` | TracksWhatIsOpen, DetectsFormat | one process, two descriptors, dup, fcntl, an alias node that comes and goes |
| `fsr_files` | TypeOK, SettledMirrored, LiveFilesKept | one process, source record and bind record; mkfs and erase, mounts and files also while the device is open |
| `fsr_links` | Isolation, NoCrash, ScratchBelongsToCall, PlainFilesKept | four records, paths with links, aliases and relative names, all calls that treat links as the kernel does, a canonical node that comes and goes, errno and mmap failures |
| `fsr_processes` | NoFalseAlarm | threads cloned and exiting at any point, one table, dup2, mkfs within the second, ext4 and f2fs |
| `boot` | TypeOK, GuestPrepared, CleanMounts, DataKept, KeepsContract, BootDecides, SignalHeeded | three boots, all command lines and modes, all failures, power loss at any step |
| `records` | TypeOK, RecordsNamePartitions, RecordsFit, GuestMountsAsAsked, SourceStaysWritable | five command lines, five devices, three multiboot fstabs, two root directories, both modes; lost files of sysfs, lost rows |
| `blkid` | TypeOK, ResultOfOneProber, ScanComplete, FullprobeTellsFirst, SafeprobeUnambiguous, TableOfOthers, CallsReturn | five calls, eight probers in three chains, 27 disks on five kinds of device |
| `gpt_crash` | TypeOK, WrittenTableReads, CopiesAgree, AddedStopsAtNext, KeepsTableForFdisk, KeepsTableForBlkid | six calls in any number of sessions on ten devices: whole, hybrid, shifted, blank, with one bad copy or two; writers killed and writes failing at any point; a grain of two sectors |
| `gpt_faults` | NoMixture, DataKept | four calls on five of these devices, every fault, devices grown to 12 sectors and shrunk back, partitions moved and resized, also beyond the usable sectors, calls that fail half-way |
| `boot_power_off` | *violation of* ImagesComplete | power loss while dd runs |
| `boot_vold` | *violation of* VoldTraced | a signal before the handler |

The positive runs of the violated properties leave out exactly the behaviour
that the violation names: `LiveFilesKept` holds for one opener and says itself which two kinds of files of
the present file system it does not speak of (`held`, `Below`); `SettledMirrored` is `Mirrored`
for all files that are not `held`; `Mirrored` itself holds for
processes that close what they opened, for visible names, and for several
openers only if none of them erases; `DetectsFormat` needs each mkfs
to take a second (`"fast"` absent), because the code compares whole seconds; it
also needs ext4 on both sides or a change of type: a new f2fs over an f2fs is
not noticed.  `Isolation` holds for the calls whose hook and kernel treat links
alike, and, like `PlainFilesKept`, of the names that mean the same to tracer and process (`PlainName`).  `DataKept` of
`gpt_faults` is about the partitions that lie in the usable sectors.  What a run leaves out is visible in its `Workload`, `Syscalls`,
`FsTypes`, `Names` and `Removable`, or its `Faults`, `BadCalls`, `SetsPosition` and `Sizes`.

Besides the two violation runs, these are the places where a property is
known to fail once the instance is widened, each found by TLC in the change
named (those that are not names of a module are stated in words):

| property | change | what the code does |
|---|---|---|
| Isolation, PlainFilesKept, without their `PlainName` | none: `fsr_links` has such names | `get_patharg` and `get_fstab_rec` resolve in the tracer (`util.c:216-221`, `fs_redirection.c:96`): a name relative to the directory of a chdir, one with a dirfd, or any name in a changed root reaches a partition that has a replacement, or has a plain file redirected |
| LiveFilesKept without its `f.held` | none: `fsr_files` has such files | a device is formatted, mounted (the mount is one of a directory by now, `fs_redirection.c:519-523`) and written to, all before the descriptor of mkfs is closed: the close detects the format and empties the directory with the new files in it (`fs_redirection.c:378-388`) |
| LiveFilesKept without its `Below` | none: `fsr_files` has both records | when the source partition was formatted, its close removes all that is below its mount point, the directories of the other records too (`fs_redirection.c:386`, `multiboot_init.c:166-168,425`), whose own stubs nobody has formatted |
| LiveFilesKept | a second process, as in `fsr_format` | each descriptor keeps its own snapshot, and nothing refreshes the others when a format has been handled: the second close reports "FORMAT DETECTED!" again and empties a directory with new files in it (`fs_redirection.c:378`) |
| Mirrored | `fsr_files` itself | a descriptor opened on a blank device makes a file system, files are written, and it erases the device before its close: the close compares nothing with nothing (`fs.c:20`) and the files stay |
| Mirrored | `"none"` in `FsTypes` of `fsr_format`, `MaxUuid` 4, `MaxClock` 5 | a descriptor opened on a blank device and closed after erasing it compares nothing with nothing (`fs.c:20`), although another process has made and filled a file system in between: the directory keeps the files |
| Isolation | `"openat"` in `Syscalls` and a link to a recorded partition | "ignore symlinks for calls which don't resolve them" (`fs_redirection.c:311`) asks the mode of openat, a3, for O_NOFOLLOW instead of the flags, a2: the link is neither resolved nor redirected (`fs_redirection.c:68`) |
| NoFalseAlarm | `"setback"` in `Workload` | a last-check time that went back counts as a format (`ext2.c:122`), and `hook_open` itself sets it; the close of the older descriptor empties the directory of a file system nobody has formatted |
| Mirrored | `"exit"` in `Workload` | the kernel closes the descriptors of an exiting process without close(2); `free_fdinfo_list` frees the entries with a warning only (`fs_redirection.c:183`) |
| Mirrored | `"dot"` in `Names` | `rm -Rf <dir>/*` through the shell leaves names that begin with a dot (`fs_redirection.c:386`) |
| Mirrored | an alias node in `Removable` | `hook_close` looks the name up again (`fs_redirection.c:381`); when the node is gone there is no record and nothing is emptied |
| PlainFilesKept | a multiboot record with `rdev` `NoRdev` | a record whose device was not found has `st_rdev` 0 and matches every regular file (`fs_redirection.c:81`) |
| GuestPrepared | `MayFail = {"notool"}` | the child of `do_exec` whose `execve` fails calls `exit(0)`, so `ep_fstab_init` goes on without images (`util.c:296`) |
| every boot without failures brings up a guest | multiboot.2ndstage alone | `ep_early_init` mounts the source partition in every case (`env_prepare.c:51`), and without multiboot.source that fails |
| the tracer keeps running | `"fcntl"` in `Workload` | any fcntl on a tracked descriptor aborts the tracer (`fs_redirection.c:460`) |
| Isolation | a link to a node in `Removable` | a link whose target is absent at the entry hook resolves to nothing; the kernel may find it (`fs_redirection.c:217`) |
| SignalHeeded | `MaxVold = 2` | a signal still pending from a vold that has died swallows that of its successor (`multiboot_init.c:515`) |
| GuestMountsAsAsked | a row of the multiboot fstab with `noemulatedsd` | the flag has the bit of `multiboot` (`fs_mgr_priv.h:70`) |
| GuestMountsAsAsked | a row for `/data/media` in the guest's fstab | the record of `/data` answers for it (`fs_mgr.c:729`) |
| GuestMountsAsAsked | an image record for the partition of the bootloader, with multiboot.2ndstage | the row names the loop device and says `bind` (`fstab_patcher.c:72`) |
| SourceStaysWritable | a guest's row other than `/system` with `ro` and a bind record | the remount of the bind makes the source partition read-only (`fstab_patcher.c:96`) |
| RecordsNamePartitions | `Junk` or a USB partition with the number of a partition (excluded by `LookupsTell`) | an unmatched name compares uninitialised numbers (`uevent.c:172`); partition 1 of a USB disk looks like mmcblk0p1 (`uevent.c:63`) |
| ScanComplete | `InvertLate = TRUE` | inverting a filter does not restart the scan (`probe.c:474`) |
| ScanComplete without its `~noscan` | a device private to LVM, then another | `blkid_probe_set_device` never clears `BLKID_FL_NOSCAN_DEV` (`probe.c:687`) |
| WrittenTableReads | `BadCalls = TRUE` | `gpt_add_partition` and `gpt_set_partition` return in their middle when a GUID or a type does not parse (`gpt.c:2110`), with changed entries and the old checksums; one computation more, in `gpt_write_disklabel`, leaves both headers with a checksum over an older one (`gpt.c:731`).  The write returns 0 and nobody accepts either copy |
| CopiesAgree without its `clean` | a writer of a new id killed between the two headers | two copies that are each valid are not compared: the next session keeps the backup with the other id over its own entries, writes both and returns 0 (`gpt.c:1241`) |
| FailureStops | `"short"` in `Faults` | "If any write fails, we abort the rest" (`gpt.c:1738`): a write(2) that takes a part of the entries sets no errno, and -errno is 0 (`gpt.c:1629`) |
| TableStays, KeepsTableForFdisk | `"power"` in `Faults` | "UEFI requires writing in this specific order" (`gpt.c:1731`), but nothing is flushed between the parts; the only fsync is in `fdisk_deassign_device` (`context.c:568`) |
| DataKept | 9 in `Sizes` | "check that disk is big enough to handle the backup header" compares an address with a count by > (`gpt.c:1715`): a device that has lost its last sector, and the backup header with it, passes, and the backup entries, now placed one sector lower, go over the end of the last partition |
| DataKept of all partitions, not only those in the usable sectors | none: `gpt_faults` has such partitions | `gpt_set_partition` compares what it sets with the ends of no space (`gpt.c:1559-1576`), and neither does `gpt_write_disklabel` (`gpt.c:1715-1724`): a partition of four sectors that starts on sector 6 of ten is on the backup entries, which the write puts over its end |
| AddedStopsAtNext | `Explicit = TRUE` in `gpt_crash` | a size that is asked for exactly is taken as it is (`gpt.c:2053`), and runs on over the next partition or the end of the usable sectors.  (`DataKept` holds, as it is about partitions in the usable sectors: what runs out of them is written over.) |
| AddedStopsAtNext | `Grain = 4`, 5 in `Starts` of `gpt_faults`, with `Lengths = {1}` and no set positions | "the result has to be between @start and @stop" (`alignment.c:127`): in a free space with no aligned sector the aligned start lies behind the aligned stop and wins, so `gpt_add_partition` puts the end of the partition (`gpt.c:2054`) behind the space.  At the end of the device that is among the backup entries; nothing compares it with the last usable sector, and the write goes over the end of the partition |
| AddedStopsAtNext | `Grain = 8` in the same instance | the other way round: the free space 5..6 behind a partition has no aligned sector, its stop aligned down is 0, in front of the space, and wins (`alignment.c:131`).  `gpt_add_partition` only compares a start that was asked for with the free space (`gpt.c:2002`), an entry that starts at 0 overlaps no other (`gpt.c:1020`), and the partition 0..3 is on the MBR, the primary header and the entries, which the write goes over.  A start that is asked for there with a length gets an end of 2^64 - 1, which the assertion on undefined numbers takes for one (`gpt.c:2097`): the process ends |
| AddedIsFree | any instance with a partition on the last usable sector | `find_last_free` passes over a partition that starts on the sector found so far (`gpt.c:1112`), and the new one overlaps it; the write is then refused. The same happens in front of a partition of one sector that comes later among the entries than the one right behind it. AddedStopsAtNext, which holds, bounds the overlap to that sector |
| a partition set to a start and a length gets both | a start and a length in one template | the end is counted from the start the partition had (`gpt.c:1562`) |

**Bounds.**  `MaxClock`, `MaxUuid` (mkfs runs), `MaxItems` (entries of one list for
one descriptor), `MaxBoots`, `MaxVold` (starts of vold in a boot); the sets of
children, descriptors, paths and records.  Detection compares two
super blocks of one device, so two formats and three seconds (`fsr_format`, `fsr_dup`) give every order of
snapshot, check and format; what more of them do is proved (`FormatNeverMissed`, `FormatsMirrorDevices`), and an erase beside a second process, which needs
three formats and four seconds to do harm, is in the table above; two processes give every interleaving of two
snapshots.  In
`fsr_files` one process with one descriptor has one format and three seconds, enough for a format of either device, files
of both in between, and an erase before the close.  Neither of the two runs with files unmounts a directory (`"umount"`
is in `fsr_links` only): an unmount takes nothing away but the writes that need the mount.  The `VIEW` of `fsr_format`
leaves out `held`, which no guard and no property of that run reads.  Children only meet on the disks and in the descriptor
tables.  One `MaxItems` of 2 allows a stale entry beside a live one.  In Boot a
third boot meets what a failed second one has left of the first one's data.
In Records the devices are a disk, three partitions and an SD card, so that a
partition has the number of another one on another disk, and there is a bind, an
image, a plain and an unreadable record.  In BlkidProbe `MaxCalls` = 5 is a scan of a
signature with a backup, wiped twice and scanned to its end; the probers are one of
each kind that the code tells apart (RAID, RAID with a wiped area, file system,
tolerant file system, one with a minimal size; a table in the wiped area and one
that is not).

In GptEditor a device of ten sectors has three for partitions (4 to 6) and a table
of two entries: room for two neighbours, a gap and a single sector, and for an array that is
half written.  `MaxSize` = 12 leaves two sectors to grow.  Six calls are a
session that changes and writes, and another one that starts from what a crash of
the first has left, changes and writes; `gpt_faults` has four, enough for an edit, a
write that is cut off, and the probing and writing of the next session.  Its one length of four sectors is longer than the
usable space, so a partition that is set to start on sector 6, or to that length, is on the backup copy.

**Deadlock** is not checked: setup ends, the client of a probe or of a label stops calling, the tracer may abort, all children may exit, the clock, the
boots and the formats reach their bounds.

**Symmetry** is used where every process starts alike and only invariants are
checked.

**Fairness.**  FsRedirection has none: its properties are safety.  Boot assumes
weak fairness of process 1 (the kernel schedules it and the tools it waits for
terminate), of the wrapper's kill, and of the delivery of a pending
signal.  Nothing makes the power go, init start vold, or vold exit.  BlkidProbe
assumes that a call goes on until it returns; nothing makes the client call.
Records has none, and neither has GptEditor: nothing makes its client call, and its
properties are safety.

## Proofs

`FsRedirectionProofs`, for all values of the constants:

* `TypeCorrect` (TypeOK) and `ScratchCorrect` (ScratchBelongsToCall) come from
  `HookInv`, which adds to them that a call in flight has the arguments its
  kernel step uses (`CallHasArguments`): the type of a kernel step depends on
  the phase of the call, so the types alone are not inductive.
* `NoFormatImagined` (NoFalseAlarm), assuming that the clock is not set back.
  `DetectInv` adds `DiskInv`, no super block is younger than the clock, and
  `EntriesFit`, each entry relates to the present super block of its device: as long
  as the identity is the same, so is the type, the mkfs time is no later and the check
  time no earlier.  A step on the disks is described by `DiskStep`, a step on
  the lists by `ListStep`, and the two are combined.  Without the
  assumption it is false (see the table above).

`FsrLookupProofs`, for all fstabs, paths, links, processes and workloads.  All three assume
`RecordsFound`: `prepare_fstab` found a device behind each multiboot record
(`multiboot_init.c:393`).  The code goes on without one, and then they are
false (see the table above).

* `PlainFilesNeverRedirected` (PlainFilesKept), for the names in `PlainName`, from `OnlyPartitions`: a replaced
  call is one on the partition of a record, also after its node has gone.
* `PartitionsAreIsolated` (Isolation), assuming also that the hook resolves a link where the
  kernel follows it (`CallsAgree`, of the calls that the guest uses), that a node which vanishes is
  the one its record is called by (`NodesNamed`), and that no stub is itself a
  replaced partition.  It is about the names in `PlainName`; of the others nothing is claimed.  `Aimed` says of a call in flight that its path, replaced or
  not, leads to nothing protected, or through a link that the kernel refuses;
  the kernel's step turns it into Isolation.
* `TracerNeverCrashes` (NoCrash), with `NodesNamed`: `make_fdinfo` looks up at the exit of a
  call what the entry hook had found.  Every name put aside for an
  exit hook or kept in a list has a bind record when all nodes are there (`NamesKept`).

`FsrFilesProofs`, for any number of processes, descriptors, records, formats and seconds:

* `FormatNeverMissed` (DetectsFormat), assuming `Ext4Only`: the guest makes ext4 or
  erases, a second apart, and the clock is not set back.  `FormatInv` adds to the
  invariant of `NoFormatImagined` that each ext4 file system was made before now (`Dated`)
  and that a snapshot with another identity is older than the present one.
* `ListsFollowDescriptors` (TracksWhatIsOpen), assuming `Followed`: the records were found, each
  partition has one name in the multiboot fstab and each stub that has a node
  is its own record (the source partition), no process shares its descriptor table, `dup2` is not
  used, and open resolves the links its hook resolves.  In `TrackInv` a call in
  flight carries a `Promise`: what the exit hook will do with the descriptor that the
  kernel has just returned or closed; that descriptor is `InFlight`, and
  for every other one the list is `Exact`.  Without the promise the property is not inductive,
  as it only speaks of processes between two calls.
* `DirectoriesMirrorDevices` (SettledMirrored) and `LiveFilesStay` (LiveFilesKept), for behaviours with
  one writable open file on each stub device at a time (`[]SingleWriter`, as a mkfs and a vold
  that open the device exclusively make them), and `Mirrorable`: besides `Followed` and
  `Ext4Only`, nobody exits with an open file, no hidden names, one record for a stub.  The directory may be
  mounted and written to at any time.
  `AloneInv`: while a device is open for writing, its directory holds files of the
  snapshot only, but for those that are `held` (`SnapshotsHold`); a directory that does not show its device has a
  descriptor open that has made the present file system (`CleanOrHeld`).  `LiveFilesStay` needs of a close that
  empties a directory below another one that the other device was formatted since boot.
* `FormatsMirrorDevices` (Mirrored) for any number of writers, if nothing is erased.  A
  directory that does not show its device has an open descriptor whose
  snapshot has another identity (`CleanOrShown`), so its close empties the directory:
  identities of ext4 file systems do not come back, blank ones do.

The runs `fsr_format` and `fsr_files` satisfy every one of these assumptions, `fsr_links`
those of `FsrLookupProofs`, and `fsr_dup` those of `FormatNeverMissed` and
`ListsFollowDescriptors`; the rows of the table above show what happens without them.

`RecordsProofs`, for all command lines, devices, tables and failures:

* `RecordsAlwaysNamePartitions` (RecordsNamePartitions) and `RecordsAlwaysFit`
  (RecordsFit), from the invariant `IInv`: the table of devices holds entries of
  sysfs only (`Entries`); a path and a device are imported together
  (`ParamsFit`); up to the translation, the records are the rows of the multiboot
  fstab with their replacements (`Loaded`); loop minors are counted down from
  255 and meet no device (`LoopsFit`).  What a lookup returns is a lemma about
  `get_blockinfo_for_path`; its uninitialised comparison is why the first theorem
  needs `LookupsTell`.
* `SourceAlwaysWritable` (SourceStaysWritable), assuming of the guest's tables and the
  multiboot fstabs `GuestsWrite`: no row of the guest remounts a directory, and one with
  `ro` is not for a mount point that is replaced by a directory, `/system` excepted.  The
  invariant `Harmless` says that no row of any file of the guest is `Harmful`, a remount of a
  directory with `ro`, after every record that patch_fstab has written, and however many
  rows were lost.  It rests on `Shape`: records keep what their rows say (`TableFrom`),
  replacements are directories exactly for bind records (`ReplacedAs`), and `at` is within
  the tables; and on `FilesInv`: two tables are of two files (`NamesDiffer`), and a record has
  the path of its row, translated or not (`PathsFrom`).
  `AndroidRows` and `TwrpRows` are the lemmas about what `Rows` writes: the second is
  needed since init reads a TWRP table with Android's columns, where its block device is
  in the column of the type.  TLC evaluates `GuestsWrite` in `MCRecords`; the row of the
  table above shows that it is needed.
* `GuestsMountAsAsked` (GuestMountsAsAsked), assuming `GuestsAskClearly`: the guest's tables
  mount devices, none by binding or remounting, once at each mount point, and where a row
  of a multiboot fstab stands for such a mount point it is the only one, has that mount
  point itself, has its flag from `multiboot` and not from `noemulatedsd`, and is not an
  image for the partition of the bootloader.  (The three rows on GuestMountsAsAsked in the table
  above are what happens without the last three; TLC evaluates the assumption in `MCRecords`.)
  The invariants are `Shape` and `FilesInv` again; `Found`, what `ep_early_init` has seen to;
  `Given`, that the device of the bootloader is one of the command line; and `Patched`.  The
  last is what a property about the end of `patch_fstab` needs at each of its steps:
  behind the first n records a file has at most the rows of those, and if it has as many,
  then it has them all, the row of flags right behind its bind mount, and no others
  (`Written`, `Complete`).  It is an invariant in spite of lost rows because a lost one is
  never made up for, and in spite of several tables because they are of several files.  At
  the end, `ReplacingWanted` says that `fs_mgr_get_entry_for_mount_point` finds the
  record that is wanted, `GrubTells` that the comparison of device numbers finds the
  bootloader's partition exactly if the row and the command line name one partition,
  `MainRowMounts` and `FlagRowSets` what the rows do, and `RowMounted` that among all rows
  of the file those of the record have the last word at its mount point.
* `RecordsTyped` (TypeOK), from `TInv`, which adds that a parameter still to be imported
  names a device if it scans.

`BootProofs`, for all fstabs, command lines, failures and numbers of boots:

* `BootTypeCorrect` (TypeOK).
* `DataIsKept` (DataKept): with `DiskInv`, an image that a loop device or a
  guest has used exists, so `ep_fstab_init` does not make it.
* `InitFindsCleanMounts` (CleanMounts): with `MountInv`, what is mounted at
  each stage.
* `GuestIsPrepared` (GuestPrepared), assuming that tools can be executed: with
  `SetupInv` (each loop has done its work up to its index) and `GuestInv`.
  Without the assumption it is false (see the table above).

* `BootKeepsContract` (KeepsContract), with the same assumption: each step of `Boot` is a step of
  `BootContract` under the mapping or leaves its variables alone.  The invariants above are joined by `WorkInv`,
  what is done or missed behind each index of the loops of `fp_fstab_init` and `ep_fstab_init`.

`BlkidProofs`, for all probers, devices, contents and sequences of calls:

* `TypeCorrect` (TypeOK), from `Shape`: what the control of the calls relies on
  (`Control`; for instance, a call stands in a chain only if it is enabled), and that the
  locals of `superblocks_safeprobe` are positions of its chain (`Data`).
* `NeverMixed` (ResultOfOneProber), from `Single`: while the loop of a chain goes on,
  the result has nothing of the chain.  Without this a prober's values would meet
  those of the one before it.
* `ScanMissesNothing` (ScanComplete), assuming `InvertLate = FALSE`.  `Recent`: no
  position has passed a value that is kept, so the step back after a wipe comes before
  the prober whose magic was wiped; `Told`: of what a position has passed, the
  client was told, or will be by the call under way; `Walk`: `blkid_do_probe` leaves
  a chain only at its end, and never stands at a start that the head of its loop
  would take for a chain that is done.  Without the assumption it is false (see the table
  above).
* `FullprobeFindsFirst` (FullprobeTellsFirst), from `FullInv`: while a search goes on, its
  position has passed no signature (`NonePassed`), so what it finds is the first one; the
  topology keeps that result and its wiper (`SuperblockTold`), and the first partition
  table removes it just where it is younger (`FullTold`).
* `SafeprobeTellsOne` (SafeprobeUnambiguous) and `TablesOfOthersHidden` (TableOfOthers), from
  `SafeInv`.  `Weighed` says what the locals of `superblocks_safeprobe` tell of the signatures
  met so far: `safe.idx` and `safe.vals` are the first of them, none ended the search, and
  with `intol` 0 all are tolerant.  Where the search ends it has met just `Leading`
  (`MetLeading`), so the restored result is one that no other file system contests
  (`Claims`).  Behind it, a RAID without a wiper has set the flag with no wiper kept, so the
  partition tables are passed over (`SafeTold`), and a table that is looked at removes
  what it is younger than (`TablesTold`).

`GptProofs` and `GptCrashProofs`, for any number of entries, device and number of calls:

* `TablesAreWhole` (NoMixture), under every fault of the model.  From `IInv`: each header on
  the device or on the medium tells of an array in `begun` (`Known`), and in the
  middle of a write so do those in memory (`Writing`).  A reader compares the
  entries with the checksum, so what it accepts is such an array, however it came to be
  there.
* `FdiskFindsOldOrNew` and `BlkidFindsOldOrNew` (KeepsTableForFdisk, KeepsTableForBlkid) and
  `WrittenIsFound` (WrittenTableReads), assuming `Undisturbed`: processes are killed and
  writes fail, but no write is short, the power stays, no call fails half-way, and the
  device has room for a table, holds headers at most in the two usual places and keeps its size (the run
  `gpt_crash` is an instance of it).  `CInv`: headers on the device and in
  memory have the layout of their place (`Layout`, `InMemory`); outside a write,
  one more computation of the checksums makes both headers good (`Ready`); in a write, the
  parts that are done are there (`Staged`) and there is a copy to fall back on (`Safe`).
  Each step of a write then leaves what a reader finds or switches it to the new table.
  `WInv` adds that a write which returns 0 leaves an MBR that both readers accept.
  Without the assumption they are false (see the table above).
* `CopiesAlwaysAgree` (CopiesAgree), assuming `Undisturbed` and that no device holds two good
  copies of different tables at first (`NotSplit`; so it is in `gpt_crash`).  From
  `BothInv`: as long as no write has failed or been cut off, good copies are the same table
  (`TwoCopies`), also when `gpt_probe_label` has made up one of them from the other or a new
  disk GUID has been set, so that both headers in memory have one GUID (`Alike`) and the backup
  is good from its header on (`BackDone`).  That the backup header is stale is what `Ready`
  has to allow for after a failure, and what `clean` excludes here.
* `LabelsAreTyped` (TypeOK), assuming `Roomy`: devices, and the sizes they get, have at least as
  many sectors as the table has entries, and two more.  From `Typed` (TypeOK, `IInv` and that room).
  It rests on what the three searches for free space return (`FirstAvailableIs`,
  `LastFreeIs`, `FirstInLargestIs`).  Those are recursive functions on numbers, and the induction
  theorems of the library cannot be used with the provers at hand; the lemmas take the least
  number at which the claim would fail instead (`LeastOf`, `PassExists`, `ChainExists`).
* `PartitionsAreKept` (DataKept), under every fault of the model and with sizes and positions set in any way,
  assuming `Orderly`: devices keep their size, and the headers on them are first in one of the two places and leave
  the space of both copies out of the usable sectors.  From
  `LayoutInv`: so do the headers on the
  device, on the medium and in memory at any time (`Placed`), and in the usable sectors the medium is as the device.
  No step writes there (`UsableKept`).  What lies outside of them is not protected, as the table above
  shows.
* `EveryPartitionIsKept`: no partition at all is written over, assuming also `Tidy`: no position and no explicit
  size is set, the usable sectors and
  the starts asked for begin in a multiple of the grain (`Aligned`), as they do in every table that
  libfdisk makes on a device of more than 4 MiB, and the partitions on the devices lie between
  the copies at first (`gpt_crash` is an instance of all this).  Then all partitions that a header tells of and all in
  memory stay between the copies (`Within`).  A partition is put there
  because a default start, also one beside its free space, is not before the first usable sector
  (`DefaultStart`), the search for its end does not go behind the last one, and an end that is aligned is
  not behind that or is refused (`AlignedEnd`).  The table above shows what happens without it.
* `AddedPartitionsStop` (AddedStopsAtNext), assuming `Orderly` and `Tidy`: `gpt_add_partition` never lets a
  partition run on over another, nor out of the usable sectors.  From `LayoutInv` and the property itself: an end, aligned or not, is
  not behind what `find_last_free` returned (`AddedWithin`), and that is not behind the start of
  any partition further on, whatever the order of the entries (`LastFreeIs`).  It is not always in front of it,
  hence the one sector the property allows for; `gpt_crash` has both cases.  A default start that was aligned
  into another partition is the property's other exception, and only meets that partition.

The assumptions on the constants are `PathAssumption` and `RecsAssumption`
(FstabLookup), `FsrAssumption` (FsRedirection; `Null` is neither a number nor an open file), `BootAssumption` (Boot),
`SysBlockAssumption`, `MbFilesAssumption`, `CmdlineAssumption`, `ContentAssumption` and
`RootDirsAssumption`
(Records; the last two: what is in the files that find_fstab reads, and that a directory has one
file of a name), `BlkidAssumption`
(BlkidProbe: only superblock probers set a wiper, a disk has an entry for each
prober), `GptAssumption` (Gpt), `EditorAssumption` and `DeviceAssumption` (GptEditor: every
sector of a device holds something of a known kind); TLC evaluates them in every run.

Only model-checked: the liveness properties BootDecides, SignalHeeded and CallsReturn
(liveness under fairness is beyond the proof system).

## Not modelled

* Within a hook nothing else moves: a node that appears between two lookups of
  one hook is not seen.  Calls that are not hooked (execve, rename, mknod,
  ioctl) do not exist in the model, nor do close-on-exec and descriptors
  passed over sockets.
* A super block that cannot be read (garbage in the snapshot), memory
  allocation by malloc, leaks, freed strings, the overrun of `target_fstabs`.
* The text of fstabs, of the command line and of uevent files, and the values
  that some flags carry (copied, never used); the dualboot patches and the
  recovery's curtain.
* What the fallen-through voldwrapper does in a second `setup`.
* Stub images of bind records and `make_ext4fs` are one step, and `make_ext4fs` never
  fails: its failure is reported only (`env_prepare.c:139`), and the guest finds a blank stub.  Neither does an umount, whose
  results nothing looks at (`multiboot_init.c:126,328,374`): CleanMounts speaks of the calls that are made.
* `get_fstype` returns a string of the probe that it has just freed (`util.c:463-465`); the
  model returns the string.
* A format of the source partition also removes the image files that lie on it; FsRedirection has no
  image files.
* A bind directory that a format of the source partition has removed: in the model it is empty, and can still
  be mounted.
* tracy, libselinux: only their results.
* libblkid beyond its probing core.  Of the 57.9 thousand lines of C in the repository, some
  four thousand are the program's own; nearly all of the rest is the vendored
  libblkid with libfdisk, of which the program calls
  `blkid_new_probe_from_filename`, `blkid_do_fullprobe` and
  `blkid_probe_lookup_value`.  The core behind these calls is modelled; what each of the
  sixty-odd probers decodes is the data of its disks.  The cache of devices and
  tags, the configuration and the lists of partitions are not modelled.
* libfdisk beyond its GPT label.  The program never calls it; the GPT label is
  modelled because partition tables are what must survive a crash.  Left out are the dialogs, the labels of DOS, SGI, Sun
  and BSD, the script of dumps, the records of a hybrid MBR (which libfdisk leaves
  alone), tables with another number of entries than the label's own, and 64-bit overflow of addresses.

## Plan

1. Done: FstabLookup, FormatDetect, FsRedirection, Boot with BootContract,
   BlockDevices, FstabFile, Records, BlkidProbe, GptEditor with TableStore, with their
   runs and theorems.
2. `Vold`: two starts of vold, coalesced signals, the wrapper that falls
   through, and the attached vold as a child of FsRedirection.
3. An abstract specification `Partition` (a device with one file system and its
   files; format, write, mount) that FsRedirection is to implement for one
   opener, with `sb` and `dir` as the refinement mapping.
4. The DOS label: the chain of extended boot records, which is rewritten link by link.
