-------------------------------- MODULE Boot --------------------------------
(***************************************************************************)
(* multiboot_init from power on to the guest: setup and main               *)
(* (multiboot_init.c), the modules env_prepare and fstab_patcher, and the  *)
(* voldwrapper through which the tracer gets hold of vold.                 *)
(*                                                                         *)
(* The power may go at any time.  The images on the source partition       *)
(* survive; mounts, loop devices, the stub images and the patched fstabs   *)
(* live in the RAM disk and are lost.                                      *)
(*                                                                         *)
(* The modules run in the order in which CMakeLists.txt links them:        *)
(* fstab_patcher, env_prepare, fs_redirection.                             *)
(***************************************************************************)
EXTENDS Naturals, Sequences

CONSTANTS
    Kind,       \* the records of the multiboot fstab, "other" without flag
    NFstabs,    \* the number of fstabs of the guest
    Options,    \* the boots that happen: command line and boot mode
    MayFail,    \* the operations that can fail
    MaxBoots,   \* bound on the boots
    MaxVold     \* bound on the starts of vold in one boot

Option == [multiboot : BOOLEAN,   \* multiboot.source is given
           sndstage  : BOOLEAN,   \* multiboot.2ndstage
           grub      : BOOLEAN,   \* multiboot.grubdir
           ums       : BOOLEAN,   \* multiboot.ums
           recovery  : BOOLEAN]   \* BOOTMODE_RECOVERY

Operation == {"mknod", "exec", "blocks", "mount", "sed", "fstab", "fopen",
              "mkpath", "dd", "blknum", "losetup", "hook", "fork",
              "sigaction", "attach", "notool"}

ASSUME BootAssumption ==
    /\ Kind \in Seq({"bind", "image", "other"})
    /\ NFstabs \in Nat /\ MaxBoots \in Nat /\ MaxVold \in Nat
    /\ Options \subseteq Option
    /\ MayFail \subseteq Operation

Rec == {n \in 1..Len(Kind) : Kind[n] # "other"}
Image == {n \in Rec : Kind[n] = "image"}

VARIABLES
    boots,    \* the boots so far
    opt,      \* the command line and the boot mode of this boot
    pc,       \* where process 1 is
    ok,       \* rc = 0 in setup
    at,       \* the loop index i of fp_fstab_init and ep_fstab_init
    mounts,   \* which of /proc and /sys are mounted
    file,     \* file[n]: the image file behind record n
    data,     \* the images into which a guest has written (auxiliary)
    loop,     \* the records whose loop device has a file
    patched,  \* the fstabs of the guest that are patched
    init,     \* /init of the guest
    wrapped,  \* init.rc starts vold through the voldwrapper
    missed,   \* the parts whose failure was reported and no more (auxiliary)
    handler,  \* SIGUSR1 has its handler
    pending,  \* the start of vold whose SIGUSR1 is pending, 0 if none
    volds,    \* the starts of vold in this boot
    vold,     \* the process of vold
    attached  \* vold is traced: "no", "yes", or "refused" by the kernel

disks == <<file, data, loop>>
guest == <<init, pending, volds, vold, attached>>
work == <<patched, wrapped, missed>>
vars == <<boots, opt, pc, ok, at, mounts, disks, work, handler, guest>>

NoFiles == [n \in Rec |-> "none"]

\* The parts of setup's work on which a redirected guest depends: the loop
\* devices of the records, its fstabs, and the call of vold in init.rc.
Device(n) == <<"device", n>>
Fstab(k) == <<"fstab", k>>
VoldEntry == <<"vold", 0>>

Part == {Device(n) : n \in Rec} \cup {Fstab(k) : k \in 1..NFstabs}
                                \cup {VoldEntry}

Init ==
    /\ boots = 0
    /\ opt \in Options
    /\ pc = "off"
    /\ file = NoFiles
    /\ data = {}
    /\ ok = TRUE /\ at = 1 /\ mounts = {} /\ loop = {} /\ patched = {}
    /\ init = "none" /\ wrapped = FALSE /\ missed = {} /\ handler = FALSE
    /\ pending = 0 /\ volds = 0 /\ vold = "none" /\ attached = "no"

-----------------------------------------------------------------------------
(***************************************************************************)
(* Power                                                                   *)
(***************************************************************************)
PowerOn ==
    /\ pc = "off"
    /\ boots < MaxBoots
    /\ boots' = boots + 1
    /\ opt' \in Options
    /\ pc' = "setup"
    /\ UNCHANGED <<ok, at, mounts, disks, work, handler, guest>>

\* A crash, a reboot, or the panic after the end of process 1.
PowerOff ==
    /\ pc # "off"
    /\ pc' = "off"
    /\ file' = [n \in Rec |-> IF n \in Image THEN file[n] ELSE "none"]
    /\ ok' = TRUE /\ at' = 1 /\ mounts' = {} /\ loop' = {} /\ patched' = {}
    /\ init' = "none" /\ wrapped' = FALSE /\ missed' = {} /\ handler' = FALSE
    /\ pending' = 0 /\ volds' = 0 /\ vold' = "none" /\ attached' = "no"
    /\ UNCHANGED <<boots, opt, data>>

-----------------------------------------------------------------------------
(***************************************************************************)
(* setup                                                                   *)
(***************************************************************************)
MayBreak(op) == op \in MayFail

\* do_exec: the exit status of a tool; a tool that cannot be executed counts
\* as one that has done its work, for the child then leaves with exit(0).
Outcome(op) ==
    {"done"} \cup (IF op \in MayFail THEN {"failed"} ELSE {})
             \cup (IF "notool" \in MayFail THEN {"notrun"} ELSE {})

\* rc = -1; goto unmount_procfs
Fail == ok' = FALSE /\ pc' = "unmount"

\* The private /dev and its nodes, and /proc.
SetupDev ==
    /\ pc = "setup"
    /\ \/ pc' = "cmdline" /\ mounts' = {"proc"}
       \/ MayBreak("mknod") /\ pc' = "failed" /\ UNCHANGED mounts
    /\ UNCHANGED <<boots, opt, ok, at, disks, work, handler, guest>>

\* import_kernel_cmdline.  multiboot.ums runs /init from within the parser.
ImportCmdline ==
    /\ pc = "cmdline"
    /\ \/ /\ opt.ums
          /\ mounts' = mounts \ {"proc"}
          /\ \/ init' = "untraced" /\ pc' = "replaced"
             \/ MayBreak("exec") /\ pc' = "failed" /\ UNCHANGED init
       \/ /\ ~opt.ums /\ ~opt.multiboot /\ ~opt.sndstage
          /\ pc' = "unmount"
          /\ UNCHANGED <<mounts, init>>
       \/ /\ ~opt.ums
          /\ opt.multiboot \/ opt.sndstage
          /\ mounts' = mounts \cup {"sys"}
          /\ pc' = "blocks"
          /\ UNCHANGED init
    /\ UNCHANGED <<boots, opt, ok, at, disks, work, handler, pending,
                   volds, vold, attached>>

\* Bug: /sys is left to the guest.
GetBlockDevices_sys_stays ==
    /\ pc = "blocks"
    /\ \/ pc' = "early" /\ UNCHANGED ok
       \/ MayBreak("blocks") /\ Fail
    /\ UNCHANGED <<boots, opt, at, mounts, disks, work, handler, guest>>

\* get_block_devices fails with /sys mounted; the lookup of the grub device
\* fails after it is unmounted.
GetBlockDevices ==
    /\ pc = "blocks"
    /\ \/ mounts' = mounts \ {"sys"} /\ pc' = "early" /\ UNCHANGED ok
       \/ MayBreak("blocks") /\ Fail /\ UNCHANGED mounts
       \/ opt.grub /\ MayBreak("blocks") /\ Fail /\ mounts' = mounts \ {"sys"}
    /\ UNCHANGED <<boots, opt, at, disks, work, handler, guest>>

\* ep_early_init.  Without multiboot.source there is no source partition, and
\* its mount fails.  Only the mounts are checked, patch_vold is not.
EarlyInit ==
    /\ pc = "early"
    /\ \/ /\ opt.multiboot
          /\ pc' = "load"
          /\ \/ opt.recovery /\ UNCHANGED <<wrapped, missed>>
             \/ /\ ~opt.recovery
                /\ \E o \in Outcome("sed") :
                      /\ wrapped' = (o = "done")
                      /\ missed' = IF o = "failed" THEN missed \cup {VoldEntry}
                                   ELSE missed
          /\ UNCHANGED ok
       \/ /\ ~opt.multiboot \/ MayBreak("mount")
          /\ Fail
          /\ UNCHANGED <<wrapped, missed>>
    /\ UNCHANGED <<boots, opt, at, mounts, disks, patched, handler,
                   guest>>

\* load_multiboot_fstab, find_fstab with add_fstab, and prepare_fstab.
LoadFstabs ==
    /\ pc = "load"
    /\ \/ pc' = "patch" /\ UNCHANGED ok
       \/ MayBreak("fstab") /\ Fail
    /\ UNCHANGED <<boots, opt, at, mounts, disks, work, handler, guest>>

\* Bug: an fstab that cannot be opened is passed over.
PatchFstab_go_on ==
    /\ pc = "patch"
    /\ \/ /\ opt.recovery \/ at > NFstabs
          /\ pc' = "prepare" /\ at' = 1
          /\ UNCHANGED patched
       \/ /\ ~opt.recovery /\ at <= NFstabs
          /\ at' = at + 1
          /\ \/ patched' = patched \cup {at}
             \/ MayBreak("fopen") /\ UNCHANGED patched
          /\ UNCHANGED pc
    /\ UNCHANGED <<boots, opt, ok, mounts, disks, wrapped, missed,
                   handler, guest>>

\* One round of fp_fstab_init; recovery is traced and needs no patches.
PatchFstab ==
    /\ pc = "patch"
    /\ \/ /\ opt.recovery \/ at > NFstabs
          /\ pc' = "prepare" /\ at' = 1
          /\ UNCHANGED <<ok, patched>>
       \/ /\ ~opt.recovery /\ at <= NFstabs
          /\ patched' = patched \cup {at} /\ at' = at + 1
          /\ UNCHANGED <<pc, ok>>
       \/ /\ ~opt.recovery /\ at <= NFstabs /\ MayBreak("fopen")
          /\ Fail
          /\ UNCHANGED <<patched, at>>
    /\ UNCHANGED <<boots, opt, mounts, disks, wrapped, missed, handler,
                   guest>>

-----------------------------------------------------------------------------
(***************************************************************************)
(* ep_fstab_init                                                           *)
(***************************************************************************)
\* createRawImage starts dd, or cannot start it.
CreateRawImage ==
    /\ \/ /\ file' = [file EXCEPT ![at] = "partial"]
          /\ data' = data \ {at}
          /\ pc' = "dd"
       \/ /\ "notrun" \in Outcome("dd")
          /\ pc' = "attach"
          /\ UNCHANGED <<file, data>>
    /\ UNCHANGED <<ok, at>>

\* Bug: the image is made anew on every boot.
PrepareEntry_anew ==
    /\ pc = "prepare"
    /\ \/ at \in Rec /\ CreateRawImage
       \/ /\ at > Len(Kind) /\ pc' = "unmount"
          /\ UNCHANGED <<ok, at, file, data>>
       \/ /\ at <= Len(Kind) /\ Kind[at] = "other"
          /\ at' = at + 1
          /\ UNCHANGED <<pc, ok, file, data>>
    /\ UNCHANGED <<boots, opt, mounts, loop, work, handler, guest>>

\* Bug: the multiboot flag of the record is not asked for.
PrepareEntry_all ==
    /\ pc = "prepare"
    /\ \/ at > Len(Kind) /\ pc' = "unmount" /\ UNCHANGED <<file, data>>
       \/ at \in Rec /\ CreateRawImage
       \/ /\ at \in 1..Len(Kind) \ Rec
          /\ pc' = "attach"
          /\ UNCHANGED <<file, data>>
    /\ UNCHANGED <<boots, opt, ok, at, mounts, loop, work, handler,
                   guest>>

\* Bug: only a new image gets its loop device.
PrepareEntry_unattached ==
    /\ pc = "prepare"
    /\ \/ /\ at > Len(Kind)
          /\ pc' = "unmount"
          /\ UNCHANGED <<ok, at, file, data>>
       \/ at \in Rec /\ file[at] = "none" /\ CreateRawImage
       \/ /\ at <= Len(Kind)
          /\ at \in Rec => file[at] # "none"
          /\ at' = at + 1
          /\ UNCHANGED <<pc, ok, file, data>>
    /\ UNCHANGED <<boots, opt, mounts, loop, work, handler, guest>>

\* One round up to the image file: an existing one is used as it is.  mkpath
\* makes the multiboot directory and those of the bind records.
PrepareEntry ==
    /\ pc = "prepare"
    /\ \/ /\ at > Len(Kind)
          /\ pc' = "unmount"
          /\ UNCHANGED <<ok, at, file, data>>
       \/ /\ at <= Len(Kind) /\ Kind[at] = "other"
          /\ at' = at + 1
          /\ UNCHANGED <<pc, ok, file, data>>
       \/ /\ MayBreak("mkpath")
          /\ at = 1 \/ at \in Rec \ Image
          /\ Fail
          /\ UNCHANGED <<at, file, data>>
       \/ at \in Rec /\ file[at] = "none" /\ CreateRawImage
       \/ /\ at \in Rec /\ file[at] # "none"
          /\ pc' = "attach"
          /\ UNCHANGED <<ok, at, file, data>>
    /\ UNCHANGED <<boots, opt, mounts, loop, work, handler, guest>>

\* dd ends.  Without the size of the partition it copies nothing.
Dd ==
    /\ pc = "dd"
    /\ \/ /\ file' = [file EXCEPT ![at] = "full"]
          /\ pc' = "attach"
          /\ UNCHANGED ok
       \/ MayBreak("dd") /\ Fail /\ UNCHANGED file
       \/ /\ MayBreak("blknum") /\ at \in Image
          /\ pc' = "attach"
          /\ UNCHANGED <<ok, file>>
    /\ UNCHANGED <<boots, opt, at, mounts, data, loop, work, handler,
                   guest>>

\* set_loop, whose failure is reported and no more, and the end of the round.
\* make_ext4fs fills the stub image of a bind record.
SetLoop ==
    /\ pc = "attach"
    /\ \E o \in Outcome("losetup") :
          /\ loop' = IF o = "done" /\ file[at] # "none" THEN loop \cup {at}
                     ELSE loop
          /\ missed' = IF o = "failed" THEN missed \cup {Device(at)}
                       ELSE missed
    /\ at' = at + 1
    /\ pc' = "prepare"
    /\ UNCHANGED <<boots, opt, ok, mounts, file, data, patched, wrapped,
                   handler, guest>>

\* Bug: main does not look at the result of setup.
UnmountProc_unchecked ==
    /\ pc = "unmount"
    /\ mounts' = mounts \ {"proc"}
    /\ pc' = "main"
    /\ UNCHANGED <<boots, opt, ok, at, disks, work, handler, guest>>

\* The end of setup and the check of its result in main.
UnmountProc ==
    /\ pc = "unmount"
    /\ mounts' = mounts \ {"proc"}
    /\ pc' = IF ok THEN "main" ELSE "failed"
    /\ UNCHANGED <<boots, opt, ok, at, disks, work, handler, guest>>

-----------------------------------------------------------------------------
(***************************************************************************)
(* main after setup                                                        *)
(***************************************************************************)
\* /init takes the place of the process, or the hooks are set.
Main ==
    /\ pc = "main"
    /\ \/ /\ ~opt.multiboot /\ ~opt.sndstage
          /\ \/ init' = "untraced" /\ pc' = "replaced"
             \/ MayBreak("exec") /\ pc' = "failed" /\ UNCHANGED init
       \/ /\ opt.multiboot \/ opt.sndstage
          /\ \/ pc' = "run"
             \/ MayBreak("hook") /\ pc' = "failed"
          /\ UNCHANGED init
    /\ UNCHANGED <<boots, opt, ok, at, mounts, disks, work, handler,
                   pending, volds, vold, attached>>

\* tracy_exec in recovery; a child for /init otherwise.  The result of fork
\* is not checked.
RunInit ==
    /\ pc = "run"
    /\ \/ opt.recovery /\ init' = "traced" /\ pc' = "tracing"
       \/ opt.recovery /\ MayBreak("exec") /\ pc' = "failed" /\ UNCHANGED init
       \/ ~opt.recovery /\ init' = "forked" /\ pc' = "sigaction"
       \/ /\ ~opt.recovery /\ MayBreak("fork")
          /\ pc' = "sigaction" /\ UNCHANGED init
    /\ UNCHANGED <<boots, opt, ok, at, mounts, disks, work, handler,
                   pending, volds, vold, attached>>

\* The "traceme" signal handler, set by the parent.
Sigaction ==
    /\ pc = "sigaction"
    /\ \/ pc' = "tracing" /\ handler' = TRUE
       \/ MayBreak("sigaction") /\ pc' = "failed" /\ UNCHANGED handler
    /\ UNCHANGED <<boots, opt, ok, at, mounts, disks, work, guest>>

\* Bug: the tracer waits for a child that fork has not made.
TracyExit_waits == pc = "tracing" /\ init = "none" /\ UNCHANGED vars

\* tracy_main returns when process 1 has no children, and so does main.
TracyExit ==
    /\ pc = "tracing"
    /\ init = "none"
    /\ pc' = "failed"
    /\ UNCHANGED <<boots, opt, ok, at, mounts, disks, work, handler,
                   guest>>

\* The child becomes /init, or ends.
ExecInit ==
    /\ pc # "failed"
    /\ init = "forked"
    /\ init' \in {"untraced"} \cup (IF MayBreak("exec") THEN {"none"} ELSE {})
    /\ UNCHANGED <<boots, opt, pc, ok, at, mounts, disks, work, handler,
                   pending, volds, vold, attached>>

-----------------------------------------------------------------------------
(***************************************************************************)
(* The guest and vold                                                      *)
(***************************************************************************)
InitRuns == init \in {"untraced", "traced"} /\ pc \notin {"off", "failed"}

\* The guest writes to a partition that has an image (external).
WriteImage(n) ==
    /\ InitRuns
    /\ n \in Image \cap loop
    /\ data' = data \cup {n}
    /\ UNCHANGED <<boots, opt, pc, ok, at, mounts, file, loop, work,
                   handler, guest>>

\* The guest's init starts vold, through the wrapper if init.rc says so
\* (external).
StartVold ==
    /\ InitRuns /\ init = "untraced"
    /\ pc # "replaced"
    /\ vold = "none"
    /\ volds < MaxVold
    /\ volds' = volds + 1
    /\ vold' = IF wrapped THEN "wrapper" ELSE "running"
    /\ UNCHANGED <<boots, opt, pc, ok, at, mounts, disks, work, handler,
                   init, pending, attached>>

\* kill(1, SIGUSR1) in the wrapper.  The kernel drops a signal for process 1
\* that has no handler, and one that is pending already.
KillInit ==
    /\ pc \notin {"off", "failed"}
    /\ vold = "wrapper"
    /\ vold' = "signalled"
    /\ pending' = IF handler /\ pending = 0 THEN volds ELSE pending
    /\ UNCHANGED <<boots, opt, pc, ok, at, mounts, disks, work, handler,
                   init, volds, attached>>

\* The wrapper becomes vold; if it cannot, main goes on with setup, in a
\* process that is not process 1.
ExecVold ==
    /\ pc \notin {"off", "failed"}
    /\ vold = "signalled"
    /\ vold' \in {"running"} \cup (IF MayBreak("exec") THEN {"setup"} ELSE {})
    /\ UNCHANGED <<boots, opt, pc, ok, at, mounts, disks, work, handler,
                   init, pending, volds, attached>>

\* Bug: the signal is taken and nothing is attached.
usr1_sighandler_ignored ==
    /\ pending # 0
    /\ pending' = 0
    /\ UNCHANGED <<boots, opt, pc, ok, at, mounts, disks, work, handler,
                   init, volds, vold, attached>>

\* usr1_sighandler attaches to the sender of the signal, if it still lives.
usr1_sighandler ==
    /\ pc = "tracing"
    /\ pending # 0
    /\ pending' = 0
    /\ IF pending = volds /\ vold # "none"
       THEN attached' \in {"yes"} \cup (IF MayBreak("attach") THEN {"refused"}
                                       ELSE {})
       ELSE UNCHANGED attached
    /\ UNCHANGED <<boots, opt, pc, ok, at, mounts, disks, work, handler,
                   init, volds, vold>>

VoldExit ==
    /\ pc \notin {"off", "failed"}
    /\ vold # "none"
    /\ vold' = "none"
    /\ attached' = "no"
    /\ UNCHANGED <<boots, opt, pc, ok, at, mounts, disks, work, handler,
                   init, pending, volds>>

-----------------------------------------------------------------------------
\* The steps of process 1 up to the main loop of the tracer.
Process1 ==
    \/ SetupDev \/ ImportCmdline \/ GetBlockDevices \/ EarlyInit
    \/ LoadFstabs \/ PatchFstab \/ PrepareEntry \/ Dd \/ SetLoop
    \/ UnmountProc \/ Main \/ RunInit \/ Sigaction \/ TracyExit

Vold == StartVold \/ KillInit \/ ExecVold \/ VoldExit

Next ==
    \/ PowerOn \/ PowerOff
    \/ Process1 \/ ExecInit
    \/ \E n \in Image : WriteImage(n)
    \/ Vold \/ usr1_sighandler

\* The kernel schedules process 1, its child and the wrapper, the tools
\* terminate, and a pending signal is delivered.  Nothing makes the power go or
\* vold exit.
Fairness == /\ WF_vars(Process1) /\ WF_vars(ExecInit)
            /\ WF_vars(KillInit) /\ WF_vars(usr1_sighandler)

Spec == Init /\ [][Next]_vars /\ Fairness

-----------------------------------------------------------------------------
(***************************************************************************)
(* Properties                                                              *)
(***************************************************************************)
\* Type invariant of the boot.
TypeOK ==
    /\ boots \in Nat
    /\ opt \in Option
    /\ pc \in {"off", "setup", "cmdline", "blocks", "early", "load", "patch",
               "prepare", "dd", "attach", "unmount", "main", "run",
               "sigaction", "tracing", "failed", "replaced"}
    /\ ok \in BOOLEAN
    /\ at \in Nat \ {0}
    /\ pc \in {"dd", "attach"} => at \in Rec
    /\ mounts \subseteq {"proc", "sys"}
    /\ file \in [Rec -> {"none", "partial", "full"}]
    /\ data \subseteq Image
    /\ loop \subseteq Rec
    /\ patched \subseteq 1..NFstabs
    /\ init \in {"none", "forked", "untraced", "traced"}
    /\ wrapped \in BOOLEAN
    /\ missed \subseteq Part
    /\ handler \in BOOLEAN
    /\ pending \in Nat
    /\ volds \in Nat
    /\ vold \in {"none", "wrapper", "signalled", "running", "setup"}
    /\ attached \in {"no", "yes", "refused"}

\* A multiboot guest starts on a prepared system or not at all, whatever
\* step of setup has failed: each record has its image file, and the guest
\* reads patched fstabs or is traced from its first instruction.
GuestPrepared ==
    InitRuns /\ opt.multiboot /\ ~opt.ums =>
        /\ \A n \in Rec : file[n] # "none"
        /\ IF opt.recovery THEN init = "traced" ELSE patched = 1..NFstabs

\* /init mounts /proc and /sys itself: on every way from power on to /init,
\* the parser of the command line included, setup has unmounted them.
CleanMounts == init # "none" => mounts = {}

\* A boot never overwrites an image into which an earlier guest has written,
\* not even after a boot that has failed or was cut off.
DataKept == [][data \subseteq data']_vars

\* The boot as its contract sees it: how far it is, the parts that this guest
\* needs and those that are done in this boot.
Stage ==
    CASE pc = "off"    -> "off"
      [] pc = "failed" -> "down"
      [] InitRuns      -> "guest"
      [] OTHER         -> "preparing"

Needed ==
    IF ~opt.multiboot \/ opt.ums THEN {}
    ELSE IF opt.recovery THEN {Device(n) : n \in Rec} ELSE Part

Done == {Device(n) : n \in loop} \cup {Fstab(k) : k \in patched}
                                \cup (IF wrapped THEN {VoldEntry} ELSE {})

Contract == INSTANCE BootContract
    WITH stage <- Stage, need <- Needed, done <- Done

\* multiboot_init keeps the contract of a boot.  A guest whose partitions are
\* replaced starts when each loop device, fstab and init.rc was set up in this
\* very boot, but for a losetup or a sed that has failed itself; and no step,
\* failure or loss of power takes away what a guest has written.
KeepsContract == Contract!Safety

\* Every boot comes to a decision, also where a fork or an exec fails: a guest
\* runs, or process 1 gives up, or the power goes.
BootDecides == Contract!Decides

\* A vold that signals process 1 while the handler is set gets traced, unless
\* the kernel refuses.
SignalHeeded ==
    (vold = "wrapper" /\ handler) ~> (attached # "no" \/ vold = "none")

\* A vold that runs is traced, or the signal by which it asked for that is on
\* its way to the tracer.
VoldTraced == vold = "running" => attached # "no" \/ pending = volds

\* The image of a partition that the guest uses is a copy of all of it.
ImagesComplete == InitRuns => \A n \in Image \cap loop : file[n] = "full"
=============================================================================
