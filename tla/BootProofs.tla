----------------------------- MODULE BootProofs -----------------------------
(***************************************************************************)
(* Proofs about Boot for every multiboot fstab, every set of command lines *)
(* and every set of failures.                                              *)
(***************************************************************************)
EXTENDS Boot, TLAPS

\* Image records are records, and records are indices of the fstab.
LEMMA RecFacts ==
    /\ Len(Kind) \in Nat
    /\ Rec \subseteq 1..Len(Kind)
    /\ Image \subseteq Rec
BY BootAssumption DEF Rec, Image

\* Before the first boot the types hold.
LEMMA InitType == Init => TypeOK
<1> SUFFICES ASSUME Init PROVE TypeOK
    OBVIOUS
<1>1. opt \in Option
    BY BootAssumption DEF Init
<1>2. file \in [Rec -> {"none", "partial", "full"}]
    BY DEF Init, NoFiles
<1>3. /\ ok \in BOOLEAN /\ wrapped \in BOOLEAN /\ handler \in BOOLEAN
      /\ attached \in {"no", "yes", "refused"}
    BY DEF Init
<1> QED
    BY <1>1, <1>2, <1>3 DEF Init, TypeOK

-----------------------------------------------------------------------------
(***************************************************************************)
(* Types                                                                   *)
(***************************************************************************)
\* The steps of setup, by what they leave alone.
LEMMA TypeSetup ==
    ASSUME TypeOK, Process1 \/ ExecInit
    PROVE  TypeOK'
<1>1. CASE SetupDev
    BY <1>1 DEF SetupDev, TypeOK, disks, work, guest
<1>2. CASE ImportCmdline
    <2>1. /\ init' \in {"none", "forked", "untraced", "traced"}
          /\ mounts' \subseteq {"proc", "sys"}
        BY <1>2 DEF ImportCmdline, TypeOK
    <2>2. pc' \in {"replaced", "failed", "unmount", "blocks"}
        BY <1>2 DEF ImportCmdline
    <2>3. UNCHANGED <<boots, opt, ok, at, disks, work, handler,
                      pending, volds, vold, attached>>
        BY <1>2 DEF ImportCmdline
    <2> QED
        BY <2>1, <2>2, <2>3 DEF TypeOK, disks, work
<1>3. CASE GetBlockDevices
    BY <1>3 DEF GetBlockDevices, TypeOK, disks, work, guest, Fail
<1>4. CASE EarlyInit
    <2>1. wrapped' \in BOOLEAN /\ missed' \subseteq Part
        BY <1>4 DEF EarlyInit, TypeOK, Part
    <2> QED
        BY <1>4, <2>1 DEF EarlyInit, TypeOK, disks, work, guest, Fail
<1>5. CASE LoadFstabs
    BY <1>5 DEF LoadFstabs, TypeOK, disks, work, guest, Fail
<1>6. CASE PatchFstab
    <2>1. \/ at' = 1 /\ patched' = patched
          \/ at <= NFstabs /\ at' = at + 1 /\ patched' = patched \cup {at}
          \/ at' = at /\ patched' = patched
        BY <1>6, Zenon DEF PatchFstab
    <2>2. /\ NFstabs \in Nat /\ at \in Nat \ {0}
          /\ patched \subseteq 1..NFstabs
        BY BootAssumption DEF TypeOK
    <2>3. at' \in Nat \ {0}
        BY <2>1, <2>2
    <2>6. at <= NFstabs => at \in 1..NFstabs
        BY <2>2
    <2>7. patched' \subseteq 1..NFstabs
        BY <2>1, <2>2, <2>6, Zenon
    <2>4. ok' \in BOOLEAN
        BY <1>6 DEF PatchFstab, Fail, TypeOK
    <2>5. pc' \in {"prepare", "patch", "unmount"}
        BY <1>6 DEF PatchFstab, Fail
    <2> QED
        BY <1>6, <2>3, <2>4, <2>5, <2>7 DEF PatchFstab, TypeOK, disks,
            work, guest
<1>7. CASE PrepareEntry
    <2>1. /\ file' \in [Rec -> {"none", "partial", "full"}]
          /\ data' \subseteq data
        BY <1>7 DEF PrepareEntry, CreateRawImage, TypeOK, Fail
    <2>2. at' \in {at, at + 1}
        BY <1>7 DEF PrepareEntry, CreateRawImage
    <2>3. at \in Nat \ {0}
        BY DEF TypeOK
    <2>4. at' \in Nat \ {0}
        BY <2>2, <2>3
    <2>5. ok' \in BOOLEAN
        BY <1>7 DEF PrepareEntry, CreateRawImage, Fail, TypeOK
    <2>6. \/ pc' \in {"prepare", "unmount"}
          \/ pc' \in {"dd", "attach"} /\ at \in Rec /\ at' = at
        BY <1>7, Zenon DEF PrepareEntry, CreateRawImage, Fail
    <2>7. pc' \in {"dd", "attach"} => at' \in Rec'
        BY <2>6 DEF Rec
    <2> QED
        BY <1>7, <2>1, <2>4, <2>5, <2>6, <2>7 DEF PrepareEntry, TypeOK, work,
            guest
<1>8. CASE Dd
    <2>1. file' \in [Rec -> {"none", "partial", "full"}]
        BY <1>8 DEF Dd, TypeOK
    <2> QED
        BY <1>8, <2>1 DEF Dd, TypeOK, work, guest, Fail
<1>9. CASE SetLoop
    <2>1. at' \in Nat \ {0}
        BY <1>9 DEF SetLoop, TypeOK
    <2>2. loop' \subseteq loop \cup {at}
        BY <1>9 DEF SetLoop
    <2>3. pc = "attach" => at \in Rec
        BY DEF TypeOK
    <2>4. missed' \subseteq Part
        BY <1>9, <2>3 DEF SetLoop, TypeOK, Part
    <2> QED
        BY <1>9, <2>1, <2>2, <2>3, <2>4 DEF SetLoop, TypeOK, guest
<1>10. CASE UnmountProc
    BY <1>10 DEF UnmountProc, TypeOK, disks, work, guest
<1>11. CASE Main
    BY <1>11 DEF Main, TypeOK, disks, work
<1>12. CASE RunInit
    BY <1>12 DEF RunInit, TypeOK, disks, work
<1>13. CASE Sigaction
    BY <1>13 DEF Sigaction, TypeOK, disks, work, guest
<1>14. CASE ExecInit
    BY <1>14 DEF ExecInit, TypeOK, disks, work
<1>15. CASE TracyExit
    BY <1>15 DEF TracyExit, TypeOK, disks, work, guest
<1> QED
    BY <1>1, <1>2, <1>3, <1>4, <1>5, <1>6, <1>7, <1>8, <1>9, <1>10, <1>11,
       <1>12, <1>13, <1>14, <1>15 DEF Process1

\* Power, the guest and vold.
LEMMA TypeGuest ==
    ASSUME TypeOK,
           \/ PowerOn \/ PowerOff \/ Vold \/ usr1_sighandler
           \/ \E n \in Image : WriteImage(n)
           \/ UNCHANGED vars
    PROVE  TypeOK'
<1>1. CASE PowerOn
    BY <1>1, BootAssumption DEF PowerOn, TypeOK, disks, work, guest
<1>2. CASE PowerOff
    <2>1. file' \in [Rec -> {"none", "partial", "full"}]
        BY <1>2, RecFacts DEF PowerOff, TypeOK
    <2>2. /\ ok' \in BOOLEAN /\ wrapped' \in BOOLEAN /\ handler' \in BOOLEAN
          /\ attached' \in {"no", "yes", "refused"}
        BY <1>2 DEF PowerOff
    <2>3. at' \in Nat \ {0} /\ pending' \in Nat /\ volds' \in Nat
        BY <1>2 DEF PowerOff
    <2>4. /\ boots' \in Nat /\ opt' \in Option /\ data' \subseteq Image
          /\ pc' = "off" /\ mounts' = {} /\ loop' = {} /\ patched' = {}
          /\ init' = "none" /\ vold' = "none" /\ missed' = {}
        BY <1>2 DEF PowerOff, TypeOK
    <2> QED
        BY <2>1, <2>2, <2>3, <2>4 DEF TypeOK
<1>3. CASE StartVold
    BY <1>3 DEF StartVold, TypeOK, disks, work
<1>4. CASE KillInit
    BY <1>4 DEF KillInit, TypeOK, disks, work
<1>5. CASE ExecVold
    BY <1>5 DEF ExecVold, TypeOK, disks, work
<1>6. CASE VoldExit
    BY <1>6 DEF VoldExit, TypeOK, disks, work
<1>7. CASE usr1_sighandler
    <2>1. attached' \in {"no", "yes", "refused"}
        BY <1>7 DEF usr1_sighandler, TypeOK
    <2> QED
        BY <1>7, <2>1 DEF usr1_sighandler, TypeOK, disks, work
<1>8. ASSUME NEW n \in Image, WriteImage(n)
      PROVE  TypeOK'
    BY <1>8 DEF WriteImage, TypeOK, work, guest
<1>9. CASE UNCHANGED vars
    BY <1>9 DEF vars, TypeOK, disks, work, guest
<1> QED
    BY <1>1, <1>2, <1>3, <1>4, <1>5, <1>6, <1>7, <1>8, <1>9 DEF Vold

\* One step keeps the types.
LEMMA TypeStep == TypeOK /\ [Next]_vars => TypeOK'
BY TypeSetup, TypeGuest DEF Next

\* multiboot_init and its modules keep their state well-formed: in particular
\* dd and losetup are only ever run for a record with the multiboot flag.
THEOREM BootTypeCorrect == Spec => []TypeOK
<1>1. Init => TypeOK
    BY InitType
<1>2. TypeOK /\ [Next]_vars => TypeOK'
    BY TypeStep
<1> QED
    BY <1>1, <1>2, PTL DEF Spec

-----------------------------------------------------------------------------
(***************************************************************************)
(* The data of the guests                                                  *)
(***************************************************************************)
\* A loop device with a file, and a guest's data, have an image behind them.
DiskInv == \A n \in loop \cup data : file[n] # "none"

\* Before the first boot no guest has written.
LEMMA DiskInit == Init => DiskInv
BY DEF Init, DiskInv

\* The actions that touch neither the images nor the loop devices.
LEMMA DiskOther ==
    ASSUME TypeOK, DiskInv, Next, ~PrepareEntry, ~Dd, ~SetLoop, ~PowerOff,
           \A n \in Image : ~WriteImage(n)
    PROVE  UNCHANGED disks
BY DEF Next, Process1, Vold, PowerOn, SetupDev, ImportCmdline,
       GetBlockDevices, EarlyInit, LoadFstabs, PatchFstab, UnmountProc, Main,
       RunInit, Sigaction, TracyExit, ExecInit, StartVold, KillInit, ExecVold,
       VoldExit, usr1_sighandler, disks, work

\* One step keeps the images that are in use and what guests have written.
LEMMA DiskStep ==
    ASSUME TypeOK, DiskInv, [Next]_vars
    PROVE  DiskInv' /\ data \subseteq data'
<1>1. CASE PrepareEntry
    <2>1. loop' = loop
        BY <1>1 DEF PrepareEntry
    <2>2. CASE UNCHANGED <<file, data>>
        BY <2>1, <2>2 DEF DiskInv
    <2>3. CASE /\ at \in Rec /\ file[at] = "none"
               /\ file' = [file EXCEPT ![at] = "partial"]
               /\ data' = data \ {at}
        BY <2>1, <2>3 DEF DiskInv, TypeOK
    <2> QED
        BY <1>1, <2>2, <2>3 DEF PrepareEntry, CreateRawImage
<1>2. CASE Dd
    <2>1. loop' = loop /\ data' = data
        BY <1>2 DEF Dd
    <2>2. file' = [file EXCEPT ![at] = "full"] \/ file' = file
        BY <1>2 DEF Dd
    <2>3. file \in [Rec -> {"none", "partial", "full"}]
        BY DEF TypeOK
    <2>4. loop \cup data \subseteq Rec
        BY RecFacts DEF TypeOK
    <2> QED
        BY <2>1, <2>2, <2>3, <2>4 DEF DiskInv
<1>3. CASE SetLoop
    <2>1. /\ file' = file /\ data' = data
          /\ \/ loop' = loop
             \/ loop' = loop \cup {at} /\ file[at] # "none"
        BY <1>3 DEF SetLoop
    <2> QED
        BY <2>1 DEF DiskInv
<1>4. CASE PowerOff
    BY <1>4, RecFacts DEF PowerOff, DiskInv, TypeOK
<1>5. ASSUME NEW n \in Image, WriteImage(n)
      PROVE  DiskInv' /\ data \subseteq data'
    BY <1>5 DEF WriteImage, DiskInv
<1>6. CASE UNCHANGED disks
    BY <1>6 DEF disks, work, DiskInv
<1>7. CASE UNCHANGED vars
    BY <1>6, <1>7 DEF vars
<1> QED
    BY <1>1, <1>2, <1>3, <1>4, <1>5, <1>6, <1>7, DiskOther

\* ep_fstab_init makes an image only where there is none: whatever fails, and
\* however often the power goes, no boot overwrites the data of a guest.
THEOREM DataIsKept == Spec => DataKept
<1>1. Init => TypeOK /\ DiskInv
    BY InitType, DiskInit
<1>2. TypeOK /\ DiskInv /\ [Next]_vars => (TypeOK /\ DiskInv)'
    BY TypeStep, DiskStep
<1>3. TypeOK /\ DiskInv /\ [Next]_vars => [data \subseteq data']_vars
    BY DiskStep
<1> QED
    BY <1>1, <1>2, <1>3, PTL DEF Spec, DataKept

-----------------------------------------------------------------------------
(***************************************************************************)
(* Mounts                                                                  *)
(***************************************************************************)
\* /proc is mounted until the end of setup, /sys within get_block_devices;
\* only a boot that fails keeps one of them, and it has no guest.
MountInv ==
    /\ pc \in {"off", "setup", "main", "run", "sigaction", "tracing",
               "replaced"} => mounts = {}
    /\ pc \in {"cmdline", "early", "load", "patch", "prepare", "dd", "attach"}
          => mounts \subseteq {"proc"}
    /\ pc = "unmount" /\ ok => mounts \subseteq {"proc"}
    /\ init # "none" => /\ pc \in {"replaced", "sigaction", "tracing", "failed"}
                        /\ mounts = {}

\* Before the first boot nothing is mounted.
LEMMA MountInit == Init => MountInv
BY DEF Init, MountInv

\* One step keeps the mounts where they may be.
LEMMA MountStep ==
    ASSUME TypeOK, MountInv, [Next]_vars
    PROVE  MountInv'
<1>1. CASE PowerOn
    BY <1>1 DEF PowerOn, MountInv, guest
<1>2. CASE PowerOff
    BY <1>2 DEF PowerOff, MountInv
<1>3. CASE SetupDev
    BY <1>3 DEF SetupDev, MountInv, guest
<1>4. CASE ImportCmdline
    BY <1>4 DEF ImportCmdline, MountInv
<1>5. CASE GetBlockDevices
    BY <1>5 DEF GetBlockDevices, MountInv, guest, Fail, TypeOK
<1>6. CASE EarlyInit
    BY <1>6 DEF EarlyInit, MountInv, guest, Fail
<1>7. CASE LoadFstabs
    BY <1>7 DEF LoadFstabs, MountInv, guest, Fail
<1>8. CASE PatchFstab
    <2>1. /\ pc = "patch" /\ pc' \in {"patch", "prepare", "unmount"}
          /\ UNCHANGED <<mounts, init>>
        BY <1>8 DEF PatchFstab, guest, Fail
    <2> QED
        BY <2>1 DEF MountInv
<1>9. CASE PrepareEntry
    <2>1. /\ pc = "prepare" /\ pc' \in {"prepare", "unmount", "dd", "attach"}
          /\ UNCHANGED <<mounts, init>>
        BY <1>9 DEF PrepareEntry, CreateRawImage, guest, Fail
    <2> QED
        BY <2>1 DEF MountInv
<1>10. CASE Dd
    BY <1>10 DEF Dd, MountInv, guest, Fail
<1>11. CASE SetLoop
    BY <1>11 DEF SetLoop, MountInv, guest
<1>12. CASE UnmountProc
    BY <1>12 DEF UnmountProc, MountInv, guest
<1>13. CASE Main
    BY <1>13 DEF Main, MountInv
<1>14. CASE RunInit
    BY <1>14 DEF RunInit, MountInv
<1>15. CASE Sigaction
    BY <1>15 DEF Sigaction, MountInv, guest
<1>16. CASE ExecInit \/ TracyExit
    BY <1>16 DEF ExecInit, TracyExit, MountInv, guest
<1>17. ASSUME NEW n \in Image, WriteImage(n)
       PROVE  MountInv'
    BY <1>17 DEF WriteImage, MountInv, guest
<1>18. CASE Vold \/ usr1_sighandler
    BY <1>18 DEF Vold, StartVold, KillInit, ExecVold, VoldExit,
                 usr1_sighandler, MountInv
<1>19. CASE UNCHANGED vars
    BY <1>19 DEF vars, guest, MountInv
<1> QED
    BY <1>1, <1>2, <1>3, <1>4, <1>5, <1>6, <1>7, <1>8, <1>9, <1>10, <1>11,
       <1>12, <1>13, <1>14, <1>15, <1>16, <1>17, <1>18, <1>19
       DEF Next, Process1

\* setup unmounts /proc and /sys before /init runs, on every way there.
THEOREM InitFindsCleanMounts == Spec => []CleanMounts
<1>1. Init => TypeOK /\ MountInv
    BY InitType, MountInit
<1>2. TypeOK /\ MountInv /\ [Next]_vars => (TypeOK /\ MountInv)'
    BY TypeStep, MountStep
<1>3. MountInv => CleanMounts
    BY DEF MountInv, CleanMounts
<1> QED
    BY <1>1, <1>2, <1>3, PTL DEF Spec

-----------------------------------------------------------------------------
(***************************************************************************)
(* What setup has prepared                                                 *)
(***************************************************************************)
\* The work of fp_fstab_init is done.
FstabsDone == opt.recovery \/ patched = 1..NFstabs

\* ep_fstab_init has come to record k.
FilesUpTo(k) == \A n \in Rec : n < k => file[n] # "none"

AllFiles == \A n \in Rec : file[n] # "none"

\* setup has ended well, or is about to.
SetupDone ==
    \/ pc = "unmount" /\ ok
    \/ pc \in {"main", "run", "sigaction", "tracing"}

\* Each loop of setup has done its work up to its index, and what follows it
\* is only reached with all of it done.
SetupInv ==
    /\ pc \in {"off", "setup", "cmdline", "blocks", "early", "load"} => at = 1
    /\ pc = "patch" => opt.recovery \/ 1..(at - 1) \subseteq patched
    /\ pc \in {"prepare", "dd", "attach"} => FstabsDone
    /\ pc \in {"prepare", "dd", "attach"} => FilesUpTo(at)
    /\ pc \in {"dd", "attach"} => file[at] # "none"
    /\ SetupDone /\ opt.multiboot => FstabsDone /\ AllFiles

\* What runs in place of process 1 or below it.
GuestInv ==
    /\ pc = "replaced" => opt.ums \/ ~opt.multiboot
    /\ pc = "sigaction" => ~opt.recovery
    /\ pc = "tracing" /\ opt.recovery => init = "traced"

PrepInv == TypeOK /\ MountInv /\ SetupInv /\ GuestInv

\* Before the first boot the invariant of setup holds.
LEMMA PrepInit == Init => PrepInv
<1>1. Init => SetupInv /\ GuestInv
    BY DEF Init, SetupInv, SetupDone, GuestInv
<1> QED
    BY <1>1, InitType, MountInit DEF PrepInv

\* The actions between which a boot has no guest and no other loop is running.
LEMMA SetupKept ==
    ASSUME SetupInv, UNCHANGED <<opt, pc, ok, at, file, patched>>
    PROVE  SetupInv'
BY DEF SetupInv, SetupDone, FstabsDone, FilesUpTo, AllFiles

\* A round of fp_fstab_init adds its fstab to the patched ones.
LEMMA SetupPatch ==
    ASSUME TypeOK, SetupInv, PatchFstab
    PROVE  SetupInv'
<1>1. at \in Nat \ {0} /\ NFstabs \in Nat /\ patched \subseteq 1..NFstabs
    BY BootAssumption DEF TypeOK
<1>2. Len(Kind) \in Nat /\ Rec \subseteq 1..Len(Kind)
    BY RecFacts
<1>3. CASE /\ opt.recovery \/ at > NFstabs
           /\ pc' = "prepare" /\ at' = 1
           /\ UNCHANGED <<opt, file, patched>>
    <2>1. at > NFstabs /\ 1..(at - 1) \subseteq patched => patched = 1..NFstabs
        <3>1. at > NFstabs => 1..NFstabs \subseteq 1..(at - 1)
            BY <1>1
        <3> QED
            BY <1>1, <3>1
    <2>2. FstabsDone'
        <3>1. opt.recovery \/ 1..(at - 1) \subseteq patched
            BY DEF PatchFstab, SetupInv
        <3> QED
            BY <1>3, <2>1, <3>1 DEF FstabsDone
    <2>3. FilesUpTo(at)'
        BY <1>2, <1>3 DEF FilesUpTo
    <2> QED
        BY <1>3, <2>2, <2>3 DEF SetupInv, SetupDone
<1>4. CASE /\ at <= NFstabs
           /\ patched' = patched \cup {at} /\ at' = at + 1
           /\ pc' = "patch" /\ UNCHANGED opt
    <2>1. 1..(at - 1) \subseteq patched => 1..(at' - 1) \subseteq patched'
        BY <1>1, <1>4
    <2> QED
        BY <1>4, <2>1 DEF SetupInv, SetupDone, PatchFstab
<1>5. CASE Fail
    BY <1>5 DEF Fail, SetupInv, SetupDone
<1> QED
    BY <1>3, <1>4, <1>5, Zenon DEF PatchFstab, disks, work

\* A round of ep_fstab_init finds or makes the image of its record.
LEMMA SetupPrepare ==
    ASSUME TypeOK, SetupInv, PrepareEntry, "notool" \notin MayFail
    PROVE  SetupInv'
<1>1. /\ at \in Nat \ {0}
      /\ file \in [Rec -> {"none", "partial", "full"}]
    BY DEF TypeOK
<1>2. Len(Kind) \in Nat /\ Rec \subseteq 1..Len(Kind)
    BY RecFacts
<1>3. FstabsDone' /\ FilesUpTo(at)
    BY DEF PrepareEntry, SetupInv, FstabsDone, work
<1>4. CASE at > Len(Kind) /\ pc' = "unmount" /\ UNCHANGED file
    <2>1. AllFiles'
        BY <1>1, <1>2, <1>3, <1>4 DEF AllFiles, FilesUpTo
    <2> QED
        BY <1>3, <1>4, <2>1 DEF SetupInv, SetupDone
<1>5. CASE /\ at <= Len(Kind) /\ Kind[at] = "other" /\ at' = at + 1
           /\ pc' = "prepare" /\ UNCHANGED file
    <2>1. at \notin Rec
        BY <1>5 DEF Rec
    <2>2. FilesUpTo(at)'
        BY <1>1, <1>2, <1>3, <1>5, <2>1 DEF FilesUpTo
    <2> QED
        BY <1>3, <1>5, <2>2 DEF SetupInv, SetupDone
<1>6. CASE Fail
    BY <1>6 DEF Fail, SetupInv, SetupDone
<1>7. CASE /\ at \in Rec /\ file' = [file EXCEPT ![at] = "partial"]
           /\ pc' = "dd" /\ at' = at
    <2>1. file'[at] # "none" /\ FilesUpTo(at)'
        BY <1>1, <1>3, <1>7 DEF FilesUpTo
    <2> QED
        BY <1>3, <1>7, <2>1 DEF SetupInv, SetupDone
<1>8. CASE /\ at \in Rec /\ file[at] # "none"
           /\ pc' = "attach" /\ UNCHANGED <<at, file>>
    <2>1. file'[at'] # "none" /\ FilesUpTo(at)'
        BY <1>3, <1>8 DEF FilesUpTo
    <2> QED
        BY <1>3, <1>8, <2>1 DEF SetupInv, SetupDone
<1>9. "notrun" \notin Outcome("dd")
    BY DEF Outcome
<1>10. PrepareEntry => pc = "prepare"
    BY DEF PrepareEntry
<1> QED
    BY <1>4, <1>5, <1>6, <1>7, <1>8, <1>9, <1>10, Zenon
       DEF PrepareEntry, CreateRawImage

\* dd leaves a file behind, whatever it has copied.
LEMMA SetupDd ==
    ASSUME TypeOK, SetupInv, Dd
    PROVE  SetupInv'
<1>1. /\ file \in [Rec -> {"none", "partial", "full"}] /\ at \in Rec
      /\ file[at] # "none"
    BY DEF Dd, TypeOK, SetupInv
<1>2. CASE Fail
    BY <1>2 DEF Fail, SetupInv, SetupDone
<1>3. CASE /\ pc' = "attach"
           /\ file' = [file EXCEPT ![at] = "full"] \/ UNCHANGED file
    <2>1. UNCHANGED <<opt, at, patched>> /\ FstabsDone /\ FilesUpTo(at)
        BY DEF Dd, SetupInv, work
    <2>2. file'[at] # "none" /\ FilesUpTo(at)'
        BY <1>1, <1>3, <2>1 DEF FilesUpTo
    <2> QED
        BY <1>3, <2>1, <2>2 DEF SetupInv, SetupDone, FstabsDone
<1> QED
    BY <1>2, <1>3 DEF Dd

\* The end of a round, with or without a loop device.
LEMMA SetupLoop ==
    ASSUME TypeOK, SetupInv, SetLoop
    PROVE  SetupInv'
<1>1. /\ at \in Nat \ {0} /\ pc = "attach" /\ pc' = "prepare"
      /\ at' = at + 1 /\ UNCHANGED <<opt, file, patched>>
    BY DEF SetLoop, TypeOK
<1>2. FstabsDone /\ FilesUpTo(at) /\ file[at] # "none"
    BY <1>1 DEF SetupInv, SetupDone
<1>3. Len(Kind) \in Nat /\ Rec \subseteq 1..Len(Kind)
    BY RecFacts
<1>4. FilesUpTo(at)'
    BY <1>1, <1>2, <1>3 DEF FilesUpTo
<1> QED
    BY <1>1, <1>2, <1>4 DEF SetupInv, SetupDone, FstabsDone

\* One step keeps what setup has done; this is where the tools must run.
LEMMA SetupStep ==
    ASSUME TypeOK, SetupInv, [Next]_vars, "notool" \notin MayFail
    PROVE  SetupInv'
<1>1. CASE PowerOn
    BY <1>1 DEF PowerOn, SetupInv, SetupDone
<1>2. CASE PowerOff
    BY <1>2 DEF PowerOff, SetupInv, SetupDone
<1>3. CASE SetupDev
    BY <1>3 DEF SetupDev, SetupInv, SetupDone
<1>4. CASE ImportCmdline
    BY <1>4 DEF ImportCmdline, SetupInv, SetupDone
<1>5. CASE GetBlockDevices
    BY <1>5 DEF GetBlockDevices, SetupInv, SetupDone, Fail
<1>6. CASE EarlyInit
    BY <1>6 DEF EarlyInit, SetupInv, SetupDone, Fail
<1>7. CASE LoadFstabs
    <2>1. CASE Fail
        BY <2>1 DEF Fail, SetupInv, SetupDone
    <2>2. CASE pc' = "patch" /\ at' = 1
        <3>1. 1..(at' - 1) \subseteq patched'
            BY <2>2
        <3> QED
            BY <2>2, <3>1 DEF SetupInv, SetupDone
    <2> QED
        BY <1>7, <2>1, <2>2 DEF LoadFstabs, SetupInv
<1>8. CASE PatchFstab \/ PrepareEntry \/ Dd \/ SetLoop
    BY <1>8, SetupPatch, SetupPrepare, SetupDd, SetupLoop
<1>9. CASE UnmountProc
    BY <1>9 DEF UnmountProc, SetupInv, SetupDone, FstabsDone, AllFiles, disks,
                work
<1>10. CASE Main
    BY <1>10 DEF Main, SetupInv, SetupDone, FstabsDone, AllFiles, disks,
                work
<1>11. CASE RunInit
    BY <1>11 DEF RunInit, SetupInv, SetupDone, FstabsDone, AllFiles, disks,
                work
<1>12. CASE Sigaction \/ TracyExit
    BY <1>12 DEF Sigaction, TracyExit, SetupInv, SetupDone, FstabsDone,
                 AllFiles, disks, work
<1>13. CASE \/ ExecInit \/ Vold \/ usr1_sighandler
            \/ \E n \in Image : WriteImage(n)
            \/ UNCHANGED vars
    <2>1. UNCHANGED <<opt, pc, ok, at, file, patched>>
        BY <1>13 DEF ExecInit, Vold, StartVold, KillInit, ExecVold, VoldExit,
                     usr1_sighandler, WriteImage, disks, work, vars
    <2> QED
        BY <2>1, SetupKept
<1> QED
    BY <1>1, <1>2, <1>3, <1>4, <1>5, <1>6, <1>7, <1>8, <1>9, <1>10, <1>11,
       <1>12, <1>13 DEF Next, Process1

\* One step keeps process 1 and the guest in agreement with the boot mode.
LEMMA GuestStep ==
    ASSUME MountInv, GuestInv, [Next]_vars
    PROVE  GuestInv'
<1>1. CASE ImportCmdline
    BY <1>1 DEF ImportCmdline, GuestInv
<1>2. CASE Main
    BY <1>2 DEF Main, GuestInv
<1>3. CASE RunInit
    BY <1>3 DEF RunInit, GuestInv
<1>4. CASE Sigaction
    BY <1>4 DEF Sigaction, GuestInv
<1>5. CASE ExecInit
    BY <1>5 DEF ExecInit, GuestInv
<1>6. CASE \/ Vold \/ usr1_sighandler \/ UNCHANGED vars
           \/ \E n \in Image : WriteImage(n)
    <2>1. UNCHANGED <<opt, pc, init>>
        BY <1>6 DEF Vold, StartVold, KillInit, ExecVold, VoldExit,
                    usr1_sighandler, WriteImage, vars, guest
    <2> QED
        BY <2>1 DEF GuestInv
<1>7. CASE \/ PowerOn \/ PowerOff \/ SetupDev \/ GetBlockDevices \/ EarlyInit
           \/ LoadFstabs \/ PatchFstab \/ PrepareEntry \/ Dd \/ SetLoop
           \/ UnmountProc \/ TracyExit
    <2>1. pc' \notin {"replaced", "sigaction", "tracing"}
        BY <1>7 DEF PowerOn, PowerOff, SetupDev, GetBlockDevices, EarlyInit,
                    LoadFstabs, PatchFstab, PrepareEntry, CreateRawImage, Dd,
                    SetLoop, UnmountProc, TracyExit, Fail
    <2> QED
        BY <2>1 DEF GuestInv
<1> QED
    BY <1>1, <1>2, <1>3, <1>4, <1>5, <1>6, <1>7 DEF Next, Process1

\* As long as the tools of the RAM disk can be executed, whatever else fails, a
\* multiboot guest only runs with an image file behind each record, and with
\* its fstabs patched or itself traced from the start.
THEOREM GuestIsPrepared ==
    ASSUME "notool" \notin MayFail
    PROVE  Spec => []GuestPrepared
<1>1. Init => PrepInv
    BY PrepInit
<1>2. PrepInv /\ [Next]_vars => PrepInv'
    BY TypeStep, MountStep, SetupStep, GuestStep DEF PrepInv
<1>3. PrepInv => GuestPrepared
    <2> SUFFICES ASSUME PrepInv, InitRuns, opt.multiboot, ~opt.ums
                 PROVE  /\ AllFiles
                        /\ IF opt.recovery THEN init = "traced"
                           ELSE patched = 1..NFstabs
        BY DEF GuestPrepared, AllFiles
    <2>1. pc \in {"sigaction", "tracing"}
        BY DEF PrepInv, MountInv, GuestInv, InitRuns
    <2>2. FstabsDone /\ AllFiles
        BY <2>1 DEF PrepInv, SetupInv, SetupDone
    <2>3. opt.recovery => init = "traced"
        BY <2>1 DEF PrepInv, GuestInv
    <2> QED
        BY <2>2, <2>3 DEF FstabsDone
<1> QED
    BY <1>1, <1>2, <1>3, PTL DEF Spec

-----------------------------------------------------------------------------
(***************************************************************************)
(* The contract                                                            *)
(***************************************************************************)
\* The parts are different ones.
LEMMA PartFacts ==
    /\ \A n, m \in Nat : Device(n) = Device(m) => n = m
    /\ \A n, k \in Nat : Device(n) # Fstab(k)
    /\ \A n \in Nat : Device(n) # VoldEntry /\ Fstab(n) # VoldEntry
BY DEF Device, Fstab, VoldEntry

\* Record n has had its turn in ep_fstab_init: its loop device has a file, or
\* losetup has failed.
Turn(n) == n \in loop \/ Device(n) \in missed

\* The same of patch_vold, of which recovery has no need.
VoldTurn == opt.recovery \/ wrapped \/ VoldEntry \in missed

\* Every part has its turn once, in the order of setup.
WorkInv ==
    /\ pc \in {"off", "setup", "cmdline", "blocks", "early"} =>
          ~wrapped /\ missed = {} /\ loop = {} /\ patched = {}
    /\ pc \in {"load", "patch"} => loop = {} /\ missed \subseteq {VoldEntry}
    /\ pc \in {"prepare", "dd", "attach"} => \A n \in Rec : Turn(n) <=> n < at
    /\ pc \in {"load", "patch", "prepare", "dd", "attach"} => VoldTurn
    /\ SetupDone /\ opt.multiboot => VoldTurn /\ \A n \in Rec : Turn(n)

\* What the refinement rests on: the images, what setup has prepared, and
\* what it has tried.
ContractInv == PrepInv /\ DiskInv /\ WorkInv

\* Before the first boot nothing was tried.
LEMMA WorkInit == Init => WorkInv
BY DEF Init, WorkInv, SetupDone

\* Steps that leave the parts alone and go on within setup or after it.
LEMMA WorkKept ==
    ASSUME WorkInv, UNCHANGED <<opt, pc, ok, at, loop, work>>
    PROVE  WorkInv'
BY DEF WorkInv, SetupDone, VoldTurn, Turn, work

\* The steps of setup.
LEMMA WorkSetup ==
    ASSUME TypeOK, TypeOK', SetupInv, WorkInv, "notool" \notin MayFail,
           \/ SetupDev \/ ImportCmdline \/ GetBlockDevices \/ EarlyInit
           \/ LoadFstabs \/ PatchFstab \/ PrepareEntry \/ Dd \/ SetLoop
    PROVE  WorkInv'
<1>1. /\ Len(Kind) \in Nat /\ Rec \subseteq 1..Len(Kind) /\ at \in Nat \ {0}
    BY RecFacts DEF TypeOK
<1>2. CASE SetupDev \/ ImportCmdline \/ GetBlockDevices
    <2>1. /\ pc \in {"setup", "cmdline", "blocks"}
          /\ UNCHANGED <<opt, loop, patched, wrapped, missed>>
          /\ \/ pc' \in {"cmdline", "blocks", "early", "failed", "replaced"}
             \/ pc' = "unmount" /\ (ok' = FALSE \/ ~opt.multiboot)
        <3>1. CASE SetupDev
            BY <3>1 DEF SetupDev, disks, work
        <3>2. CASE ImportCmdline
            BY <3>2 DEF ImportCmdline, disks, work
        <3>3. CASE GetBlockDevices
            BY <3>3 DEF GetBlockDevices, disks, work, Fail
        <3> QED
            BY <1>2, <3>1, <3>2, <3>3
    <2> QED
        BY <2>1 DEF WorkInv, SetupDone
<1>3. CASE EarlyInit
    <2>1. CASE Fail
        BY <2>1 DEF Fail, WorkInv, SetupDone
    <2>2. CASE /\ pc' = "load" /\ UNCHANGED <<opt, loop>>
               /\ \/ opt.recovery /\ UNCHANGED <<wrapped, missed>>
                  \/ wrapped' = TRUE /\ UNCHANGED missed
                  \/ missed' = missed \cup {VoldEntry}
        <3>1. loop = {} /\ missed = {}
            BY <1>3 DEF EarlyInit, WorkInv
        <3> QED
            BY <2>2, <3>1 DEF WorkInv, SetupDone, VoldTurn
    <2>3. Outcome("sed") \subseteq {"done", "failed"}
        BY DEF Outcome
    <2> QED
        BY <1>3, <2>1, <2>2, <2>3 DEF EarlyInit, disks
<1>4. CASE LoadFstabs
    <2>1. CASE Fail
        BY <2>1 DEF Fail, WorkInv, SetupDone
    <2> QED
        BY <1>4, <2>1 DEF LoadFstabs, WorkInv, SetupDone, VoldTurn, disks, work
<1>5. CASE PatchFstab
    <2>1. /\ pc = "patch" /\ UNCHANGED <<opt, loop, wrapped, missed>>
          /\ \/ pc' = "patch"
             \/ pc' = "prepare" /\ at' = 1
             \/ pc' = "unmount" /\ ok' = FALSE
        BY <1>5 DEF PatchFstab, disks, Fail
    <2>2. \A n \in Rec : ~Turn(n)' /\ ~(n < 1)
        BY <1>1, <2>1, PartFacts DEF WorkInv, Turn
    <2> QED
        BY <2>1, <2>2 DEF WorkInv, SetupDone, VoldTurn
<1>6. CASE PrepareEntry
    <2>1. /\ pc = "prepare" /\ UNCHANGED <<opt, loop, wrapped, missed>>
          /\ \/ pc' \in {"dd", "attach"} /\ at' = at
             \/ pc' = "prepare" /\ at' = at + 1 /\ at \notin Rec
             \/ pc' = "unmount" /\ at > Len(Kind)
             \/ pc' = "unmount" /\ ok' = FALSE
        BY <1>6 DEF PrepareEntry, CreateRawImage, work, Fail, Rec
    <2>2. /\ \A n \in Rec : Turn(n)' <=> n < at
          /\ VoldTurn'
        BY <2>1 DEF WorkInv, Turn, VoldTurn
    <2>3. at \notin Rec => \A n \in Rec : n < at <=> n < at + 1
        BY <1>1
    <2>4. at > Len(Kind) => \A n \in Rec : n < at
        BY <1>1
    <2> QED
        BY <2>1, <2>2, <2>3, <2>4 DEF WorkInv, SetupDone
<1>7. CASE Dd
    <2>1. /\ pc = "dd" /\ UNCHANGED <<opt, at, loop, wrapped, missed>>
          /\ \/ pc' = "attach"
             \/ pc' = "unmount" /\ ok' = FALSE
        BY <1>7 DEF Dd, work, Fail
    <2> QED
        BY <2>1 DEF WorkInv, SetupDone, VoldTurn, Turn
<1>8. CASE SetLoop
    <2>1. /\ pc = "attach" /\ pc' = "prepare" /\ at' = at + 1
          /\ UNCHANGED <<opt, wrapped>>
          /\ \/ loop' = loop \cup {at} /\ UNCHANGED missed
             \/ missed' = missed \cup {Device(at)} /\ UNCHANGED loop
        <3>1. file[at] # "none"
            BY <1>8 DEF SetLoop, SetupInv
        <3>2. Outcome("losetup") \subseteq {"done", "failed"}
            BY DEF Outcome
        <3> QED
            BY <1>8, <3>1, <3>2 DEF SetLoop
    <2>2. ASSUME NEW n \in Rec PROVE Turn(n)' <=> (Turn(n) \/ n = at)
        BY <1>1, <2>1, PartFacts DEF Turn
    <2>3. \A n \in Rec : Turn(n)' <=> n < at'
        BY <1>1, <2>1, <2>2 DEF WorkInv
    <2>4. VoldTurn'
        BY <2>1 DEF WorkInv, VoldTurn
    <2> QED
        BY <2>1, <2>3, <2>4 DEF WorkInv, SetupDone
<1> QED
    BY <1>2, <1>3, <1>4, <1>5, <1>6, <1>7, <1>8

\* One step keeps the turns.
LEMMA WorkStep ==
    ASSUME TypeOK, TypeOK', SetupInv, WorkInv, "notool" \notin MayFail,
           [Next]_vars
    PROVE  WorkInv'
<1>1. CASE PowerOn
    BY <1>1 DEF PowerOn, WorkInv, SetupDone, disks, work
<1>2. CASE PowerOff
    BY <1>2 DEF PowerOff, WorkInv, SetupDone
<1>3. CASE UnmountProc \/ Main \/ RunInit \/ Sigaction \/ TracyExit
    <2>1. /\ UNCHANGED <<opt, loop, wrapped, missed>>
          /\ \/ pc' \in {"failed", "replaced"}
             \/ SetupDone /\ pc' \in {"main", "run", "sigaction", "tracing"}
        BY <1>3 DEF UnmountProc, Main, RunInit, Sigaction, TracyExit, disks,
                work, SetupDone
    <2> QED
        BY <2>1 DEF WorkInv, SetupDone, VoldTurn, Turn
<1>4. CASE \/ ExecInit \/ Vold \/ usr1_sighandler
           \/ \E n \in Image : WriteImage(n)
           \/ UNCHANGED vars
    <2>1. UNCHANGED <<opt, pc, ok, at, loop, work>>
        BY <1>4 DEF ExecInit, Vold, StartVold, KillInit, ExecVold, VoldExit,
                    usr1_sighandler, WriteImage, disks, vars
    <2> QED
        BY <2>1, WorkKept
<1> QED
    BY <1>1, <1>2, <1>3, <1>4, WorkSetup DEF Next, Process1

\* Where the contract's boot is, read off pc and init.
LEMMA StageFacts ==
    ASSUME MountInv
    PROVE  /\ pc = "off" => Stage = "off"
           /\ pc = "failed" => Stage = "down"
           /\ pc \notin {"off", "failed"} =>
                 Stage = IF init \in {"untraced", "traced"} THEN "guest"
                         ELSE "preparing"
BY DEF Stage, InitRuns, MountInv

\* Only the guest changes the data; an image is only made anew where no guest
\* has written.
LEMMA DataSteps ==
    ASSUME TypeOK, DiskInv, Next, \A n \in Image : ~WriteImage(n)
    PROVE  data' = data
<1>1. CASE PrepareEntry
    <2>1. file[at] = "none" => at \notin data
        BY DEF DiskInv
    <2> QED
        BY <1>1, <2>1 DEF PrepareEntry, CreateRawImage
<1>2. CASE Dd \/ SetLoop \/ PowerOff
    BY <1>2 DEF Dd, SetLoop, PowerOff
<1> QED
    BY <1>1, <1>2, DiskOther DEF disks

\* A step of setup sets up one part, misses one, or does neither.
LEMMA PartSteps ==
    ASSUME ContractInv, ContractInv', "notool" \notin MayFail,
           \/ SetupDev \/ GetBlockDevices \/ EarlyInit \/ LoadFstabs
           \/ PatchFstab \/ PrepareEntry \/ Dd \/ SetLoop \/ UnmountProc
    PROVE  \/ UNCHANGED <<Done, missed>>
           \/ /\ pc' # "failed"
              /\ \E p \in Part :
                    \/ /\ p \notin missed
                       /\ Done' = Done \cup {p} /\ missed' = missed
                    \/ /\ p \notin Done
                       /\ missed' = missed \cup {p} /\ Done' = Done
<1>1. /\ TypeOK /\ SetupInv /\ WorkInv /\ Rec \subseteq Nat
      /\ Part = {Device(n) : n \in Rec} \cup {Fstab(k) : k \in 1..NFstabs}
                                        \cup {VoldEntry}
      /\ loop \subseteq Rec /\ patched \subseteq Nat
    BY RecFacts DEF ContractInv, PrepInv, TypeOK, Part
<1>2. CASE \/ SetupDev \/ GetBlockDevices \/ LoadFstabs \/ PrepareEntry \/ Dd
           \/ UnmountProc
    <2>1. UNCHANGED <<loop, patched, wrapped, missed>>
        BY <1>2 DEF SetupDev, GetBlockDevices, LoadFstabs, PrepareEntry,
                CreateRawImage, Dd, UnmountProc, disks, work
    <2> QED
        BY <2>1 DEF Done
<1>3. CASE EarlyInit
    <2>1. /\ UNCHANGED <<loop, patched>> /\ pc' # "failed"
          /\ ~wrapped /\ missed = {} /\ loop = {} /\ patched = {}
        BY <1>1, <1>3 DEF EarlyInit, disks, WorkInv, Fail
    <2>2. Done = {} /\ VoldEntry \in Part
        BY <1>1, <2>1 DEF Done
    <2>3. Done' = IF wrapped' THEN {VoldEntry} ELSE {}
        BY <2>1 DEF Done
    <2>4. \/ UNCHANGED <<wrapped, missed>>
          \/ wrapped' = TRUE /\ missed' = missed
          \/ wrapped' = FALSE /\ missed' = missed \cup {VoldEntry}
        <3>1. Outcome("sed") \subseteq {"done", "failed"}
            BY DEF Outcome
        <3> QED
            BY <1>3, <3>1 DEF EarlyInit
    <2> QED
        BY <2>1, <2>2, <2>3, <2>4
<1>4. CASE PatchFstab
    <2>1. /\ UNCHANGED <<loop, wrapped, missed>> /\ pc' # "failed"
          /\ missed \subseteq {VoldEntry}
          /\ \/ patched' = patched
             \/ patched' = patched \cup {at} /\ at <= NFstabs
        BY <1>1, <1>4 DEF PatchFstab, disks, WorkInv, Fail
    <2>2. CASE patched' = patched
        BY <2>1, <2>2 DEF Done
    <2>3. CASE patched' = patched \cup {at} /\ at <= NFstabs
        <3>1. at \in Nat /\ Fstab(at) \in Part
            BY <1>1, <2>3, BootAssumption DEF TypeOK
        <3>2. Done' = Done \cup {Fstab(at)}
            BY <2>1, <2>3 DEF Done
        <3>3. Fstab(at) \notin missed
            BY <2>1, <3>1, PartFacts
        <3> QED
            BY <2>1, <3>1, <3>2, <3>3
    <2> QED
        BY <2>1, <2>2, <2>3
<1>5. CASE SetLoop
    <2>1. /\ UNCHANGED <<patched, wrapped>> /\ pc' # "failed" /\ at \in Rec
          /\ ~Turn(at)
          /\ \/ UNCHANGED <<loop, missed>>
             \/ loop' = loop \cup {at} /\ UNCHANGED missed
             \/ missed' = missed \cup {Device(at)} /\ UNCHANGED loop
        BY <1>1, <1>5 DEF SetLoop, TypeOK, WorkInv
    <2>2. Device(at) \in Part
        BY <1>1, <2>1
    <2>3. Device(at) \notin Done /\ Device(at) \notin missed
        BY <1>1, <2>1, PartFacts DEF Done, Turn
    <2>4. CASE UNCHANGED <<loop, missed>>
        BY <2>1, <2>4 DEF Done
    <2>5. CASE loop' = loop \cup {at} /\ UNCHANGED missed
        <3>1. Done' = Done \cup {Device(at)}
            BY <2>1, <2>5 DEF Done
        <3> QED
            BY <2>1, <2>2, <2>3, <2>5, <3>1
    <2>6. CASE missed' = missed \cup {Device(at)} /\ UNCHANGED loop
        <3>1. Done' = Done
            BY <2>1, <2>6 DEF Done
        <3> QED
            BY <2>1, <2>2, <2>3, <2>6, <3>1
    <2> QED
        BY <2>1, <2>4, <2>5, <2>6
<1> QED
    BY <1>2, <1>3, <1>4, <1>5

\* The steps by which setup prepares: the contract sets up or misses a part,
\* gives up, or nothing it knows of happens.
LEMMA ContractSetup ==
    ASSUME ContractInv, ContractInv', "notool" \notin MayFail,
           \/ SetupDev \/ GetBlockDevices \/ EarlyInit \/ LoadFstabs
           \/ PatchFstab \/ PrepareEntry \/ Dd \/ SetLoop \/ UnmountProc
    PROVE  [Contract!Next]_Contract!vars
<1>1. /\ pc \notin {"off", "failed"} /\ pc' # "off"
      /\ opt' = opt /\ init' = init
    BY DEF SetupDev, GetBlockDevices, EarlyInit, LoadFstabs, PatchFstab,
           PrepareEntry, CreateRawImage, Dd, SetLoop, UnmountProc, guest, Fail
<1>2. init = "none"
    BY DEF SetupDev, GetBlockDevices, EarlyInit, LoadFstabs, PatchFstab,
           PrepareEntry, Dd, SetLoop, UnmountProc, ContractInv, PrepInv,
           MountInv
<1>3. /\ Stage = "preparing"
      /\ Stage' = IF pc' = "failed" THEN "down" ELSE "preparing"
    <2>1. MountInv /\ MountInv'
        BY DEF ContractInv, PrepInv
    <2>2. Stage = "preparing"
        BY <1>1, <1>2, <2>1, StageFacts
    <2>3. Stage' = IF pc' = "failed" THEN "down" ELSE "preparing"
        BY <1>1, <1>2, <2>1 DEF Stage, InitRuns
    <2> QED
        BY <2>2, <2>3
<1>4. Needed' = Needed
    BY <1>1 DEF Needed
<1>5. data' = data
    <2>1. \A n \in Image : ~WriteImage(n)
        BY <1>2 DEF WriteImage, InitRuns
    <2> QED
        BY <2>1, DataSteps DEF Next, Process1, ContractInv, PrepInv
<1> QED
    BY <1>3, <1>4, <1>5, PartSteps
       DEF Contract!Next, Contract!vars, Contract!SetUp, Contract!Miss,
           Contract!GiveUp

\* What a guest needs was tried when setup has ended well.
LEMMA NeededTried ==
    ASSUME ContractInv, SetupDone
    PROVE  Needed \subseteq Done \cup missed
<1> SUFFICES ASSUME opt.multiboot, NEW p \in Needed
             PROVE  p \in Done \cup missed
    BY DEF Needed
<1>1. /\ FstabsDone /\ VoldTurn /\ \A n \in Rec : Turn(n)
    BY DEF ContractInv, PrepInv, SetupInv, WorkInv
<1>2. \/ \E n \in Rec : p = Device(n)
      \/ ~opt.recovery /\ \E k \in 1..NFstabs : p = Fstab(k)
      \/ ~opt.recovery /\ p = VoldEntry
    BY DEF Needed, Part
<1>3. ASSUME NEW n \in Rec, p = Device(n) PROVE p \in Done \cup missed
    BY <1>1, <1>3 DEF Turn, Done
<1>4. ASSUME ~opt.recovery, NEW k \in 1..NFstabs, p = Fstab(k)
      PROVE  p \in Done \cup missed
    BY <1>1, <1>4 DEF FstabsDone, Done
<1>5. ASSUME ~opt.recovery, p = VoldEntry PROVE p \in Done \cup missed
    BY <1>1, <1>5 DEF VoldTurn, Done
<1> QED
    BY <1>2, <1>3, <1>4, <1>5

\* The steps by which a guest starts, or process 1 ends.
LEMMA ContractMain ==
    ASSUME ContractInv, ContractInv',
           \/ ImportCmdline \/ Main \/ RunInit \/ Sigaction \/ TracyExit
           \/ ExecInit
    PROVE  [Contract!Next]_Contract!vars
<1>1. /\ pc \notin {"off", "failed"} /\ pc' # "off"
      /\ UNCHANGED <<opt, loop, patched, wrapped, missed, data>>
    BY DEF ImportCmdline, Main, RunInit, Sigaction, TracyExit, ExecInit, disks,
           work, ContractInv, PrepInv, MountInv
<1>2. Needed' = Needed /\ Done' = Done
    BY <1>1 DEF Needed, Done
<1>3. MountInv /\ MountInv'
    BY DEF ContractInv, PrepInv
<1>4. Stage = IF init \in {"untraced", "traced"} THEN "guest" ELSE "preparing"
    BY <1>1, <1>3, StageFacts
<1>5. Stage' = IF pc' = "failed" THEN "down"
               ELSE IF init' \in {"untraced", "traced"} THEN "guest"
               ELSE "preparing"
    BY <1>1 DEF Stage, InitRuns
<1>6. \/ init' = init
      \/ init = "none" /\ init' = "forked"
      \/ init = "forked" /\ init' = "none"
      \/ /\ init \in {"none", "forked"}
         /\ init' \in {"untraced", "traced"}
         /\ Needed \subseteq Done \cup missed
    <2>1. opt.ums \/ ~opt.multiboot => Needed \subseteq Done \cup missed
        BY DEF Needed
    <2>2. pc \in {"run", "sigaction", "tracing"}
             => Needed \subseteq Done \cup missed
        BY NeededTried DEF SetupDone
    <2>3. CASE ImportCmdline
        BY <2>1, <2>3 DEF ImportCmdline, ContractInv, PrepInv, MountInv
    <2>4. CASE Main
        BY <2>1, <2>4 DEF Main, ContractInv, PrepInv, MountInv
    <2>5. CASE RunInit
        BY <2>2, <2>5 DEF RunInit, ContractInv, PrepInv, MountInv
    <2>6. CASE Sigaction \/ TracyExit
        BY <2>6 DEF Sigaction, TracyExit, guest
    <2>7. CASE ExecInit
        <3>1. pc \in {"replaced", "sigaction", "tracing"}
            BY <2>7 DEF ExecInit, ContractInv, PrepInv, MountInv
        <3>2. pc = "replaced" => opt.ums \/ ~opt.multiboot
            BY DEF ContractInv, PrepInv, GuestInv
        <3> QED
            BY <2>1, <2>2, <2>7, <3>1, <3>2 DEF ExecInit
    <2> QED
        BY <2>3, <2>4, <2>5, <2>6, <2>7
<1>7. pc' = "failed" => init' = init
    BY <1>1 DEF ImportCmdline, Main, RunInit, Sigaction, TracyExit, ExecInit,
                guest
<1> QED
    BY <1>1, <1>2, <1>4, <1>5, <1>6, <1>7
       DEF Contract!Next, Contract!vars, Contract!HandOver, Contract!GiveUp

\* Every step of the boot is a step of its contract, or none.
LEMMA ContractStep ==
    ASSUME ContractInv, ContractInv', "notool" \notin MayFail, [Next]_vars
    PROVE  [Contract!Next]_Contract!vars
<1>1. CASE PowerOn
    <2>1. /\ Stage = "off" /\ Stage' = "preparing"
          /\ UNCHANGED <<loop, patched, wrapped, missed, data>>
        BY <1>1 DEF PowerOn, Stage, InitRuns, disks, work, guest, ContractInv,
                    PrepInv, MountInv
    <2>2. Done' = Done /\ Needed' \in SUBSET Part
        BY <2>1 DEF Done, Needed, Part
    <2> QED
        BY <2>1, <2>2 DEF Contract!Next, Contract!SwitchOn
<1>2. CASE PowerOff
    <2>1. /\ Stage # "off" /\ Stage' = "off" /\ UNCHANGED <<opt, data>>
          /\ loop' = {} /\ patched' = {} /\ ~wrapped' /\ missed' = {}
        BY <1>2 DEF PowerOff, Stage, InitRuns
    <2>2. Done' = {} /\ Needed' = Needed
        BY <2>1 DEF Done, Needed
    <2> QED
        BY <2>1, <2>2 DEF Contract!Next, Contract!SwitchOff
<1>3. ASSUME NEW n \in Image, WriteImage(n)
      PROVE  [Contract!Next]_Contract!vars
    <2>1. /\ Stage = "guest" /\ Stage' = Stage /\ UNCHANGED missed
          /\ Needed' = Needed /\ Done' = Done
        BY <1>3 DEF WriteImage, Stage, InitRuns, Needed, Done, work, guest
    <2> QED
        BY <1>3, <2>1 DEF WriteImage, Contract!Next, Contract!Write
<1>4. CASE Vold \/ usr1_sighandler \/ UNCHANGED vars
    <2>1. UNCHANGED <<opt, pc, init, loop, work, data>>
        BY <1>4 DEF Vold, StartVold, KillInit, ExecVold, VoldExit,
                    usr1_sighandler, vars, disks, guest
    <2>2. /\ Stage' = Stage /\ Needed' = Needed /\ Done' = Done
          /\ missed' = missed
        BY <2>1 DEF Stage, InitRuns, Needed, Done, work
    <2> QED
        BY <2>1, <2>2 DEF Contract!vars
<1> QED
    BY <1>1, <1>2, <1>3, <1>4, ContractSetup, ContractMain DEF Next, Process1

\* multiboot_init, with whatever fails and whenever the power goes, implements
\* the contract of a boot, as long as its tools can be executed: a guest that
\* is to be redirected starts when every loop device, fstab and init.rc was
\* set up in the same boot, but for those whose own losetup or sed has failed.
THEOREM BootKeepsContract ==
    ASSUME "notool" \notin MayFail
    PROVE  Spec => KeepsContract
<1>1. Init => ContractInv
    BY PrepInit, DiskInit, WorkInit DEF ContractInv
<1>2. ContractInv /\ [Next]_vars => ContractInv'
    BY TypeStep, MountStep, SetupStep, GuestStep, DiskStep, WorkStep
       DEF ContractInv, PrepInv
<1>3. Init => Contract!Init
    <2> SUFFICES ASSUME Init PROVE Contract!Init
        OBVIOUS
    <2>1. Stage = "off" /\ Done = {} /\ missed = {} /\ data = {}
        BY DEF Init, Stage, Done, InitRuns
    <2>2. Needed \in SUBSET Part
        BY DEF Needed, Part
    <2> QED
        BY <2>1, <2>2 DEF Contract!Init
<1>4. ContractInv /\ ContractInv' /\ [Next]_vars
          => [Contract!Next]_Contract!vars
    BY ContractStep
<1> QED
    BY <1>1, <1>2, <1>3, <1>4, PTL DEF Spec, KeepsContract, Contract!Safety
=============================================================================
