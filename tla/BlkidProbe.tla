----------------------------- MODULE BlkidProbe -----------------------------
(***************************************************************************)
(* Probing a device for signatures (libblkid: probe.c, superblocks.c,      *)
(* topology.c, partitions.c), on which get_fstype of util.c relies: three  *)
(* chains of probers, and the calls that walk along them.  A client makes  *)
(* any sequence of calls; one step is a round of a loop.                   *)
(*                                                                         *)
(* What a prober finds at one of its magic strings is part of the device:  *)
(* "none", a "good" signature, a "bad" one that the probing function       *)
(* refuses, or a failing read of the magic ("unreadable") or of the rest   *)
(* ("failing").                                                            *)
(***************************************************************************)
EXTENDS Naturals, Sequences, FiniteSets

CONSTANTS
    Probers,     \* Probers[c]: idinfos of chain c, in order
    Devices,     \* what blkid_probe_set_device can be given
    Disks,       \* what the first device can hold
    Others,      \* other devices, with what they hold
    Filters,     \* the sets of superblock probers that a filter leaves out
    Enabled,     \* the chains that the client enables at first
    Toggled,     \* and those that it enables or disables later
    InvertLate,  \* a filter can be inverted while its chain is being probed
    MayFail,     \* "write": writing to the device can fail
    MaxCalls     \* bounds the calls of the client

SUBLKS == 0     \* BLKID_CHAIN_SUBLKS
TOPLGY == 1     \* BLKID_CHAIN_TOPLGY
PARTS  == 2     \* BLKID_CHAIN_PARTS
Chains == {SUBLKS, TOPLGY, PARTS}

NoChain == 3    \* NULL as a struct blkid_chain *

\* struct blkid_idinfo.  `wipes` says that the probing function calls
\* blkid_probe_set_wiper, `inwiped` that it finds its signature in the area
\* that such a prober's tool has wiped.
Prober(name, usage, tolerant, minsz, wipes, inwiped) ==
    [name |-> name, usage |-> usage, tolerant |-> tolerant, minsz |-> minsz,
     wipes |-> wipes, inwiped |-> inwiped]

\* A device: its size (0: up to 1024 bytes, 1: up to 1440 KiB, 2: more), and
\* whether it is a block device, a CD, or private to LVM.
Device(size, blk, cdrom, private) ==
    [size |-> size, blk |-> blk, cdrom |-> cdrom, private |-> private]

N(c) == Len(Probers[c])

States == {"none", "good", "bad", "unreadable", "failing"}

IsContent(d) ==
    /\ d \in [Chains -> Seq(Seq(States))]
    /\ \A c \in Chains : Len(d[c]) = N(c)

\* Only superblock probers set a wiper.
ASSUME BlkidAssumption ==
    /\ \A c \in Chains : N(c) \in Nat
    /\ \A c \in {TOPLGY, PARTS} : \A i \in 1..N(c) : ~Probers[c][i].wipes
    /\ \A d \in Devices : d.private \in BOOLEAN
    /\ \A d \in Disks : IsContent(d)
    /\ \A o \in Others : IsContent(o.disk) /\ o.dev.private \in BOOLEAN
    /\ \A S \in Filters : S \subseteq 1..N(SUBLKS)
    /\ Toggled \subseteq Chains

VARIABLES
    dev,       \* the device of the probe
    disk,      \* disk[c][i][k]: what prober i of c finds at its k-th magic
    noscan,    \* BLKID_FL_NOSCAN_DEV
    enabled,   \* the chains' enabled
    fltr,      \* the probers that the chains' filters leave out
    idx,       \* the chains' idx, plus one
    cur,       \* cur_chain
    vals,      \* the values of the probing result, in whatever order
    wiper,     \* wipe_chain
    ignorept,  \* BLKID_PROBE_FL_IGNORE_PT
    pc,        \* where the call under way is, "idle" between calls
    api,       \* the last call: "probe", "safe", "full" or another
    rc,        \* the return code of a chain's probe, and of the last call
    count,     \* the chains of a full or safe probe with a result
    safe,      \* the locals of superblocks_safeprobe
    calls,     \* calls made so far
    seen       \* seen[c]: the signatures reported since idx was reset

probe == <<dev, disk, noscan, enabled, fltr>>
locals == <<count, safe>>
vars == <<probe, idx, cur, vals, wiper, ignorept, pc, api, rc, locals, calls,
          seen>>

\* struct blkid_prval: the prober that has set the value, and for which magic.
Value(name, c, i, k) == [name |-> name, chain |-> c, by |-> i, copy |-> k]

Locals == [count |-> 0, intol |-> 0, idx |-> 0, vals |-> {}]

Init ==
    /\ dev \in Devices /\ disk \in Disks
    /\ noscan = dev.private
    /\ \E E \in Enabled : enabled = [c \in Chains |-> c \in E]
    /\ fltr = [c \in Chains |-> {}]
    /\ idx = [c \in Chains |-> 0]
    /\ cur = NoChain
    /\ vals = {}
    /\ wiper = NoChain /\ ignorept = FALSE
    /\ pc = "idle" /\ api = "set_device" /\ rc = "ok"
    /\ count = 0 /\ safe = Locals
    /\ calls = 0
    /\ seen = [c \in Chains |-> {}]

-----------------------------------------------------------------------------
(***************************************************************************)
(* Values, positions and signatures                                        *)
(***************************************************************************)
\* blkid_probe_chain_reset_vals.
Without(vs, c) == {v \in vs : v.chain # c}

\* blkid_probe_chain_copy_vals.
Only(vs, c) == {v \in vs : v.chain = c}

ResetPosition(c) ==
    /\ idx' = [idx EXCEPT ![c] = 0]
    /\ seen' = [seen EXCEPT ![c] = {}]

\* blkid_probe_start and blkid_probe_end.
StartOrEnd == cur' = NoChain /\ ignorept' = FALSE /\ wiper' = NoChain

Tiny == dev.size <= 1

\* The conditions under which superblocks_probe, idinfo_probe and the filter
\* pass a prober over.
Skipped(c, i) ==
    LET id == Probers[c][i] IN
    \/ i \in fltr[c]
    \/ id.minsz > dev.size
    \/ c = SUBLKS /\ \/ dev.size = 0
                     \/ dev.cdrom /\ id.usage \in {"raid", "other"}
                     \/ Tiny /\ id.usage = "raid"

\* blkid_probe_get_idmag: the first magic that is there, 0 for none.
Magic(c, i) ==
    LET S == {k \in 1..Len(disk[c][i]) : disk[c][i][k] # "none"}
    IN  IF S = {} THEN 0 ELSE CHOOSE k \in S : \A j \in S : k <= j

\* What probing with prober i comes to.
State(c, i) ==
    IF Skipped(c, i) \/ Magic(c, i) = 0 THEN "none"
    ELSE disk[c][i][Magic(c, i)]

Good(c) == {i \in 1..N(c) : State(c, i) = "good"}

\* The values that prober i and its chain set.
Names(c) ==
    IF c = SUBLKS THEN {"UUID", "TYPE", "SBMAGIC"}
    ELSE IF c = PARTS THEN {"PTMAGIC", "PTTYPE"}
    ELSE {"MINIMUM_IO_SIZE"}

Values(c, i) == {Value(name, c, i, Magic(c, i)) : name \in Names(c)}

\* Superblock probers may set an identifier before they refuse.
Attempted(vs, i) == vs \cup {Value("UUID", SUBLKS, i, Magic(SUBLKS, i))}

\* Bug: the values of a refused signature stay.
Refused_kept(vs, c, i) == IF c = SUBLKS THEN Attempted(vs, i) ELSE vs

Refused(vs, c, i) ==
    IF c = SUBLKS THEN Without(Attempted(vs, i), c) ELSE vs

-----------------------------------------------------------------------------
(***************************************************************************)
(* The client                                                              *)
(***************************************************************************)
Call(name) ==
    /\ pc = "idle" /\ calls < MaxCalls
    /\ calls' = calls + 1
    /\ api' = name

\* blkid_probe_enable_superblocks and the like, between two scans.
Enable(c) ==
    /\ Call("enable") /\ cur = NoChain
    /\ enabled' = [enabled EXCEPT ![c] = ~@]
    /\ rc' = "ok"
    /\ UNCHANGED <<dev, disk, noscan, fltr, idx, cur, vals, wiper, ignorept,
                   pc, locals, seen>>

\* blkid_probe_filter_superblocks_type.
FilterSuperblocks(S) ==
    /\ Call("filter")
    /\ fltr' = [fltr EXCEPT ![SUBLKS] = S]
    /\ ResetPosition(SUBLKS)
    /\ cur' = NoChain
    /\ rc' = "ok"
    /\ UNCHANGED <<dev, disk, noscan, enabled, vals, wiper, ignorept, pc,
                   locals>>

\* __blkid_probe_invert_filter leaves the position as it is.
InvertSuperblocksFilter ==
    /\ Call("filter") /\ fltr[SUBLKS] # {}
    /\ InvertLate \/ idx[SUBLKS] = 0
    /\ fltr' = [fltr EXCEPT ![SUBLKS] = (1..N(SUBLKS)) \ @]
    /\ rc' = "ok"
    /\ UNCHANGED <<dev, disk, noscan, enabled, idx, cur, vals, wiper, ignorept,
                   pc, locals, seen>>

ResetProbe ==
    /\ vals' = {}
    /\ cur' = NoChain /\ wiper' = NoChain
    /\ idx' = [c \in Chains |-> 0]
    /\ seen' = [c \in Chains |-> {}]

blkid_reset_probe ==
    /\ Call("reset") /\ ResetProbe
    /\ rc' = "ok"
    /\ UNCHANGED <<probe, ignorept, pc, locals>>

\* blkid_probe_set_device for another device.  The flag of a device that is not
\* to be scanned is set and never cleared.
blkid_probe_set_device(d, content) ==
    /\ Call("set_device")
    /\ ResetProbe
    /\ dev' = d /\ disk' = content
    /\ noscan' = (noscan \/ d.private)
    /\ ignorept' = FALSE
    /\ rc' = "ok"
    /\ UNCHANGED <<enabled, fltr, pc, locals>>

\* Bug: the position stays.
StepBack_stays ==
    /\ UNCHANGED idx
    /\ UNCHANGED cur

\* Bug: the first chain has a previous one, too.
StepBack_underflow ==
    LET i == IF idx[cur] > 0 THEN idx[cur] - 1 ELSE 0
    IN  /\ idx' = [idx EXCEPT ![cur] = i]
        /\ cur' = IF i > 0 THEN cur ELSE cur - 1

\* blkid_probe_step_back.
StepBack ==
    LET i == IF idx[cur] > 0 THEN idx[cur] - 1 ELSE 0
    IN  /\ idx' = [idx EXCEPT ![cur] = i]
        /\ cur' = IF i > 0 THEN cur
                  ELSE IF cur = PARTS THEN TOPLGY ELSE NoChain

\* blkid_do_wipe, with the flags that make the probers tell their magics.
blkid_do_wipe ==
    LET S == {v \in vals : v.chain = cur /\ v.name \in {"SBMAGIC", "PTMAGIC"}}
    IN
    /\ Call("wipe") /\ cur # NoChain
    /\ \/ /\ S # {}
          /\ \E v \in S : disk' = [disk EXCEPT ![v.chain][v.by][v.copy] = "none"]
          /\ StepBack
          /\ rc' = "ok"
       \/ /\ S # {} /\ "write" \in MayFail
          /\ rc' = "err"
          /\ UNCHANGED <<disk, idx, cur>>
       \/ /\ S = {}
          /\ rc' = "ok"
          /\ UNCHANGED <<disk, idx, cur>>
    /\ UNCHANGED <<dev, noscan, enabled, fltr, vals, wiper, ignorept, pc,
                   locals, seen>>

Return(r) == pc' = "idle" /\ rc' = r

\* blkid_do_probe goes on from cur_chain.
blkid_do_probe ==
    /\ Call("probe")
    /\ rc' = "none"
    /\ pc' = IF noscan THEN "idle" ELSE "head"
    /\ UNCHANGED <<probe, idx, cur, vals, wiper, ignorept, locals, seen>>

\* blkid_do_safeprobe and blkid_do_fullprobe start from the first chain.
blkid_do_allprobe(name) ==
    /\ Call(name)
    /\ rc' = "none"
    /\ \/ /\ noscan
          /\ UNCHANGED <<cur, wiper, ignorept, pc, count>>
       \/ /\ ~noscan
          /\ cur' = SUBLKS /\ wiper' = NoChain /\ ignorept' = FALSE
          /\ pc' = "head" /\ count' = 0
    /\ UNCHANGED <<probe, idx, vals, safe, seen>>

-----------------------------------------------------------------------------
(***************************************************************************)
(* The loops of the calls over the chains                                  *)
(***************************************************************************)
\* Bug: a chain that has bailed out at the start is not left.
ChainDone_scanned(c) == ~enabled[c] \/ idx[c] = N(c)

ChainDone(c) == ~enabled[c] \/ idx[c] = N(c) \/ idx[c] = 0

\* The head of blkid_do_probe's loop.  Nothing in its chain so far (rc), it
\* goes to the next one.
ProbeHead ==
    LET next == IF cur = NoChain THEN SUBLKS
                ELSE IF rc = "none" /\ ChainDone(cur) THEN cur + 1 ELSE cur
    IN
    /\ pc = "head" /\ api = "probe"
    /\ \/ /\ next = NoChain
          /\ StartOrEnd /\ Return("none")
       \/ /\ next # NoChain
          /\ cur' = next
          /\ IF cur = NoChain THEN wiper' = NoChain /\ ignorept' = FALSE
             ELSE UNCHANGED <<wiper, ignorept>>
          /\ pc' = IF enabled[next] THEN "enter" ELSE "head"
          /\ UNCHANGED rc
    /\ UNCHANGED <<probe, idx, vals, api, locals, calls, seen>>

\* The rest of a round that has a result, or none because the chain is
\* disabled.
AllNext(n, r) ==
    /\ count' = n
    /\ \/ /\ r \in {"err", "ambivalent"}
          /\ StartOrEnd /\ Return(r)
       \/ /\ r \notin {"err", "ambivalent"} /\ cur + 1 = NoChain
          /\ StartOrEnd /\ Return(IF n > 0 THEN "ok" ELSE "none")
       \/ /\ r \notin {"err", "ambivalent"} /\ cur + 1 # NoChain
          /\ cur' = cur + 1 /\ pc' = "head"
          /\ UNCHANGED <<rc, wiper, ignorept>>

AllHead ==
    /\ pc = "head" /\ api \in {"safe", "full"}
    /\ \/ /\ enabled[cur]
          /\ ResetPosition(cur)
          /\ pc' = "enter"
          /\ safe' = IF cur = SUBLKS THEN Locals ELSE safe
          /\ UNCHANGED <<cur, wiper, ignorept, rc, count>>
       \/ /\ ~enabled[cur]
          /\ AllNext(count, "none")
          /\ UNCHANGED <<idx, seen, safe>>
    /\ UNCHANGED <<probe, vals, api, calls>>

\* A chain's probe has returned rc.
ProbeReturned ==
    /\ pc = "left" /\ api = "probe"
    /\ pc' = IF rc = "none" THEN "head" ELSE "idle"
    /\ seen' = IF rc # "ok" THEN seen
               ELSE [seen EXCEPT ![cur] =
                        @ \cup {<<idx[cur], Magic(cur, idx[cur])>>}]
    /\ UNCHANGED <<probe, idx, cur, vals, wiper, ignorept, api, rc, locals,
                   calls>>

AllReturned ==
    /\ \/ pc = "left" /\ (api = "full" \/ (api = "safe" /\ cur # SUBLKS))
       \/ pc = "safeleft"
    /\ ResetPosition(cur)
    /\ AllNext(IF rc = "ok" THEN count + 1 ELSE count, rc)
    /\ UNCHANGED <<probe, vals, api, safe, calls>>

-----------------------------------------------------------------------------
(***************************************************************************)
(* The chains' probe functions                                             *)
(***************************************************************************)
\* Bug: the ignored partition table is not ignored.
PassedOver_never(c) == c = SUBLKS /\ dev.size = 0

\* Whether the probe function returns before its loop.
PassedOver(c) ==
    \/ c = SUBLKS /\ dev.size = 0
    \/ c = PARTS /\ ignorept /\ wiper = NoChain

\* superblocks_probe, topology_probe and partitions_probe up to the loop.
Enter ==
    /\ pc = "enter"
    /\ \/ /\ cur = TOPLGY /\ ~dev.blk
          /\ rc' = "err" /\ pc' = "left"
          /\ UNCHANGED vals
       \/ /\ cur = TOPLGY => dev.blk
          /\ vals' = Without(vals, cur)
          /\ rc' = "none"
          /\ pc' = IF PassedOver(cur) THEN "left" ELSE "loop"
    /\ UNCHANGED <<probe, idx, cur, wiper, ignorept, api, locals, calls, seen>>

\* Bug: the wiper is not used.
UseWiper_not(vs, i) == vs

\* blkid_probe_use_wiper: a table written into an area that was wiped is
\* younger than what the wiping prober has found.
UseWiper(vs, i) ==
    IF wiper # NoChain /\ Probers[PARTS][i].inwiped THEN Without(vs, wiper)
    ELSE vs

Found(i) ==
    /\ rc' = "ok" /\ pc' = "left"
    /\ vals' = (IF cur = PARTS THEN UseWiper(vals, i) ELSE vals)
               \cup Values(cur, i)
    /\ wiper' = IF Probers[cur][i].wipes THEN cur
                ELSE IF cur = PARTS /\ Probers[PARTS][i].inwiped THEN NoChain
                ELSE wiper

\* A round of a chain's loop.
Try ==
    LET i == idx[cur] + 1
        s == State(cur, i)
    IN
    /\ pc = "loop" /\ idx[cur] < N(cur)
    /\ idx' = [idx EXCEPT ![cur] = i]
    /\ \/ /\ \/ s = "none"
             \/ s = "unreadable" /\ cur # SUBLKS
             \/ s = "failing" /\ cur = TOPLGY
          /\ UNCHANGED <<vals, wiper, pc, rc>>
       \/ /\ s = "bad"
          /\ vals' = Refused(vals, cur, i)
          /\ UNCHANGED <<wiper, pc, rc>>
       \/ /\ s = "unreadable" /\ cur = SUBLKS
          /\ rc' = "err" /\ pc' = "left"
          /\ UNCHANGED <<vals, wiper>>
       \/ /\ s = "failing" /\ cur # TOPLGY
          /\ vals' = Without(vals, cur)
          /\ rc' = "err" /\ pc' = "left"
          /\ UNCHANGED wiper
       \/ /\ s = "good"
          /\ Found(i)
    /\ UNCHANGED <<probe, cur, ignorept, api, locals, calls, seen>>

ChainEnds ==
    /\ pc = "loop" /\ idx[cur] = N(cur)
    /\ pc' = "left"
    /\ UNCHANGED <<probe, idx, cur, vals, wiper, ignorept, api, rc, locals,
                   calls, seen>>

-----------------------------------------------------------------------------
(***************************************************************************)
(* superblocks_safeprobe                                                   *)
(***************************************************************************)
Usage == Probers[SUBLKS][idx[SUBLKS]].usage

\* Bug: the file systems that count are the tolerant ones.
Intolerant_swapped(i) == IF Probers[SUBLKS][i].tolerant THEN 1 ELSE 0

Intolerant(i) == IF Probers[SUBLKS][i].tolerant THEN 0 ELSE 1

\* A round of the loop with a result.
SafeFound ==
    /\ pc = "left" /\ api = "safe" /\ cur = SUBLKS /\ rc = "ok"
    /\ \/ /\ Tiny /\ safe.count = 0
          /\ pc' = "safeleft"
          /\ UNCHANGED safe
       \/ /\ ~(Tiny /\ safe.count = 0) /\ Usage \in {"raid", "crypto"}
          /\ safe' = [safe EXCEPT !.count = @ + 1]
          /\ pc' = "safeend"
       \/ /\ ~(Tiny /\ safe.count = 0) /\ Usage \notin {"raid", "crypto"}
          /\ safe' = [count |-> safe.count + 1,
                      intol |-> safe.intol + Intolerant(idx[SUBLKS]),
                      idx   |-> IF safe.count = 0 THEN idx[SUBLKS]
                                ELSE safe.idx,
                      vals  |-> IF safe.count = 0 THEN Only(vals, SUBLKS)
                                ELSE safe.vals]
          /\ pc' = "enter"
    /\ UNCHANGED <<probe, idx, cur, vals, wiper, ignorept, api, rc, count,
                   calls, seen>>

\* The loop has ended without a RAID.
SafeDone ==
    /\ pc = "left" /\ api = "safe" /\ cur = SUBLKS /\ rc # "ok"
    /\ pc' = IF rc = "err" THEN "safeleft" ELSE "safeend"
    /\ UNCHANGED <<probe, idx, cur, vals, wiper, ignorept, api, rc, locals,
                   calls, seen>>

\* Restores the first result.
FirstResult(vs) ==
    IF safe.idx = 0 THEN vs ELSE Without(vs, SUBLKS) \cup safe.vals

SafeEnd ==
    LET i == IF safe.idx = 0 THEN idx[SUBLKS] ELSE safe.idx IN
    /\ pc = "safeend"
    /\ pc' = "safeleft"
    /\ \/ /\ safe.count > 1 /\ safe.intol > 0
          /\ rc' = "ambivalent"
          /\ UNCHANGED <<idx, vals, ignorept>>
       \/ /\ ~(safe.count > 1 /\ safe.intol > 0) /\ safe.count = 0
          /\ rc' = "none"
          /\ UNCHANGED <<idx, vals, ignorept>>
       \/ /\ ~(safe.count > 1 /\ safe.intol > 0) /\ safe.count > 0
          /\ rc' = "ok"
          /\ vals' = FirstResult(vals)
          /\ idx' = [idx EXCEPT ![SUBLKS] = i]
          /\ ignorept' = (ignorept \/ Probers[SUBLKS][i].usage = "raid")
    /\ UNCHANGED <<probe, cur, wiper, api, locals, calls, seen>>

-----------------------------------------------------------------------------
Client ==
    \/ \E c \in Toggled : Enable(c)
    \/ \E S \in Filters : FilterSuperblocks(S)
    \/ InvertSuperblocksFilter
    \/ blkid_reset_probe
    \/ \E o \in Others : blkid_probe_set_device(o.dev, o.disk)
    \/ blkid_do_wipe
    \/ blkid_do_probe
    \/ \E name \in {"safe", "full"} : blkid_do_allprobe(name)

Library ==
    \/ ProbeHead \/ AllHead \/ ProbeReturned \/ AllReturned
    \/ Enter \/ Try \/ ChainEnds
    \/ SafeFound \/ SafeDone \/ SafeEnd

Next == Client \/ Library

\* A call is a computation: it goes on until it returns.
Spec == Init /\ [][Next]_vars /\ WF_vars(Library)
-----------------------------------------------------------------------------
(***************************************************************************)
(* Properties                                                              *)
(***************************************************************************)
\* Type invariant of the probe and of the calls' locals.
TypeOK ==
    /\ noscan \in BOOLEAN /\ ignorept \in BOOLEAN
    /\ enabled \in [Chains -> BOOLEAN]
    /\ \A c \in Chains : fltr[c] \subseteq 1..N(c)
    /\ \A c \in Chains : idx[c] \in 0..N(c)
    /\ cur \in Chains \cup {NoChain}
    /\ wiper \in {SUBLKS, NoChain}
    /\ pc \in {"idle", "head", "enter", "loop", "left", "safeend", "safeleft"}
    /\ pc \notin {"idle", "head"} => cur # NoChain
    /\ pc \in {"safeend", "safeleft"} => api = "safe" /\ cur = SUBLKS
    /\ rc \in {"ok", "none", "err", "ambivalent"}
    /\ IsContent(disk)

\* Values of a chain that the client gets to see are all of one prober: no
\* identifier of a signature that was refused or of an earlier result.
ResultOfOneProber ==
    pc = "idle" =>
        \A v, w \in vals : v.chain = w.chain => v.by = w.by

Answered(name, r) == pc = "idle" /\ api = name /\ rc = r

\* When blkid_do_probe says that probing is done, each signature that is now on
\* the device has been reported, also the backups that came to light when the
\* client wiped the first: a client that wipes all it is told of leaves
\* nothing.
ScanComplete ==
    Answered("probe", "none") /\ ~noscan =>
        \A c \in {c \in Chains : enabled[c]} : \A i \in Good(c) :
            c = TOPLGY \/ <<i, Magic(c, i)>> \in seen[c]

Earliest(S) == CHOOSE i \in S : \A j \in S : i <= j

TypeBy(i) ==
    \E v \in vals : v.name = "TYPE" /\ v.by = i

Has(name) == \E v \in vals : v.name = name

\* A partition table in the area that the prober's tool has wiped.
Outdated(i) ==
    /\ enabled[PARTS] /\ Probers[SUBLKS][i].wipes
    /\ \E p \in Good(PARTS) :
          /\ Probers[PARTS][p].inwiped
          /\ \A q \in Good(PARTS) : p <= q

\* The type that get_fstype reads after blkid_do_fullprobe is that of the first
\* signature, unless a younger partition table outdates it, and there is one
\* only if there is a signature.
FullprobeTellsFirst ==
    enabled[SUBLKS] /\ ~noscan =>
        /\ Answered("full", "ok") /\ Good(SUBLKS) # {} =>
              IF Outdated(Earliest(Good(SUBLKS))) THEN ~Has("TYPE")
              ELSE TypeBy(Earliest(Good(SUBLKS)))
        /\ Answered("full", "ok") /\ Good(SUBLKS) = {} => ~Has("TYPE")
        /\ Answered("full", "none") => Good(SUBLKS) = {}

\* The superblocks up to the first that is a RAID or encrypted.
Leading ==
    {i \in Good(SUBLKS) : \A j \in Good(SUBLKS) :
        j < i => Probers[SUBLKS][j].usage \notin {"raid", "crypto"}}

\* blkid_do_safeprobe gives a type only where no other file system could claim
\* the device: the first signature's.
SafeprobeUnambiguous ==
    Answered("safe", "ok") /\ enabled[SUBLKS] /\ ~noscan /\ Has("TYPE") =>
        /\ TypeBy(Earliest(Leading))
        /\ \/ Tiny
           \/ Cardinality(Leading) = 1
           \/ \A i \in Leading :
                 \/ Probers[SUBLKS][i].usage \in {"raid", "crypto"}
                 \/ Probers[SUBLKS][i].tolerant

\* blkid_do_safeprobe gives neither the partition table of a RAID's member along
\* with the RAID, nor both LVM and a younger table.
TableOfOthers ==
    Answered("safe", "ok") =>
        \A v \in vals :
            v.name = "TYPE" /\ Has("PTTYPE")
            /\ enabled[SUBLKS] /\ enabled[PARTS] =>
                LET id == Probers[SUBLKS][v.by] IN
                /\ id.usage = "raid" => id.wipes
                /\ ~Outdated(v.by)

\* Each call returns, whatever the chains come to.
CallsReturn == pc # "idle" ~> pc = "idle"
=============================================================================
