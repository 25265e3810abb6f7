-------------------------- MODULE MCFsRedirection --------------------------
(***************************************************************************)
(* Instances of FsRedirection for TLC.                                     *)
(*                                                                         *)
(* Partitions: "data" is replaced by a bind directory and the stub loop0,  *)
(* "system" by the image behind loop1, "source" holds the multiboot tree   *)
(* and is its own stub; "extra" has no record.                             *)
(***************************************************************************)
EXTENDS FsRedirection, TLC

MCDev == {"data", "system", "source", "extra", "loop0", "loop1", "loop2"}
MCPlain == {"datadir", "sourcedir", "asecdir", "file", "cfgdir"}

\* Records, as load_multiboot_fstab and prepare_fstab leave them.
SourceRec == [blk |-> "p_source", rdev |-> "source", multiboot |-> TRUE,
              bind |-> TRUE, stub |-> "source", repl |-> "sourcedir"]

DataRec == [blk |-> "p_data", rdev |-> "data", multiboot |-> TRUE,
            bind |-> TRUE, stub |-> "loop0", repl |-> "datadir"]

SystemRec == [blk |-> "p_system", rdev |-> "system", multiboot |-> TRUE,
              bind |-> FALSE, stub |-> Null, repl |-> "loop1"]

\* An entry without the multiboot flag that names no device of this phone.
OtherRec == [blk |-> "p_cfg", rdev |-> NoRdev, multiboot |-> FALSE,
             bind |-> TRUE, stub |-> "loop2", repl |-> "cfgdir"]

FormatRecs == <<DataRec>>
SourceRecs == <<SourceRec, DataRec>>
AllRecs == <<SourceRec, OtherRec, DataRec, SystemRec>>

\* Paths.  "by_data" and "by_system" are links; "v_data" is a second node of
\* the data partition, as vold makes them.  "rel_data" and "rel_file" are
\* relative: to the process they are the data partition and a file, to the
\* tracer nothing and the system partition.
AllPaths == {"p_source", "p_data", "p_system", "p_cfg", "by_data",
             "by_system", "v_data", "p_extra", "p_file", "p_none", "rel_data",
             "rel_file"}

LinkTo(P) ==
    [p \in P |-> CASE p = "by_data"   -> "p_data"
                   [] p = "by_system" -> "p_system"
                   [] OTHER           -> p]

NodeOf(P) ==
    [p \in P |-> CASE p \in {"p_data", "by_data", "v_data"} -> "data"
                   [] p \in {"p_system", "by_system", "rel_file"} -> "system"
                   [] p = "p_source"                        -> "source"
                   [] p = "p_extra"                         -> "extra"
                   [] p = "p_file"                          -> "file"
                   [] OTHER                                 -> Absent]

MCLink == LinkTo(Path)
MCNode0 == NodeOf(Path)

MCMeant == [p \in Path |-> CASE p = "rel_data" -> "p_data"
                             [] p = "rel_file" -> "p_file"
                             [] OTHER          -> p]

\* The directories of the other bind records are made on the source partition.
MCBelow == [i \in 1..Len(Recs) |->
              IF Recs[i] = SourceRec
              THEN {j \in 1..Len(Recs) : Recs[j].bind} \ {i} ELSE {}]

\* Every process has its own descriptor table, or all are threads of one.
OwnTable == [c \in Child |-> c]
OneTable == [c \in Child |-> CHOOSE t \in Table : TRUE]

\* Path sets of the runs.
DataPath == {"p_data"}

SourceDataPaths == {"p_source", "p_data"}
NodePaths == {"p_data", "v_data"}

\* All paths but the link to the node that comes and goes.
FixedLinkPaths == AllPaths \ {"by_data"}

\* System calls.  The last set has one call of each row of the info table that
\* has a call whose hook and whose kernel side agree on what to do with a link.
OpenOnly == {"open"}
AgreeingCalls == {"open", "lstat", "stat", "newfstatat"}

NoPath == {}

\* A node of a recorded partition under another name.
AliasNode == {"v_data"}

\* The nodes that have the name of their record.
CanonicalNodes == {"p_data"}

\* The processes are interchangeable where all of them run from the beginning
\* and each has its own table or all have one.
ChildSymmetry == Permutations(Child)

\* The state without the auxiliary field held, which no guard reads: for a run
\* whose properties do not speak of it.
WithoutHeld ==
    <<tracer, errno, live, mbc, call, kern, sb, clock, nextUuid,
      [i \in RecId |-> {[f EXCEPT !.held = FALSE] : f \in dir[i]}]>>
=============================================================================
