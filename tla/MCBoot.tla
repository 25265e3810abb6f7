------------------------------- MODULE MCBoot -------------------------------
(***************************************************************************)
(* Instances of Boot for TLC: a multiboot fstab with a bind record, an     *)
(* entry without the multiboot flag and an image record.                   *)
(***************************************************************************)
EXTENDS Boot

AllKinds == <<"bind", "other", "image">>

AllOptions == Option

\* A multiboot boot of Android, and any.
AndroidOptions == {o \in Option : o.multiboot /\ ~o.recovery /\ ~o.ums}
MultibootOptions == {o \in Option : o.multiboot /\ ~o.ums}

\* Every operation, the execution of the tools excepted.
Failures == Operation \ {"notool"}

NoFailures == {}
=============================================================================
