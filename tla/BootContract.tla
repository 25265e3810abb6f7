---------------------------- MODULE BootContract ----------------------------
(***************************************************************************)
(* What a boot promises its guest and its user, without the means.  The    *)
(* boot sets up the parts that its guest needs, each at most once, and may *)
(* miss one, which it reports.  The guest starts when none is left to be   *)
(* tried, every boot ends with a guest or is given up, and what a guest    *)
(* has written to an image stays there, over all boots.                    *)
(***************************************************************************)
CONSTANTS
    Image,      \* the partitions replaced by an image
    Part        \* the parts of a redirection that a boot sets up

VARIABLES
    stage,      \* how far the boot is
    need,       \* the parts that the guest of this boot needs
    done,       \* the parts that are set up
    missed,     \* the parts that have failed, which was reported and no more
    data        \* the images into which a guest has written

vars == <<stage, need, done, missed, data>>

Init ==
    /\ stage = "off"
    /\ need \in SUBSET Part
    /\ done = {} /\ missed = {}
    /\ data = {}

\* Nothing that an earlier boot has set up is left.
SwitchOn ==
    /\ stage = "off"
    /\ stage' = "preparing"
    /\ need' \in SUBSET Part
    /\ UNCHANGED <<done, missed, data>>

SetUp(p) ==
    /\ stage = "preparing" /\ p \notin missed
    /\ done' = done \cup {p}
    /\ UNCHANGED <<stage, need, missed, data>>

Miss(p) ==
    /\ stage = "preparing" /\ p \notin done
    /\ missed' = missed \cup {p}
    /\ UNCHANGED <<stage, need, done, data>>

HandOver ==
    /\ stage = "preparing"
    /\ need \subseteq done \cup missed
    /\ stage' = "guest"
    /\ UNCHANGED <<need, done, missed, data>>

\* Also under a guest, for process 1 may end after it has started one.
GiveUp ==
    /\ stage \in {"preparing", "guest"}
    /\ stage' = "down"
    /\ UNCHANGED <<need, done, missed, data>>

Write(n) ==
    /\ stage = "guest"
    /\ data' = data \cup {n}
    /\ UNCHANGED <<stage, need, done, missed>>

SwitchOff ==
    /\ stage # "off"
    /\ stage' = "off"
    /\ done' = {} /\ missed' = {}
    /\ UNCHANGED <<need, data>>

Next ==
    \/ SwitchOn \/ HandOver \/ GiveUp \/ SwitchOff
    \/ \E p \in Part : SetUp(p) \/ Miss(p)
    \/ \E n \in Image : Write(n)

Safety == Init /\ [][Next]_vars

\* No boot stays undecided.
Decides == stage = "preparing" ~> stage # "preparing"

Spec == Safety /\ Decides
=============================================================================
