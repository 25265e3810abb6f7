----------------------------- MODULE TableStore -----------------------------
(***************************************************************************)
(* What a device promises to whoever looks up its partition table while it *)
(* is being rewritten and the writer can end at any moment: first the old  *)
(* table is there and from some point on the new one, with nothing between *)
(* them.  No promise is made of a write that starts without a good copy to *)
(* fall back on.                                                           *)
(***************************************************************************)
CONSTANT NoTable    \* no table is found

VARIABLES
    found,      \* the table that is found
    next,       \* the table being written, NoTable between writes
    sure        \* the write started from a good copy

vars == <<found, next, sure>>

Init ==
    /\ next = NoTable
    /\ sure = FALSE

Begin ==
    /\ next = NoTable
    /\ next' # NoTable
    /\ sure' \in BOOLEAN
    /\ UNCHANGED found

Switch ==
    /\ next # NoTable
    /\ found' = next
    /\ UNCHANGED <<next, sure>>

Lose ==
    /\ next # NoTable /\ ~sure
    /\ UNCHANGED <<next, sure>>

\* The write is done, has failed, or its process has ended: perhaps in the
\* middle of a system call that had done its work.
End ==
    /\ next # NoTable
    /\ next' = NoTable
    /\ sure => found' \in {found, next}
    /\ UNCHANGED sure

Next ==
    \/ Begin
    \/ Switch
    \/ Lose
    \/ End

Spec == Init /\ [][Next]_vars
=============================================================================
