------------------------------- MODULE MCGpt -------------------------------
(***************************************************************************)
(* Instances of GptEditor for TLC: devices of ten sectors, of which three  *)
(* are for partitions of a table with two entries.                         *)
(***************************************************************************)
EXTENDS GptEditor

CONSTANTS g1, g2, t1, t2    \* disk GUIDs and tags

N == 10

Blank == [s \in 0..(MaxSize - 1) |-> Zero]

\* A device with the table of ents, on which every copy is good.
Whole(mbrtype, guid, ents) ==
    LET p == Recomputed(Recomputed(NewPrimary(guid, N), ents), ents)
        b == Recomputed(Recomputed(NewBackup(p, N), ents), ents)
    IN [s \in 0..(MaxSize - 1) |->
          IF s = 0 THEN Mbr(mbrtype)
          ELSE IF s = PRIMARY THEN p
          ELSE IF s \in 2..(1 + NEntries) THEN ents[s - 2]
          ELSE IF s \in BackupEntries(N)..(N - 2)
               THEN ents[s - BackupEntries(N)]
          ELSE IF s = N - 1 THEN b
          ELSE Zero]

One == [i \in Slots |-> IF i = 0 THEN Entry(TRUE, 4, 4, t1) ELSE Zero]

Two == [i \in Slots |-> IF i = 0 THEN Entry(TRUE, 5, 6, t1)
                        ELSE IF i = 1 THEN Entry(TRUE, 4, 4, t1) ELSE Zero]

Good == Whole("protective", g1, One)

Device(d) == [size |-> N, disk |-> d]

\* Whole ones, such with one bad copy or none, and blank ones.
SomeDevices ==
    {Device(Blank), Device(Good), Device(Whole("hybrid", g1, Two)),
     Device(Whole("shifted", g1, One)),
     Device([Good EXCEPT ![PRIMARY] = Zero]),
     Device([Good EXCEPT ![2] = Zero]),
     Device([Good EXCEPT ![N - 1] = Zero]),
     Device([Good EXCEPT ![N - 2] = One[0]]),
     Device([Good EXCEPT ![0] = Zero]),
     Device([Good EXCEPT ![2] = Zero, ![N - 1] = Zero])}

\* Some of them, with a good copy, a good and a bad one, and none.
FewDevices ==
    {Device(Blank), Device(Good), Device(Whole("hybrid", g1, Two)),
     Device([Good EXCEPT ![PRIMARY] = Zero]),
     Device([Good EXCEPT ![N - 2] = One[0]])}
=============================================================================
