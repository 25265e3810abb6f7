----------------------------- MODULE BlkidProofs -----------------------------
(***************************************************************************)
(* Theorems about BlkidProbe, for any probers, devices and sequences of    *)
(* calls: results are never mixed, and a scan by blkid_do_probe misses no  *)
(* signature, also if the client wipes what it is told of.                 *)
(***************************************************************************)
EXTENDS BlkidProbe, TLAPS, SequenceTheorems, FiniteSetTheorems

\* Wiping a magic string leaves a disk, on which the other probers find what
\* they found before.
LEMMA Wiped ==
    ASSUME NEW d, IsContent(d), NEW c \in Chains, NEW b \in Nat, NEW k
    PROVE  LET e == [d EXCEPT ![c][b][k] = "none"]
           IN  /\ IsContent(e)
               /\ \A x \in Chains : \A i \in 1..N(x) :
                     x # c \/ i # b => e[x][i] = d[x][i]
<1> DEFINE e == [d EXCEPT ![c][b][k] = "none"]
<1>1. d \in [Chains -> Seq(Seq(States))] /\ d[c] \in Seq(Seq(States))
    BY DEF IsContent
<1> DEFINE f == [d[c] EXCEPT ![b] = [@ EXCEPT ![k] = "none"]]
<1>2. f \in Seq(Seq(States)) /\ Len(f) = Len(d[c])
    <2>1. CASE b \in 1..Len(d[c])
        <3>1. d[c][b] \in Seq(States)
            BY <1>1, <2>1
        <3>2. [d[c][b] EXCEPT ![k] = "none"] \in Seq(States)
            <4>1. CASE k \in 1..Len(d[c][b])
                BY <3>1, <4>1, ExceptSeq DEF States
            <4>2. CASE k \notin 1..Len(d[c][b])
                <5>1. [d[c][b] EXCEPT ![k] = "none"] = d[c][b]
                    BY <3>1, <4>2
                <5> QED
                    BY <3>1, <5>1
            <4> QED
                BY <4>1, <4>2
        <3> QED
            BY <1>1, <2>1, <3>2, ExceptSeq
    <2>2. CASE b \notin 1..Len(d[c])
        <3>1. f = d[c]
            BY <1>1, <2>2
        <3> QED
            BY <1>1, <3>1
    <2> QED
        BY <2>1, <2>2
<1>3. e = [d EXCEPT ![c] = f]
    OBVIOUS
<1>4. IsContent(e)
    BY <1>1, <1>2, <1>3 DEF IsContent
<1>5. \A i \in 1..N(c) : i # b => e[c][i] = d[c][i]
    BY <1>1, <1>3 DEF IsContent
<1> QED
    BY <1>1, <1>3, <1>4, <1>5

-----------------------------------------------------------------------------
(***************************************************************************)
(* Types                                                                   *)
(***************************************************************************)
\* Each value is of a prober of its chain, counted from one.
Sound(vs) == \A v \in vs : v.chain \in Chains /\ v.by \in Nat \ {0}

\* What TypeOK leaves open.
Data ==
    /\ idx \in [Chains -> Nat]
    /\ fltr \in [Chains -> SUBSET Nat]
    /\ seen = [c \in Chains |-> seen[c]]
    /\ safe = [count |-> safe.count, intol |-> safe.intol, idx |-> safe.idx,
               vals |-> safe.vals]
    /\ safe.idx \in 0..N(SUBLKS)
    /\ Sound(vals) /\ Sound(safe.vals)

\* What the control of the calls relies on.
Control ==
    /\ pc # "idle" => api \in {"probe", "safe", "full"}
    /\ pc = "head" /\ api # "probe" => cur # NoChain
    /\ pc = "head" /\ api = "probe" => rc = "none"
    /\ pc \notin {"idle", "head"} => enabled[cur]
    /\ pc = "loop" => rc = "none"
    /\ pc = "left" /\ rc = "ok" => idx[cur] # 0
    /\ ignorept => pc # "idle" /\ api = "safe"

Shape == TypeOK /\ Data /\ Control

USE DEF SUBLKS, TOPLGY, PARTS, NoChain

\* The probe that blkid_new_probe has made has the shape.
LEMMA InitShape == Init => Shape
<1> SUFFICES ASSUME Init PROVE Shape
    OBVIOUS
<1>1. TypeOK
    <2>1. enabled \in [Chains -> BOOLEAN]
        BY DEF Init
    <2>2. noscan \in BOOLEAN /\ IsContent(disk)
        BY BlkidAssumption DEF Init
    <2>3. \A c \in Chains : idx[c] \in 0..N(c) /\ fltr[c] \subseteq 1..N(c)
        BY BlkidAssumption DEF Init
    <2> QED
        BY <2>1, <2>2, <2>3 DEF Init, TypeOK
<1>2. Data
    BY BlkidAssumption DEF Init, Data, Sound, Locals, Chains
<1>3. Control
    BY DEF Init, Control
<1> QED
    BY <1>1, <1>2, <1>3 DEF Shape

\* The values of a prober are its own, and of its chain.
LEMMA ValuesOwn ==
    ASSUME NEW c, NEW i
    PROVE  \A v \in Values(c, i) : v.chain = c /\ v.by = i
BY DEF Values, Value

\* What probing does to the result keeps it sound.
LEMMA ResultsSound ==
    ASSUME NEW vs, Sound(vs), NEW c \in Chains, NEW i \in Nat \ {0}
    PROVE  /\ Sound(Without(vs, c)) /\ Sound(Only(vs, c))
           /\ Sound(Refused(vs, c, i)) /\ Sound(UseWiper(vs, i))
           /\ Sound(vs \cup Values(c, i))
<1>1. \A d : Sound(Without(vs, d)) /\ Sound(Only(vs, d))
    BY DEF Sound, Without, Only
<1>2. Sound(Refused(vs, c, i))
    <2>1. Sound(Attempted(vs, i))
        BY DEF Attempted, Sound, Value, Chains
    <2> QED
        BY <2>1 DEF Refused, Sound, Without
<1>3. Sound(UseWiper(vs, i))
    BY <1>1 DEF UseWiper
<1>4. Sound(vs \cup Values(c, i))
    BY ValuesOwn DEF Sound
<1> QED
    BY <1>1, <1>2, <1>3, <1>4

\* The client's calls keep the shape.
LEMMA ClientShape ==
    ASSUME Shape, Client
    PROVE  Shape'
<1> USE BlkidAssumption DEF Shape, Call, Chains
<1>1. ASSUME NEW c \in Toggled, Enable(c) PROVE Shape'
    <2>1. TypeOK'
        BY <1>1 DEF Enable, TypeOK
    <2>2. Data'
        BY <1>1 DEF Enable, locals, Data
    <2>3. Control'
        BY <1>1 DEF Enable, TypeOK, Control
    <2> QED
        BY <2>1, <2>2, <2>3
<1>2. ASSUME NEW S \in Filters, FilterSuperblocks(S) PROVE Shape'
    <2>1. TypeOK'
        BY <1>2 DEF FilterSuperblocks, ResetPosition, TypeOK, Data
    <2>2. Data'
        <3>1. S \subseteq Nat
            OBVIOUS
        <3>2. idx' \in [Chains -> Nat] /\ fltr' \in [Chains -> SUBSET Nat]
            BY <1>2, <3>1 DEF FilterSuperblocks, ResetPosition, Data
        <3> QED
            BY <1>2, <3>2 DEF FilterSuperblocks, ResetPosition, locals, Data
    <2>3. Control'
        BY <1>2 DEF FilterSuperblocks, TypeOK, Control
    <2> QED
        BY <2>1, <2>2, <2>3
<1>3. CASE InvertSuperblocksFilter
    <2>1. TypeOK'
        BY <1>3 DEF InvertSuperblocksFilter, TypeOK, Data
    <2>2. Data'
        BY <1>3 DEF InvertSuperblocksFilter, locals, Data
    <2>3. Control'
        BY <1>3 DEF InvertSuperblocksFilter, TypeOK, Control
    <2> QED
        BY <2>1, <2>2, <2>3
<1>4. CASE blkid_reset_probe
    <2>1. TypeOK'
        BY <1>4 DEF blkid_reset_probe, ResetProbe, probe, TypeOK
    <2>2. Data'
        BY <1>4 DEF blkid_reset_probe, ResetProbe, probe, locals, Data, Sound
    <2>3. Control'
        BY <1>4 DEF blkid_reset_probe, Control
    <2> QED
        BY <2>1, <2>2, <2>3
<1>5. ASSUME NEW o \in Others, blkid_probe_set_device(o.dev, o.disk)
      PROVE  Shape'
    <2>1. TypeOK'
        <3>1. noscan' \in BOOLEAN /\ IsContent(disk')
            BY <1>5 DEF blkid_probe_set_device, TypeOK
        <3>2. \A c \in Chains : idx'[c] \in 0..N(c)
            BY <1>5 DEF blkid_probe_set_device, ResetProbe
        <3> QED
            BY <1>5, <3>1, <3>2
            DEF blkid_probe_set_device, ResetProbe, TypeOK, IsContent
    <2>2. Data'
        BY <1>5 DEF blkid_probe_set_device, ResetProbe, locals, Data, Sound
    <2>3. Control'
        BY <1>5 DEF blkid_probe_set_device, Control
    <2> QED
        BY <2>1, <2>2, <2>3
<1>6. CASE blkid_do_wipe
    <2>1. CASE UNCHANGED <<disk, idx, cur>>
        BY <1>6, <2>1
        DEF blkid_do_wipe, locals, TypeOK, Data, Control, IsContent
    <2>2. CASE /\ \E v \in vals : /\ v.chain = cur
                                  /\ disk' = [disk EXCEPT
                                        ![v.chain][v.by][v.copy] = "none"]
               /\ StepBack
        <3>1. IsContent(disk')
            <4>1. PICK v \in vals :
                     disk' = [disk EXCEPT ![v.chain][v.by][v.copy] = "none"]
                BY <2>2
            <4>2. v.chain \in Chains /\ v.by \in Nat
                BY <4>1 DEF Data, Sound
            <4>3. IsContent([disk EXCEPT ![v.chain][v.by][v.copy] = "none"])
                BY <4>2, Wiped DEF TypeOK
            <4> QED
                BY <4>1, <4>3
        <3>2. cur \in Chains
            BY <1>6 DEF blkid_do_wipe, TypeOK
        <3>3. /\ idx' \in [Chains -> Nat]
              /\ \A c \in Chains : idx'[c] \in 0..N(c)
              /\ cur' \in Chains \cup {NoChain}
            BY <2>2, <3>2 DEF StepBack, Data, TypeOK
        <3>4. TypeOK'
            BY <1>6, <3>1, <3>3 DEF blkid_do_wipe, TypeOK, IsContent
        <3>5. Data'
            BY <1>6, <3>3 DEF blkid_do_wipe, locals, Data
        <3>6. Control'
            BY <1>6 DEF blkid_do_wipe, Control
        <3> QED
            BY <3>4, <3>5, <3>6
    <2> QED
        BY <1>6, <2>1, <2>2 DEF blkid_do_wipe
<1>7. CASE blkid_do_probe
    <2>1. TypeOK'
        BY <1>7 DEF blkid_do_probe, probe, TypeOK, IsContent
    <2>2. Data'
        BY <1>7 DEF blkid_do_probe, probe, locals, Data
    <2>3. Control'
        BY <1>7 DEF blkid_do_probe, probe, Control
    <2> QED
        BY <2>1, <2>2, <2>3
<1>8. ASSUME NEW name \in {"safe", "full"}, blkid_do_allprobe(name)
      PROVE  Shape'
    <2>1. TypeOK'
        BY <1>8 DEF blkid_do_allprobe, probe, TypeOK, IsContent
    <2>2. Data'
        BY <1>8 DEF blkid_do_allprobe, probe, Data
    <2>3. Control'
        BY <1>8 DEF blkid_do_allprobe, Control
    <2> QED
        BY <2>1, <2>2, <2>3
<1> QED
    BY <1>1, <1>2, <1>3, <1>4, <1>5, <1>6, <1>7, <1>8 DEF Client

\* What AllNext does to the chain, the flags and the control.
LEMMA AllNextShape ==
    ASSUME NEW n, NEW r \in {"ok", "none", "err", "ambivalent"},
           AllNext(n, r), Shape, cur \in Chains
    PROVE  /\ cur' \in Chains \cup {NoChain}
           /\ wiper' \in {SUBLKS, NoChain} /\ ignorept' \in BOOLEAN
           /\ pc' \in {"idle", "head"}
           /\ rc' \in {"ok", "none", "err", "ambivalent"}
           /\ pc' = "head" => cur' # NoChain
           /\ ignorept' => pc' = "head" /\ ignorept
<1>1. ignorept \in BOOLEAN /\ wiper \in {SUBLKS, NoChain}
      /\ rc \in {"ok", "none", "err", "ambivalent"}
    BY DEF Shape, TypeOK
<1>2. CASE StartOrEnd /\ \E q \in {r, "ok", "none"} : Return(q)
    BY <1>2 DEF StartOrEnd, Return
<1>3. CASE /\ cur + 1 # NoChain /\ cur' = cur + 1 /\ pc' = "head"
           /\ UNCHANGED <<rc, wiper, ignorept>>
    BY <1>1, <1>3 DEF Chains
<1> QED
    BY <1>2, <1>3 DEF AllNext

\* So do the steps of the library.
LEMMA LibraryShape ==
    ASSUME Shape, Library
    PROVE  Shape'
<1> USE BlkidAssumption DEF Shape, Chains
<1>1. CASE ProbeHead
    <2>1. TypeOK'
        <3>1. /\ cur' \in Chains \cup {NoChain}
              /\ pc' = "enter" => cur' # NoChain
              /\ pc' \in {"idle", "head", "enter"} /\ rc' \in {rc, "none"}
            BY <1>1 DEF ProbeHead, StartOrEnd, Return, TypeOK
        <3>2. wiper' \in {wiper, NoChain} /\ ignorept' \in {ignorept, FALSE}
            BY <1>1 DEF ProbeHead, StartOrEnd
        <3> QED
            BY <1>1, <3>1, <3>2 DEF ProbeHead, probe, TypeOK, IsContent
    <2>2. Data'
        BY <1>1 DEF ProbeHead, probe, locals, Data
    <2>3. Control'
        BY <1>1 DEF ProbeHead, StartOrEnd, Return, probe, Control
    <2> QED
        BY <2>1, <2>2, <2>3
<1>2. CASE AllHead
    <2>1. cur \in Chains
        BY <1>2 DEF AllHead, Control, TypeOK
    <2>2. CASE enabled[cur]
        <3>0. /\ ResetPosition(cur) /\ pc' = "enter"
              /\ safe' \in {safe, Locals}
              /\ UNCHANGED <<cur, wiper, ignorept, rc, count, probe, vals, api,
                             calls>>
            BY <1>2, <2>2 DEF AllHead
        <3>1. TypeOK'
            <4>1. \A c \in Chains : idx'[c] \in 0..N(c)
                BY <2>1, <3>0 DEF ResetPosition, TypeOK, Data
            <4> QED
                BY <2>1, <3>0, <4>1 DEF probe, TypeOK, IsContent
        <3>2. Data'
            <4>1. /\ safe' = [count |-> safe'.count, intol |-> safe'.intol,
                              idx |-> safe'.idx, vals |-> safe'.vals]
                  /\ safe'.idx \in 0..N(SUBLKS)
                  /\ Sound(safe'.vals)
                BY <3>0 DEF Data, Locals, Sound
            <4> QED
                BY <2>1, <3>0, <4>1 DEF ResetPosition, probe, Data
        <3>3. Control'
            BY <1>2, <2>2, <3>0 DEF AllHead, probe, Control
        <3> QED
            BY <3>1, <3>2, <3>3
    <2>3. CASE ~enabled[cur]
        <3>0. /\ AllNext(count, "none")
              /\ UNCHANGED <<idx, seen, safe, probe, vals, api, calls>>
            BY <1>2, <2>3 DEF AllHead
        <3>1. TypeOK'
            BY <2>1, <3>0, AllNextShape DEF probe, TypeOK, IsContent
        <3>2. Data'
            BY <3>0 DEF probe, Data
        <3>3. Control'
            BY <1>2, <2>1, <3>0, AllNextShape DEF AllHead, probe, Control
        <3> QED
            BY <3>1, <3>2, <3>3
    <2> QED
        BY <2>2, <2>3
<1>3. CASE ProbeReturned
    <2>1. TypeOK'
        BY <1>3 DEF ProbeReturned, probe, TypeOK, IsContent
    <2>2. Data'
        BY <1>3 DEF ProbeReturned, probe, locals, Data
    <2>3. Control'
        BY <1>3 DEF ProbeReturned, probe, Control
    <2> QED
        BY <2>1, <2>2, <2>3
<1>4. CASE AllReturned
    <2>1. cur \in Chains
        BY <1>4 DEF AllReturned, TypeOK
    <2>2. /\ AllNext(IF rc = "ok" THEN count + 1 ELSE count, rc)
          /\ ResetPosition(cur)
          /\ UNCHANGED <<probe, vals, api, safe, calls>>
        BY <1>4 DEF AllReturned
    <2>3. TypeOK'
        <3>1. \A c \in Chains : idx'[c] \in 0..N(c)
            BY <2>1, <2>2 DEF ResetPosition, TypeOK, Data
        <3>2. rc \in {"ok", "none", "err", "ambivalent"}
            BY DEF TypeOK
        <3> QED
            BY <2>1, <2>2, <3>1, <3>2, AllNextShape DEF probe, TypeOK, IsContent
    <2>4. Data'
        BY <2>1, <2>2 DEF ResetPosition, probe, Data
    <2>5. Control'
        BY <1>4, <2>1, <2>2, AllNextShape
        DEF AllReturned, probe, TypeOK, Control
    <2> QED
        BY <2>3, <2>4, <2>5
<1>5. CASE Enter
    <2>1. TypeOK'
        BY <1>5 DEF Enter, probe, TypeOK, IsContent
    <2>2. Data'
        BY <1>5 DEF Enter, probe, locals, Data, Sound, Without
    <2>3. Control'
        BY <1>5 DEF Enter, probe, TypeOK, Control
    <2> QED
        BY <2>1, <2>2, <2>3
<1>6. CASE Try
    <2> DEFINE i == idx[cur] + 1
    <2>0. Sound(vals)
        BY DEF Data
    <2>1. cur \in Chains /\ i \in 1..N(cur) /\ i \in Nat \ {0}
        BY <1>6 DEF Try, TypeOK
    <2>2. /\ idx' = [idx EXCEPT ![cur] = i]
          /\ UNCHANGED <<probe, cur, ignorept, api, locals, calls, seen>>
        BY <1>6 DEF Try
    <2>3. /\ wiper' \in {SUBLKS, NoChain} /\ Sound(vals')
          /\ \/ pc' = "loop" /\ rc' = rc
             \/ pc' = "left" /\ rc' \in {"ok", "err"}
        <3>1. CASE State(cur, i) = "good"
            <4>1. Found(i)
                BY <1>6, <3>1 DEF Try
            <4>2. wiper' \in {SUBLKS, NoChain}
                BY <2>1, <4>1 DEF Found, TypeOK
            <4>3. Sound(UseWiper(vals, i))
                BY <2>0, <2>1, ResultsSound
            <4>4. /\ Sound(vals \cup Values(cur, i))
                  /\ Sound(UseWiper(vals, i) \cup Values(cur, i))
                BY <2>0, <2>1, <4>3, ResultsSound
            <4>5. Sound(vals')
                BY <4>1, <4>4 DEF Found
            <4> QED
                BY <4>1, <4>2, <4>5 DEF Found
        <3>2. CASE State(cur, i) # "good"
            <4>1. vals' \in {vals, Refused(vals, cur, i), Without(vals, cur)}
                BY <1>6, <3>2 DEF Try
            <4>2. Sound(Refused(vals, cur, i)) /\ Sound(Without(vals, cur))
                BY <2>0, <2>1, ResultsSound
            <4>3. Sound(vals')
                BY <2>0, <4>1, <4>2
            <4> QED
                BY <1>6, <3>2, <4>3 DEF Try, TypeOK
        <3> QED
            BY <3>1, <3>2
    <2>4. /\ idx' \in [Chains -> Nat] /\ idx'[cur] = i
          /\ \A c \in Chains : idx'[c] \in 0..N(c)
        BY <2>1, <2>2 DEF Data, TypeOK
    <2>5. TypeOK'
        <3>0. /\ wiper' \in {SUBLKS, NoChain}
              /\ UNCHANGED <<disk, noscan, enabled, fltr, cur, ignorept>>
            BY <2>2, <2>3 DEF probe
        <3>1. rc' \in {"ok", "none", "err", "ambivalent"}
            BY <2>3 DEF TypeOK
        <3>2. pc' \in {"loop", "left"}
            BY <2>3
        <3> QED
            BY <2>1, <2>4, <3>0, <3>1, <3>2 DEF TypeOK, IsContent
    <2>6. Data'
        BY <2>2, <2>3, <2>4 DEF probe, locals, Data
    <2>7. Control'
        BY <1>6, <2>1, <2>2, <2>3, <2>4 DEF Try, probe, Control
    <2> QED
        BY <2>5, <2>6, <2>7
<1>7. CASE ChainEnds
    BY <1>7 DEF ChainEnds, probe, locals, TypeOK, IsContent, Data, Control
<1>8. CASE SafeFound
    <2>1. TypeOK'
        BY <1>8 DEF SafeFound, probe, TypeOK, IsContent
    <2>2. Data'
        <3>1. Sound(Only(vals, SUBLKS))
            BY DEF Data, Sound, Only
        <3>2. idx[SUBLKS] \in 0..N(SUBLKS)
            BY DEF TypeOK
        <3>3. /\ safe' = [count |-> safe'.count, intol |-> safe'.intol,
                          idx |-> safe'.idx, vals |-> safe'.vals]
              /\ safe'.idx \in {safe.idx, idx[SUBLKS]}
              /\ safe'.vals \in {safe.vals, Only(vals, SUBLKS)}
            BY <1>8 DEF SafeFound, Data
        <3> QED
            BY <1>8, <3>1, <3>2, <3>3 DEF SafeFound, probe, Data
    <2>3. Control'
        BY <1>8 DEF SafeFound, probe, Control
    <2> QED
        BY <2>1, <2>2, <2>3
<1>9. CASE SafeDone
    BY <1>9 DEF SafeDone, probe, locals, TypeOK, IsContent, Data, Control
<1>10. CASE SafeEnd
    <2>1. /\ idx' \in [Chains -> Nat]
          /\ \A c \in Chains : idx'[c] \in 0..N(c)
        BY <1>10 DEF SafeEnd, Data, TypeOK
    <2>2. Sound(vals')
        BY <1>10 DEF SafeEnd, FirstResult, Data, Sound, Without
    <2>3. /\ rc' \in {"ok", "none", "ambivalent"} /\ pc' = "safeleft"
          /\ ignorept' \in BOOLEAN
        BY <1>10 DEF SafeEnd, TypeOK
    <2>4. UNCHANGED <<probe, cur, wiper, api, locals, calls, seen>>
        BY <1>10 DEF SafeEnd
    <2>5. TypeOK'
        BY <1>10, <2>1, <2>3, <2>4 DEF SafeEnd, probe, TypeOK, IsContent
    <2>6. Data'
        BY <2>1, <2>2, <2>4 DEF probe, locals, Data
    <2>7. Control'
        BY <1>10, <2>3, <2>4 DEF SafeEnd, probe, Control, TypeOK
    <2> QED
        BY <2>5, <2>6, <2>7
<1> QED
    BY <1>1, <1>2, <1>3, <1>4, <1>5, <1>6, <1>7, <1>8, <1>9, <1>10 DEF Library

\* So does a step that changes nothing.
LEMMA StutterShape == Shape /\ UNCHANGED vars => Shape'
BY DEF vars, probe, locals, Shape, TypeOK, IsContent, Data, Control

\* The shape is kept by every step.
LEMMA ShapeStep == Shape /\ [Next]_vars => Shape'
BY ClientShape, LibraryShape, StutterShape DEF Next

\* Every state has the shape.
LEMMA ShapeAlways == Spec => []Shape
BY InitShape, ShapeStep, PTL DEF Spec

\* Type correctness of the probe: no call leaves the chains or a chain's
\* probers, however the client mixes them.
THEOREM TypeCorrect == Spec => []TypeOK
<1>1. Shape => TypeOK
    BY DEF Shape
<1> QED
    BY <1>1, ShapeAlways, PTL

-----------------------------------------------------------------------------
(***************************************************************************)
(* Results                                                                 *)
(***************************************************************************)
OneBy(vs) == \A v, w \in vs : v.chain = w.chain => v.by = w.by

\* In the loop of a chain, nothing of the chain is in the result: the values of
\* one prober alone get there.  What superblocks_safeprobe has saved are values
\* of superblocks.
Single ==
    /\ OneBy(vals)
    /\ OneBy(safe.vals)
    /\ \A v \in safe.vals : v.chain = SUBLKS
    /\ pc = "loop" => \A v \in vals : v.chain # cur

\* Where the result changes and its chain's loop goes on, it does so by a
\* prober's refusal, which removes what the prober has set.
LEMMA RefusedLeavesNothing ==
    ASSUME NEW vs, NEW c, NEW i, \A v \in vs : v.chain # c
    PROVE  Refused(vs, c, i) = vs
BY DEF Refused, Without, Attempted, Value

\* No step mixes the values of two probers of a chain.
LEMMA SingleStep ==
    ASSUME Shape, Single, [Next]_vars
    PROVE  Single'
<1> USE DEF Single
<1>1. CASE UNCHANGED <<vals, safe>> /\ pc' # "loop"
    BY <1>1
<1>2. CASE vals' = {} /\ UNCHANGED safe
    BY <1>2 DEF OneBy
<1>3. CASE Enter
    BY <1>3 DEF Enter, locals, OneBy, Without
<1>4. CASE Try
    <2> DEFINE i == idx[cur] + 1
    <2>1. UNCHANGED <<cur, safe>> /\ pc = "loop"
        BY <1>4 DEF Try, locals
    <2>2. CASE State(cur, i) = "good"
        <3>1. Found(i)
            BY <1>4, <2>2 DEF Try
        <3>2. /\ pc' = "left"
              /\ \/ vals' = vals \cup Values(cur, i)
                 \/ vals' = Without(vals, wiper) \cup Values(cur, i)
            BY <3>1 DEF Found, UseWiper
        <3>3. \A v \in Values(cur, i) : v.chain = cur /\ v.by = i
            BY ValuesOwn
        <3>4. OneBy(vals')
            BY <2>1, <3>2, <3>3 DEF OneBy, Without
        <3> QED
            BY <2>1, <3>2, <3>4
    <2>3. CASE State(cur, i) # "good"
        <3>1. vals' \in {vals, Refused(vals, cur, i), Without(vals, cur)}
            BY <1>4, <2>3 DEF Try
        <3>2. Refused(vals, cur, i) = vals
            BY <2>1, RefusedLeavesNothing
        <3>3. vals' \subseteq vals
            BY <3>1, <3>2 DEF Without
        <3> QED
            BY <2>1, <3>3 DEF OneBy
    <2> QED
        BY <2>2, <2>3
<1>5. CASE SafeFound
    <2>1. vals' = vals /\ pc' # "loop"
        BY <1>5 DEF SafeFound
    <2>2. safe'.vals \in {safe.vals, Only(vals, SUBLKS)}
        BY <1>5 DEF SafeFound, Shape, Data
    <2> QED
        BY <2>1, <2>2 DEF OneBy, Only
<1>6. CASE SafeEnd
    <2>1. pc' = "safeleft" /\ UNCHANGED safe
        BY <1>6 DEF SafeEnd, locals
    <2>2. vals' \in {vals, Without(vals, SUBLKS) \cup safe.vals}
        BY <1>6 DEF SafeEnd, FirstResult
    <2> QED
        BY <2>1, <2>2 DEF OneBy, Without
<1>7. CASE AllHead
    <2>1. vals' = vals /\ pc' # "loop" /\ safe' \in {safe, Locals}
        BY <1>7 DEF AllHead, AllNext, Return
    <2> QED
        BY <2>1 DEF Locals, OneBy
<1>8. CASE Client
    <2>1. pc' # "loop" /\ UNCHANGED safe /\ vals' \in {vals, {}}
        BY <1>8
        DEF Client, Call, Enable, FilterSuperblocks, InvertSuperblocksFilter,
            blkid_reset_probe, ResetProbe, blkid_probe_set_device,
            blkid_do_wipe, blkid_do_probe, blkid_do_allprobe, locals
    <2> QED
        BY <2>1 DEF OneBy
<1>9. CASE ProbeHead \/ ProbeReturned \/ AllReturned \/ ChainEnds \/ SafeDone
    <2>1. UNCHANGED <<vals, safe>> /\ pc' # "loop"
        BY <1>9
        DEF ProbeHead, ProbeReturned, AllReturned, AllNext, ChainEnds,
            SafeDone, Return, locals
    <2> QED
        BY <1>1, <2>1
<1>10. CASE UNCHANGED vars
    BY <1>10 DEF vars, locals, OneBy
<1> QED
    BY <1>3, <1>4, <1>5, <1>6, <1>7, <1>8, <1>9, <1>10 DEF Next, Library

\* What a caller reads of a chain is of one prober of the chain: no identifier
\* of a signature that was refused, nor of an earlier result.
THEOREM NeverMixed == Spec => []ResultOfOneProber
<1>1. Init => Single
    BY DEF Init, Single, OneBy, Locals
<1>2. Shape /\ Single /\ [Next]_vars => Single'
    BY SingleStep
<1>3. Single => ResultOfOneProber
    BY DEF Single, OneBy, ResultOfOneProber
<1> QED
    BY <1>1, <1>2, <1>3, ShapeAlways, PTL DEF Spec

-----------------------------------------------------------------------------
(***************************************************************************)
(* Scans.  They hold only where a filter is not inverted in the middle of  *)
(* one (InvertLate).                                                       *)
(***************************************************************************)
\* The values of a result are those of the prober at the position of their
\* chain, or of one behind it.
Recent ==
    /\ \A v \in vals : idx[v.chain] <= v.by
    /\ \A v \in safe.vals : safe.idx <= v.by

\* Of what the call under way has found, it tells when it returns; those that
\* start from the first chain will start again.
Pending(c, i) ==
    \/ api # "probe" /\ pc \notin {"idle", "head"} /\ cur = c
    \/ api = "probe" /\ pc = "left" /\ rc = "ok" /\ cur = c /\ i = idx[c]

\* Of the signatures that a chain's position has passed, the client was told.
ToldOf(c) ==
    \A i \in 1..N(c) : State(c, i) = "good" /\ i <= idx[c] =>
        <<i, Magic(c, i)>> \in seen[c] \/ Pending(c, i)

Told == ToldOf(SUBLKS) /\ ToldOf(PARTS)

\* No step lets a position pass a value that is kept.
LEMMA RecentStep ==
    ASSUME Shape, Single, Recent, [Next]_vars
    PROVE  Recent'
<1> USE DEF Recent
<1>1. idx \in [Chains -> Nat] /\ Sound(vals) /\ Sound(safe.vals)
    BY DEF Shape, Data
<1>2. ASSUME UNCHANGED safe, vals' \subseteq vals,
             \A c \in Chains : idx'[c] <= idx[c], idx' \in [Chains -> Nat]
      PROVE  Recent'
    BY <1>1, <1>2 DEF Sound
<1>3. CASE Enter
    BY <1>1, <1>2, <1>3 DEF Enter, locals, Without
<1>4. CASE Try
    <2> DEFINE i == idx[cur] + 1
    <2>1. /\ pc = "loop" /\ cur \in Chains /\ UNCHANGED safe
          /\ idx' = [idx EXCEPT ![cur] = i]
        BY <1>4 DEF Try, locals, Shape, TypeOK
    <2>2. \A v \in vals : idx'[v.chain] = idx[v.chain]
        BY <1>1, <2>1 DEF Single, Sound
    <2>3. CASE State(cur, i) = "good"
        <3>1. Found(i)
            BY <1>4, <2>3 DEF Try
        <3>2. vals' \subseteq vals \cup Values(cur, i)
            BY <3>1 DEF Found, UseWiper, Without
        <3>3. \A v \in Values(cur, i) : v.chain = cur /\ v.by = i
            BY ValuesOwn
        <3>4. idx'[cur] = i /\ i \in Nat
            BY <1>1, <2>1
        <3> QED
            BY <2>1, <2>2, <3>2, <3>3, <3>4
    <2>4. CASE State(cur, i) # "good"
        <3>1. vals' \in {vals, Refused(vals, cur, i), Without(vals, cur)}
            BY <1>4, <2>4 DEF Try
        <3>2. Refused(vals, cur, i) = vals
            BY <2>1, RefusedLeavesNothing DEF Single
        <3>3. vals' \subseteq vals
            BY <3>1, <3>2 DEF Without
        <3> QED
            BY <2>1, <2>2, <3>3
    <2> QED
        BY <2>3, <2>4
<1>5. CASE SafeFound
    <2>1. UNCHANGED <<vals, idx>>
        BY <1>5 DEF SafeFound
    <2>2. \/ safe'.vals = safe.vals /\ safe'.idx = safe.idx
          \/ safe'.vals = Only(vals, SUBLKS) /\ safe'.idx = idx[SUBLKS]
        BY <1>5 DEF SafeFound, Shape, Data
    <2> QED
        BY <2>1, <2>2 DEF Only
<1>6. CASE SafeEnd
    <2>1. UNCHANGED safe
        BY <1>6 DEF SafeEnd, locals
    <2>2. CASE UNCHANGED <<idx, vals>>
        BY <2>1, <2>2
    <2>3. CASE /\ safe.idx # 0
               /\ vals' = Without(vals, SUBLKS) \cup safe.vals
               /\ idx' = [idx EXCEPT ![SUBLKS] = safe.idx]
        <3>1. /\ idx'[SUBLKS] = safe.idx
              /\ \A c \in Chains : c # SUBLKS => idx'[c] = idx[c]
            BY <1>1, <2>3 DEF Chains
        <3> QED
            BY <1>1, <2>1, <2>3, <3>1 DEF Single, Sound, Without
    <2>4. idx = [idx EXCEPT ![SUBLKS] = idx[SUBLKS]]
        BY <1>1
    <2> QED
        BY <1>6, <2>2, <2>3, <2>4 DEF SafeEnd, FirstResult
<1>7. CASE AllHead
    <2>1. vals' = vals /\ safe' \in {safe, Locals}
        BY <1>7 DEF AllHead
    <2>2. \A c \in Chains : idx'[c] <= idx[c]
        BY <1>1, <1>7 DEF AllHead, ResetPosition
    <2> QED
        BY <1>1, <2>1, <2>2, ShapeStep DEF Locals, Sound, Shape, Data
<1>8. CASE Client
    <2>1. UNCHANGED safe /\ vals' \in {vals, {}}
        BY <1>8
        DEF Client, Call, Enable, FilterSuperblocks, InvertSuperblocksFilter,
            blkid_reset_probe, ResetProbe, blkid_probe_set_device,
            blkid_do_wipe, blkid_do_probe, blkid_do_allprobe, locals
    <2>2. \/ UNCHANGED idx
          \/ \E c : idx' = [idx EXCEPT ![c] = 0]
          \/ idx' = [c \in Chains |-> 0]
          \/ StepBack
        BY <1>8
        DEF Client, Enable, FilterSuperblocks, InvertSuperblocksFilter,
            blkid_reset_probe, ResetProbe, ResetPosition,
            blkid_probe_set_device, blkid_do_wipe, blkid_do_probe,
            blkid_do_allprobe
    <2>3. idx' \in [Chains -> Nat] /\ \A c \in Chains : idx'[c] <= idx[c]
        BY <1>1, <2>2 DEF StepBack
    <2> QED
        BY <1>2, <2>1, <2>3
<1>9. CASE AllReturned
    BY <1>1, <1>2, <1>9 DEF AllReturned, ResetPosition
<1>10. CASE \/ ProbeHead \/ ProbeReturned \/ ChainEnds \/ SafeDone
            \/ UNCHANGED vars
    <2>1. UNCHANGED <<vals, safe, idx>>
        BY <1>10
        DEF ProbeHead, ProbeReturned, ChainEnds, SafeDone, locals, vars
    <2> QED
        BY <2>1
<1> QED
    BY <1>3, <1>4, <1>5, <1>6, <1>7, <1>8, <1>9, <1>10 DEF Next, Library

\* What a prober finds depends on the device, its content and the filter.
LEMMA SameSignature ==
    ASSUME NEW c, NEW i,
           dev' = dev, fltr'[c] = fltr[c], disk'[c][i] = disk[c][i]
    PROVE  State(c, i)' = State(c, i) /\ Magic(c, i)' = Magic(c, i)
<1>1. Magic(c, i)' = Magic(c, i)
    BY DEF Magic
<1>2. Skipped(c, i)' = Skipped(c, i)
    BY DEF Skipped, Tiny
<1> QED
    BY <1>1, <1>2 DEF State

\* A step that leaves the chain where it is, and forgets nothing.
LEMMA ToldKept ==
    ASSUME NEW c, ToldOf(c),
           dev' = dev, fltr'[c] = fltr[c], disk'[c] = disk[c],
           idx'[c] = idx[c], seen[c] \subseteq seen'[c],
           \A i : Pending(c, i) => Pending(c, i)'
    PROVE  ToldOf(c)'
<1>1. \A i : State(c, i)' = State(c, i) /\ Magic(c, i)' = Magic(c, i)
    BY SameSignature
<1> QED
    BY <1>1 DEF ToldOf

\* A chain that starts again has passed nothing.
LEMMA ToldReset ==
    ASSUME NEW c \in Chains, idx'[c] = 0
    PROVE  ToldOf(c)'
BY BlkidAssumption DEF ToldOf

\* The client's wiping brings the probing back to before the prober whose magic
\* it has wiped, so that a backup will be found.
LEMMA ToldWipe ==
    ASSUME Shape, Recent, Told, blkid_do_wipe
    PROVE  Told'
<1>1. /\ pc = "idle" /\ pc' = "idle"
      /\ cur \in Chains
      /\ UNCHANGED <<dev, fltr, seen>>
    BY DEF blkid_do_wipe, Call, Shape, TypeOK
<1>2. \A c, i : ~Pending(c, i) /\ ~Pending(c, i)'
    BY <1>1 DEF Pending
<1>3. CASE UNCHANGED <<disk, idx>>
    BY <1>1, <1>2, <1>3, ToldKept DEF Told
<1>4. ASSUME NEW v \in vals, v.chain = cur, StepBack,
             disk' = [disk EXCEPT ![v.chain][v.by][v.copy] = "none"]
      PROVE  Told'
    <2>1. v.by \in Nat \ {0} /\ idx[cur] \in Nat /\ idx[cur] <= v.by
        BY <1>1, <1>4 DEF Recent, Shape, Data, Sound
    <2>2. idx'[cur] < v.by /\ idx'[cur] <= idx[cur]
        BY <1>1, <1>4, <2>1 DEF StepBack, Shape, Data
    <2>3. \A c \in Chains : c # cur => idx'[c] = idx[c]
        BY <1>4 DEF StepBack, Shape, Data
    <2>4. \A x \in Chains : \A i \in 1..N(x) :
             x # cur \/ i # v.by => disk'[x][i] = disk[x][i]
        BY <1>1, <1>4, <2>1, Wiped DEF Shape, TypeOK
    <2>5. ASSUME NEW c \in Chains, ToldOf(c)
          PROVE  ToldOf(c)'
        <3> SUFFICES ASSUME NEW i \in 1..N(c), State(c, i)' = "good",
                            i <= idx'[c]
                     PROVE  <<i, Magic(c, i)'>> \in seen[c]
            BY <1>1 DEF ToldOf
        <3>1. i \in Nat /\ N(c) \in Nat /\ idx[c] \in Nat /\ idx'[c] \in Nat
            BY <1>1, <1>4, BlkidAssumption DEF StepBack, Shape, Data
        <3>2. c # cur \/ i # v.by
            BY <2>1, <2>2, <3>1
        <3>3. State(c, i)' = State(c, i) /\ Magic(c, i)' = Magic(c, i)
            BY <1>1, <2>4, <3>2, SameSignature
        <3>4. i <= idx[c]
            BY <2>1, <2>2, <2>3, <3>1
        <3> QED
            BY <1>2, <2>5, <3>3, <3>4 DEF ToldOf
    <2> QED
        BY <2>5 DEF Told, Chains
<1> QED
    BY <1>3, <1>4 DEF blkid_do_wipe

\* No step passes a signature in silence.
LEMMA ToldStep ==
    ASSUME InvertLate = FALSE, Shape, Recent, Told, [Next]_vars
    PROVE  Told'
<1> USE DEF Told, Chains
<1>1. idx \in [Chains -> Nat] /\ fltr \in [Chains -> SUBSET Nat]
      /\ seen = [c \in Chains |-> seen[c]]
    BY DEF Shape, Data
<1>2. ASSUME pc = "idle", UNCHANGED <<dev, disk, fltr, idx, seen>>
      PROVE  Told'
    BY <1>2, ToldKept DEF Pending
<1>3. ASSUME \A c \in Chains : idx'[c] = 0 PROVE Told'
    BY <1>3, ToldReset
<1>4. ASSUME NEW c \in Toggled, Enable(c) PROVE Told'
    BY <1>2, <1>4 DEF Enable, Call
<1>5. ASSUME NEW S \in Filters, FilterSuperblocks(S) PROVE Told'
    <2>1. pc = "idle" /\ idx'[SUBLKS] = 0 /\ idx'[PARTS] = idx[PARTS]
          /\ fltr'[PARTS] = fltr[PARTS] /\ seen'[PARTS] = seen[PARTS]
          /\ UNCHANGED <<dev, disk>>
        BY <1>1, <1>5 DEF FilterSuperblocks, Call, ResetPosition
    <2>2. ToldOf(SUBLKS)'
        BY <2>1, ToldReset
    <2>3. ToldOf(PARTS)'
        BY <2>1, ToldKept DEF Pending
    <2> QED
        BY <2>2, <2>3
<1>6. CASE InvertSuperblocksFilter
    <2>1. pc = "idle" /\ idx'[SUBLKS] = 0 /\ fltr'[PARTS] = fltr[PARTS]
          /\ UNCHANGED <<dev, disk, idx, seen>>
        BY <1>1, <1>6 DEF InvertSuperblocksFilter, Call
    <2>2. ToldOf(SUBLKS)'
        BY <2>1, ToldReset
    <2>3. ToldOf(PARTS)'
        BY <2>1, ToldKept DEF Pending
    <2> QED
        BY <2>2, <2>3
<1>7. CASE blkid_reset_probe
    BY <1>3, <1>7 DEF blkid_reset_probe, ResetProbe
<1>8. ASSUME NEW o \in Others, blkid_probe_set_device(o.dev, o.disk)
      PROVE  Told'
    BY <1>3, <1>8 DEF blkid_probe_set_device, ResetProbe
<1>9. CASE blkid_do_wipe
    BY <1>9, ToldWipe
<1>10. CASE blkid_do_probe
    BY <1>2, <1>10 DEF blkid_do_probe, probe, Call
<1>11. ASSUME NEW name \in {"safe", "full"}, blkid_do_allprobe(name)
       PROVE  Told'
    BY <1>2, <1>11 DEF blkid_do_allprobe, probe, Call
<1>12. CASE Client
    BY <1>4, <1>5, <1>6, <1>7, <1>8, <1>9, <1>10, <1>11, <1>12 DEF Client
<1>13. CASE ProbeHead
    BY <1>13, ToldKept DEF ProbeHead, probe, Pending
<1>14. CASE AllHead
    <2>1. \A c, i : ~Pending(c, i)
        BY <1>14 DEF AllHead, Pending
    <2>2. ASSUME NEW c \in Chains, ToldOf(c) PROVE ToldOf(c)'
        <3>1. UNCHANGED <<dev, disk, fltr>>
            BY <1>14 DEF AllHead, probe
        <3>2. \/ idx'[c] = 0
              \/ idx'[c] = idx[c] /\ seen'[c] = seen[c]
            BY <1>1, <1>14 DEF AllHead, ResetPosition
        <3> QED
            BY <2>1, <2>2, <3>1, <3>2, ToldKept, ToldReset
    <2> QED
        BY <2>2
<1>15. CASE ProbeReturned
    <2>1. ASSUME NEW c \in Chains, ToldOf(c) PROVE ToldOf(c)'
        <3>1. UNCHANGED <<dev, disk, fltr, idx>>
            BY <1>15 DEF ProbeReturned, probe
        <3>2. \A i : Pending(c, i) => <<i, Magic(c, i)>> \in seen'[c]
            BY <1>1, <1>15 DEF ProbeReturned, Pending
        <3>3. seen[c] \subseteq seen'[c]
            BY <1>1, <1>15 DEF ProbeReturned
        <3>4. \A i : State(c, i)' = State(c, i) /\ Magic(c, i)' = Magic(c, i)
            BY <3>1, SameSignature
        <3> QED
            BY <2>1, <3>1, <3>2, <3>3, <3>4 DEF ToldOf
    <2> QED
        BY <2>1
<1>16. CASE AllReturned
    <2>1. ASSUME NEW c \in Chains, ToldOf(c) PROVE ToldOf(c)'
        <3>1. UNCHANGED <<dev, disk, fltr>> /\ ResetPosition(cur)
            BY <1>16 DEF AllReturned, probe
        <3>2. CASE c = cur
            <4>1. idx'[c] = 0
                BY <1>1, <3>1, <3>2 DEF ResetPosition
            <4> QED
                BY <4>1, ToldReset
        <3>3. CASE c # cur
            <4>1. idx'[c] = idx[c] /\ seen'[c] = seen[c]
                BY <1>1, <3>1, <3>3 DEF ResetPosition
            <4> QED
                BY <2>1, <3>1, <3>3, <4>1, ToldKept DEF Pending
        <3> QED
            BY <3>2, <3>3
    <2> QED
        BY <2>1
<1>17. CASE Enter
    BY <1>17, ToldKept DEF Enter, probe, Pending
<1>18. CASE Try
    <2> DEFINE k == idx[cur] + 1
    <2>1. /\ pc = "loop" /\ cur \in Chains
          /\ UNCHANGED <<dev, disk, fltr, cur, api, seen>>
          /\ idx' = [idx EXCEPT ![cur] = k]
          /\ pc' \in {"loop", "left"}
          /\ State(cur, k) = "good" => pc' = "left" /\ rc' = "ok"
        BY <1>18 DEF Try, Found, probe, Shape, TypeOK
    <2>2. ASSUME NEW c \in Chains, ToldOf(c) PROVE ToldOf(c)'
        <3>1. CASE c # cur
            <4>1. idx'[c] = idx[c]
                BY <1>1, <2>1, <3>1
            <4> QED
                BY <2>1, <2>2, <3>1, <4>1, ToldKept DEF Pending
        <3>2. CASE c = cur
            <4> SUFFICES ASSUME NEW i \in 1..N(c), State(c, i)' = "good",
                                i <= idx'[c]
                         PROVE  <<i, Magic(c, i)'>> \in seen[c]
                                \/ Pending(c, i)'
                BY <2>1 DEF ToldOf
            <4>1. State(c, i) = "good" /\ Magic(c, i)' = Magic(c, i)
                BY <2>1, SameSignature
            <4>2. idx'[c] = idx[c] + 1 /\ idx[c] \in Nat /\ i \in Nat
                BY <1>1, <2>1, <3>2, BlkidAssumption
            <4>3. CASE i = idx[c] + 1
                BY <2>1, <3>2, <4>1, <4>2, <4>3 DEF Pending
            <4>4. CASE i <= idx[c]
                BY <2>1, <2>2, <3>2, <4>1, <4>4 DEF ToldOf, Pending
            <4> QED
                BY <4>2, <4>3, <4>4
        <3> QED
            BY <3>1, <3>2
    <2> QED
        BY <2>2
<1>19. CASE ChainEnds
    BY <1>19, ToldKept DEF ChainEnds, probe, Pending
<1>20. CASE SafeFound
    BY <1>20, ToldKept DEF SafeFound, probe, Pending
<1>21. CASE SafeDone
    BY <1>21, ToldKept DEF SafeDone, probe, Pending
<1>22. CASE SafeEnd
    <2>1. cur = SUBLKS /\ api = "safe" /\ pc' = "safeleft"
          /\ UNCHANGED <<cur, api, dev, disk, fltr, seen>>
          /\ idx'[PARTS] = idx[PARTS]
        BY <1>1, <1>22 DEF SafeEnd, probe, Shape, TypeOK
    <2>2. ToldOf(SUBLKS)'
        BY <2>1 DEF ToldOf, Pending
    <2>3. ToldOf(PARTS)'
        BY <2>1, ToldKept DEF Pending
    <2> QED
        BY <2>2, <2>3
<1>23. CASE UNCHANGED vars
    BY <1>23, ToldKept DEF vars, probe, Pending
<1> QED
    BY <1>12, <1>13, <1>14, <1>15, <1>16, <1>17, <1>18, <1>19, <1>20, <1>21,
       <1>22, <1>23 DEF Next, Library

\* The chain's position is at its end, or its probing bails out at the start.
Scanned(c) == idx[c] = N(c) \/ (c = SUBLKS /\ dev.size = 0)

\* blkid_do_probe leaves a chain only when it is scanned; and it never stands
\* at the start of a chain that it has entered, where the head of its loop
\* would leave it (idx == -1 in the code).
Walk ==
    /\ cur \in {TOPLGY, PARTS} /\ (pc = "idle" \/ api = "probe") =>
          (enabled[SUBLKS] => Scanned(SUBLKS))
    /\ pc = "idle" /\ cur \in {SUBLKS, PARTS} => idx[cur] # 0
    /\ pc = "head" /\ api = "probe" /\ cur \in {SUBLKS, PARTS} =>
          (enabled[cur] => idx[cur] # 0 \/ Scanned(cur))
    /\ pc = "left" /\ api = "probe" /\ cur \in {SUBLKS, PARTS} =>
          /\ rc = "none" => Scanned(cur)
          /\ rc # "none" => idx[cur] # 0

\* The client's calls between two rounds of a scan keep this.
LEMMA WalkClient ==
    ASSUME Shape, Walk, Client
    PROVE  Walk'
<1> USE DEF Walk, Call
<1>1. pc = "idle"
    BY DEF Client, Enable, FilterSuperblocks, InvertSuperblocksFilter,
           blkid_reset_probe, blkid_probe_set_device, blkid_do_wipe,
           blkid_do_probe, blkid_do_allprobe
<1>2. CASE pc' = "idle" /\ cur' = NoChain
    BY <1>2
<1>3. CASE pc' = "idle" /\ UNCHANGED <<cur, idx, enabled, dev>>
    BY <1>1, <1>3 DEF Scanned
<1>4. CASE blkid_do_wipe
    <2>1. cur \in Chains /\ UNCHANGED <<enabled, dev, pc>>
        BY <1>4 DEF blkid_do_wipe, Shape, TypeOK
    <2>2. CASE StepBack
        <3> DEFINE i == IF idx[cur] > 0 THEN idx[cur] - 1 ELSE 0
        <3>1. /\ idx'[cur] = i
              /\ cur # SUBLKS => idx'[SUBLKS] = idx[SUBLKS]
              /\ i \in Nat
            BY <2>1, <2>2 DEF StepBack, Shape, Data, Chains
        <3>2. CASE i > 0
            BY <1>1, <2>1, <2>2, <3>1, <3>2 DEF StepBack, Scanned
        <3>3. CASE i = 0
            BY <1>1, <2>1, <2>2, <3>1, <3>3 DEF StepBack, Scanned
        <3> HIDE DEF i
        <3> QED
            BY <3>1, <3>2, <3>3
    <2> QED
        BY <1>1, <1>3, <1>4, <2>1, <2>2 DEF blkid_do_wipe
<1>5. CASE blkid_do_probe
    BY <1>1, <1>3, <1>5 DEF blkid_do_probe, probe, Scanned
<1>6. ASSUME NEW name \in {"safe", "full"}, blkid_do_allprobe(name)
      PROVE  Walk'
    BY <1>1, <1>3, <1>6 DEF blkid_do_allprobe, probe
<1> QED
    BY <1>1, <1>2, <1>3, <1>4, <1>5, <1>6
    DEF Client, Enable, FilterSuperblocks, InvertSuperblocksFilter,
        blkid_reset_probe, ResetProbe, blkid_probe_set_device, probe

\* So does each round of the library's loops.
LEMMA WalkLibrary ==
    ASSUME Shape, Walk, Library
    PROVE  Walk'
<1> USE DEF Walk, Chains
<1>1. CASE ProbeHead
    <2>1. pc = "head" /\ api = "probe" /\ rc = "none"
          /\ UNCHANGED <<idx, dev, enabled, api>>
        BY <1>1 DEF ProbeHead, probe, Shape, Control
    <2>2. CASE pc' = "idle"
        BY <1>1, <2>1, <2>2 DEF ProbeHead, StartOrEnd
    <2> DEFINE next == IF cur = NoChain THEN SUBLKS
                       ELSE IF rc = "none" /\ ChainDone(cur) THEN cur + 1
                       ELSE cur
    <2>3. ASSUME pc' # "idle"
          PROVE  /\ cur' = next /\ next # NoChain
                 /\ pc' = IF enabled[next] THEN "enter" ELSE "head"
        BY <1>1, <2>3 DEF ProbeHead, Return
    <2>4. pc' # "idle" => /\ pc' = "head" => ~enabled[cur']
                          /\ pc' \in {"head", "enter"}
        <3> HIDE DEF next
        <3> QED
            BY <2>1, <2>3
    <2>5. CASE pc' # "idle" /\ cur' = cur
        BY <2>1, <2>4, <2>5 DEF Scanned
    <2>6. CASE pc' # "idle" /\ cur' # cur
        <3>1. cur' = SUBLKS \/ (cur \in {SUBLKS, TOPLGY} /\ cur' = cur + 1)
            <4>1. cur \in {0, 1, 2, 3}
                BY DEF Shape, TypeOK
            <4>2. CASE cur = NoChain
                <5>1. cur' = next
                    BY <2>3, <2>6
                <5>2. next = SUBLKS
                    BY <4>2
                <5> HIDE DEF next
                <5> QED
                    BY <5>1, <5>2
            <4>3. CASE cur # NoChain
                <5>1. cur' = cur + 1 /\ cur' # NoChain
                    BY <2>3, <2>6, <4>3
                <5> QED
                    BY <4>1, <4>3, <5>1
            <4> QED
                BY <4>2, <4>3
        <3>2. cur = SUBLKS /\ cur' = TOPLGY /\ enabled[SUBLKS] =>
                  Scanned(SUBLKS)
            BY <2>1, <2>3, <2>6 DEF ChainDone, Scanned
        <3> QED
            BY <2>1, <2>4, <2>6, <3>1, <3>2 DEF Scanned
    <2> QED
        BY <2>2, <2>5, <2>6
<1>2. CASE ProbeReturned
    BY <1>2 DEF ProbeReturned, probe, Scanned
<1>3. CASE AllHead
    BY <1>3 DEF AllHead, AllNext, StartOrEnd, Return
<1>4. CASE AllReturned
    BY <1>4 DEF AllReturned, AllNext, StartOrEnd, Return, Shape, TypeOK
<1>5. CASE Enter
    BY <1>5 DEF Enter, PassedOver, probe, Scanned, Shape, Control, TypeOK
<1>6. CASE Try
    <2>1. /\ cur \in Chains /\ idx[cur] \in Nat
          /\ idx' = [idx EXCEPT ![cur] = idx[cur] + 1]
          /\ UNCHANGED <<dev, enabled, cur, api>> /\ pc = "loop"
        BY <1>6 DEF Try, probe, Shape, Data, TypeOK
    <2>3. pc' = "loop" \/ (pc' = "left" /\ rc' # "none")
        <3>1. CASE State(cur, idx[cur] + 1) = "good"
            BY <1>6, <3>1 DEF Try, Found
        <3>2. CASE State(cur, idx[cur] + 1) # "good"
            <4>1. pc' = pc \/ (pc' = "left" /\ rc' = "err")
                BY <1>6, <3>2 DEF Try
            <4>2. pc = "loop"
                BY <2>1
            <4> QED
                BY <4>1, <4>2
        <3> QED
            BY <3>1, <3>2
    <2>2. /\ idx'[cur] # 0
          /\ cur # SUBLKS => idx'[SUBLKS] = idx[SUBLKS]
        BY <2>1 DEF Shape, Data
    <2> QED
        BY <2>1, <2>2, <2>3 DEF Scanned
<1>7. CASE ChainEnds
    BY <1>7 DEF ChainEnds, probe, Scanned, Shape, Control
<1>8. CASE SafeFound \/ SafeDone \/ SafeEnd
    <2>1. api' = "safe" /\ pc' \in {"enter", "safeend", "safeleft"}
        BY <1>8 DEF SafeFound, SafeDone, SafeEnd, Shape, TypeOK
    <2> QED
        BY <2>1
<1> QED
    BY <1>1, <1>2, <1>3, <1>4, <1>5, <1>6, <1>7, <1>8 DEF Library

\* At the end of a scan, each signature has been told of.
LEMMA CompleteStep ==
    ASSUME Shape, Told, Walk, ScanComplete, [Next]_vars
    PROVE  ScanComplete'
<1>1. CASE UNCHANGED vars
    <2>1. \A c, i : State(c, i)' = State(c, i) /\ Magic(c, i)' = Magic(c, i)
        BY <1>1, SameSignature DEF vars, probe
    <2> QED
        BY <1>1, <2>1 DEF ScanComplete, Answered, Good, vars, probe
<1>2. CASE ProbeHead /\ pc' = "idle"
    <2>1. /\ cur = PARTS /\ rc = "none" /\ ChainDone(PARTS)
          /\ pc = "head" /\ api = "probe"
          /\ UNCHANGED <<dev, disk, fltr, enabled, idx, seen>>
        BY <1>2 DEF ProbeHead, probe, Shape, TypeOK, Chains
    <2>2. \A c \in {SUBLKS, PARTS} : enabled[c] => Scanned(c)
        BY <2>1 DEF Walk, ChainDone, Scanned
    <2>3. ASSUME NEW c \in {SUBLKS, PARTS}, enabled[c], NEW i \in 1..N(c),
                 State(c, i) = "good"
          PROVE  <<i, Magic(c, i)>> \in seen[c]
        <3>1. ~(c = SUBLKS /\ dev.size = 0)
            BY <2>3 DEF State, Skipped
        <3>2. i <= idx[c]
            BY <2>2, <2>3, <3>1, BlkidAssumption DEF Scanned, Chains
        <3> QED
            BY <2>1, <2>3, <3>2 DEF Told, ToldOf, Pending
    <2>4. \A c, i : State(c, i)' = State(c, i) /\ Magic(c, i)' = Magic(c, i)
        BY <2>1, SameSignature
    <2> QED
        BY <2>1, <2>3, <2>4 DEF ScanComplete, Good, Chains
<1>3. CASE Next /\ ~(ProbeHead /\ pc' = "idle")
    <2>1. Answered("probe", "none")' => noscan'
        <3>1. CASE Client
            BY <3>1
            DEF Client, Call, Enable, FilterSuperblocks,
                InvertSuperblocksFilter, blkid_reset_probe,
                blkid_probe_set_device, blkid_do_wipe, blkid_do_probe,
                blkid_do_allprobe, Answered, probe
        <3>2. CASE Library
            BY <1>3, <3>2
            DEF Library, ProbeHead, AllHead, ProbeReturned, AllReturned,
                Enter, Try, Found, ChainEnds, SafeFound, SafeDone, SafeEnd,
                Answered, Shape, TypeOK
        <3> QED
            BY <1>3, <3>1, <3>2 DEF Next
    <2> QED
        BY <2>1 DEF ScanComplete
<1> QED
    BY <1>1, <1>2, <1>3

\* When blkid_do_probe says that it is done, each signature that is now on the
\* device was told of, whatever the client has wiped, filtered, reset, enabled
\* or probed otherwise on the way, if it inverts a filter only at the start.
THEOREM ScanMissesNothing ==
    ASSUME InvertLate = FALSE
    PROVE  Spec => []ScanComplete
<1> DEFINE Inv == Single /\ Recent /\ Told /\ Walk /\ ScanComplete
<1>1. Init => Inv
    <2> SUFFICES ASSUME Init PROVE Inv
        OBVIOUS
    <2>1. Single /\ Recent
        BY DEF Init, Single, Recent, OneBy, Locals
    <2>2. Told
        BY BlkidAssumption DEF Init, Told, ToldOf, Chains
    <2>3. Walk /\ ScanComplete
        BY DEF Init, Walk, ScanComplete, Answered
    <2> QED
        BY <2>1, <2>2, <2>3
<1>2. Shape /\ Inv /\ [Next]_vars => Inv'
    <2> SUFFICES ASSUME Shape, Inv, [Next]_vars PROVE Inv'
        OBVIOUS
    <2>1. Walk'
        <3>1. CASE UNCHANGED vars
            BY <3>1 DEF vars, probe, Walk, Scanned
        <3> QED
            BY <3>1, WalkClient, WalkLibrary DEF Next
    <2> QED
        BY <2>1, SingleStep, RecentStep, ToldStep, CompleteStep
<1> QED
    BY <1>1, <1>2, ShapeAlways, PTL DEF Spec

-----------------------------------------------------------------------------
(***************************************************************************)
(* Probing all chains                                                      *)
(***************************************************************************)
\* The result has nothing of chain c; its superblock is that of prober i.
Gone(c) == \A v \in vals : v.chain # c

ResultOf(vs, i) ==
    /\ Values(SUBLKS, i) \subseteq vs
    /\ \A v \in vs : v.chain = SUBLKS => v.by = i

\* Types are of superblocks, and types of tables of partition tables.
TypesFit(vs) ==
    \A v \in vs : /\ v.name = "TYPE" => v.chain = SUBLKS
                  /\ v.name = "PTTYPE" => v.chain = PARTS

IsFirst(S, i) == i \in S /\ \A j \in S : i <= j

\* The position of chain c has passed no signature.
NonePassed(c) == \A j \in Good(c) : idx[c] < j

Wipes(i) == Probers[SUBLKS][i].wipes

\* Behind the superblocks, a full probe has the first one and its wiper.
SuperblockTold ==
    \/ Good(SUBLKS) = {} /\ Gone(SUBLKS)
    \/ \E i \in Good(SUBLKS) :
          /\ IsFirst(Good(SUBLKS), i) /\ ResultOf(vals, i)
          /\ count > 0
          /\ Wipes(i) <=> wiper = SUBLKS

\* Behind the partition tables, a younger table has removed it.
FullTold ==
    \/ Good(SUBLKS) = {} /\ Gone(SUBLKS)
    \/ \E i \in Good(SUBLKS) :
          /\ IsFirst(Good(SUBLKS), i)
          /\ IF Outdated(i) THEN Gone(SUBLKS) ELSE ResultOf(vals, i)
          /\ count > 0

InSublks ==
    /\ count = 0
    /\ (pc = "left" /\ rc = "ok") \/ wiper = NoChain
    /\ pc = "enter" => idx[SUBLKS] = 0
    /\ pc = "loop" => NonePassed(SUBLKS) /\ Gone(SUBLKS)
    /\ pc = "left" /\ rc = "none" => Good(SUBLKS) = {} /\ Gone(SUBLKS)
    /\ pc = "left" /\ rc = "ok" =>
          /\ IsFirst(Good(SUBLKS), idx[SUBLKS])
          /\ ResultOf(vals, idx[SUBLKS])
          /\ Wipes(idx[SUBLKS]) <=> wiper = SUBLKS

InParts ==
    /\ pc # "left" => SuperblockTold
    /\ pc = "enter" => idx[PARTS] = 0
    /\ pc = "loop" => NonePassed(PARTS)
    /\ pc = "left" /\ rc # "err" => FullTold

FullInv ==
    pc # "idle" /\ api = "full" /\ enabled[SUBLKS] =>
        /\ count \in Nat
        /\ cur = SUBLKS => InSublks
        /\ cur = TOPLGY => SuperblockTold
        /\ cur = PARTS => InParts

-----------------------------------------------------------------------------
\* superblocks_safeprobe: the signatures that the position has passed, and what
\* the locals say of n signatures F, none of which ends the search.
Met == {i \in Good(SUBLKS) : i <= idx[SUBLKS]}

Ends(i) == Probers[SUBLKS][i].usage \in {"raid", "crypto"}

Weighed(F, n) ==
    /\ n \in Nat /\ safe.intol \in Nat
    /\ \A i \in F : ~Ends(i)
    /\ n = 0 => F = {} /\ safe.idx = 0
    /\ n = 1 => F = {safe.idx}
    /\ n > 0 => /\ IsFirst(F, safe.idx) /\ ResultOf(safe.vals, safe.idx)
                /\ Wipes(safe.idx) => wiper = SUBLKS
    /\ safe.intol = 0 => \A i \in F : Probers[SUBLKS][i].tolerant

\* No other file system than that of prober i could claim the device.
Claims(i) ==
    /\ IsFirst(Leading, i)
    /\ \/ Tiny
       \/ Leading = {i}
       \/ \A j \in Leading : Ends(j) \/ Probers[SUBLKS][j].tolerant

\* Behind the superblocks.
SafeTold ==
    \/ Gone(SUBLKS)
    \/ \E i \in Leading :
          /\ Claims(i) /\ ResultOf(vals, i)
          /\ Wipes(i) => wiper = SUBLKS
          /\ Probers[SUBLKS][i].usage = "raid" /\ ~Wipes(i) =>
                ignorept /\ wiper = NoChain

\* Behind the partition tables.
TablesTold ==
    \/ Gone(SUBLKS)
    \/ \E i \in Leading :
          /\ Claims(i) /\ ResultOf(vals, i)
          /\ enabled[PARTS] =>
                \/ Gone(PARTS)
                \/ /\ Probers[SUBLKS][i].usage = "raid" => Wipes(i)
                   /\ ~Outdated(i)

\* A round of the search has found the signature at the position.
JustFound ==
    LET i == idx[SUBLKS] IN
    /\ i \in Good(SUBLKS) /\ ResultOf(vals, i)
    /\ Wipes(i) => wiper = SUBLKS

SafeSublks ==
    /\ pc = "head" => wiper = NoChain
    /\ pc = "left" => rc # "ambivalent"
    /\ pc \in {"enter", "loop"} =>
          /\ Weighed(Met, safe.count)
          /\ safe.count = 0 => wiper = NoChain
    /\ pc = "loop" => Gone(SUBLKS)
    /\ pc = "left" /\ rc = "none" =>
          Met = Good(SUBLKS) /\ Weighed(Met, safe.count) /\ Gone(SUBLKS)
    /\ pc = "left" /\ rc = "ok" =>
          /\ JustFound /\ Weighed(Met \ {idx[SUBLKS]}, safe.count)
          /\ safe.count = 0 /\ ~Wipes(idx[SUBLKS]) => wiper = NoChain
    /\ pc = "safeend" /\ rc = "none" =>
          Met = Good(SUBLKS) /\ Weighed(Met, safe.count) /\ Gone(SUBLKS)
    /\ pc = "safeend" /\ rc # "none" =>
          /\ safe.count \in Nat
          /\ JustFound /\ Weighed(Met \ {idx[SUBLKS]}, safe.count - 1)
          /\ Ends(idx[SUBLKS])
          /\ safe.count = 1 /\ ~Wipes(idx[SUBLKS]) => wiper = NoChain
    /\ pc = "safeleft" /\ rc \in {"ok", "none"} => SafeTold

SafeParts ==
    /\ pc # "left" => SafeTold
    /\ pc = "enter" => idx[PARTS] = 0
    /\ pc = "loop" => /\ NonePassed(PARTS) /\ Gone(PARTS)
                      /\ ignorept => wiper # NoChain
    /\ pc = "left" /\ rc # "err" => TablesTold

SafeInv ==
    pc # "idle" /\ api = "safe" /\ enabled[SUBLKS] =>
        /\ cur = SUBLKS => SafeSublks
        /\ cur = TOPLGY => SafeTold
        /\ cur = PARTS => SafeParts

-----------------------------------------------------------------------------
\* Nothing that the library does changes what there is to be found.
LEMMA SameProbe ==
    ASSUME UNCHANGED probe
    PROVE  /\ \A c, i : State(c, i)' = State(c, i)
           /\ \A c, i : Values(c, i)' = Values(c, i)
           /\ \A c : Good(c)' = Good(c)
           /\ Leading' = Leading /\ Tiny' = Tiny
           /\ \A i : Outdated(i)' = Outdated(i)
<1>1. UNCHANGED <<dev, disk, fltr, enabled>>
    BY DEF probe
<1>2. \A c, i : State(c, i)' = State(c, i) /\ Magic(c, i)' = Magic(c, i)
    BY <1>1, SameSignature
<1>3. \A c : Good(c)' = Good(c)
    BY <1>2 DEF Good
<1> QED
    BY <1>1, <1>2, <1>3 DEF Values, Leading, Tiny, Outdated

\* The call goes on with the next chain, or returns.
LEMMA NextChain ==
    ASSUME NEW n, NEW r, AllNext(n, r), cur \in Chains
    PROVE  /\ count' = n
           /\ \/ /\ pc' = "head" /\ cur # PARTS /\ cur' = cur + 1
                 /\ r \notin {"err", "ambivalent"}
                 /\ UNCHANGED <<rc, wiper, ignorept>>
              \/ /\ pc' = "idle" /\ rc' = r /\ r \in {"err", "ambivalent"}
              \/ /\ pc' = "idle" /\ cur = PARTS
                 /\ r \notin {"err", "ambivalent"}
                 /\ rc' = IF n > 0 THEN "ok" ELSE "none"
BY DEF AllNext, Return, StartOrEnd, Chains

\* The values that probing prober i yields have the type of its chain.
LEMMA ValuesFit ==
    ASSUME NEW c \in Chains, NEW i
    PROVE  /\ TypesFit(Values(c, i))
           /\ c = SUBLKS => \E v \in Values(c, i) : v.name = "TYPE" /\ v.by = i
<1>1. \A v \in Values(c, i) : v.chain = c /\ v.name \in Names(c)
    BY DEF Values, Value
<1>2. TypesFit(Values(c, i))
    BY <1>1 DEF TypesFit, Names, Chains
<1>3. ASSUME c = SUBLKS
      PROVE  \E v \in Values(c, i) : v.name = "TYPE" /\ v.by = i
    <2> DEFINE v == Value("TYPE", c, i, Magic(c, i))
    <2>1. v \in Values(c, i)
        BY <1>3 DEF Values, Names
    <2>2. v.name = "TYPE" /\ v.by = i
        BY DEF Value
    <2> QED
        BY <2>1, <2>2
<1> QED
    BY <1>2, <1>3

\* So does every result.
LEMMA TypesFitStep ==
    ASSUME Shape, Single, TypesFit(vals), TypesFit(safe.vals), [Next]_vars
    PROVE  TypesFit(vals') /\ TypesFit(safe'.vals)
<1>1. CASE Try
    <2> DEFINE i == idx[cur] + 1
    <2>1. cur \in Chains /\ pc = "loop" /\ UNCHANGED safe
        BY <1>1 DEF Try, locals, Shape, TypeOK
    <2>2. CASE State(cur, i) = "good"
        <3>1. vals' \subseteq vals \cup Values(cur, i)
            BY <1>1, <2>2 DEF Try, Found, UseWiper, Without
        <3> QED
            BY <2>1, <3>1, ValuesFit DEF TypesFit
    <2>3. CASE State(cur, i) # "good"
        <3>1. vals' \in {vals, Refused(vals, cur, i), Without(vals, cur)}
            BY <1>1, <2>3 DEF Try
        <3>2. Refused(vals, cur, i) = vals
            BY <2>1, RefusedLeavesNothing DEF Single
        <3> QED
            BY <2>1, <3>1, <3>2 DEF Without, TypesFit
    <2> QED
        BY <2>2, <2>3
<1>2. CASE ~Try
    <2>1. \/ vals' \subseteq vals
          \/ vals' \subseteq vals \cup safe.vals
        BY <1>2
        DEF Next, vars, Client, Call, Enable, FilterSuperblocks,
            InvertSuperblocksFilter, blkid_reset_probe, ResetProbe,
            blkid_probe_set_device, blkid_do_wipe, blkid_do_probe,
            blkid_do_allprobe, Library, ProbeHead, AllHead, ProbeReturned,
            AllReturned, Enter, ChainEnds, SafeFound, SafeDone, SafeEnd,
            FirstResult, Without
    <2>2. safe'.vals \subseteq safe.vals \cup vals
        <3>1. CASE SafeFound
            BY <3>1 DEF SafeFound, Only, Shape, Data
        <3>2. CASE AllHead
            <4>1. safe' \in {safe, Locals}
                BY <3>2 DEF AllHead
            <4> QED
                BY <4>1 DEF Locals
        <3>3. CASE ~SafeFound /\ ~AllHead
            <4>1. UNCHANGED safe
                BY <1>2, <3>3
                DEF Next, vars, Client, Call, Enable, FilterSuperblocks,
                    InvertSuperblocksFilter, blkid_reset_probe, ResetProbe,
                    blkid_probe_set_device, blkid_do_wipe, blkid_do_probe,
                    blkid_do_allprobe, Library, ProbeHead, ProbeReturned,
                    AllReturned, Enter, ChainEnds, SafeDone, SafeEnd, locals
            <4> QED
                BY <4>1
        <3> QED
            BY <3>1, <3>2, <3>3
    <2> QED
        BY <2>1, <2>2 DEF TypesFit
<1> QED
    BY <1>1, <1>2

\* A round of a chain's loop, but for refused signatures and lost wipers.
LEMMA TryYields ==
    ASSUME Shape, Single, Try
    PROVE  LET i == idx[cur] + 1 IN
           /\ pc = "loop" /\ cur \in Chains /\ i \in 1..N(cur)
           /\ rc = "none" /\ idx[cur] \in Nat
           /\ idx' = [idx EXCEPT ![cur] = i] /\ idx'[cur] = i
           /\ UNCHANGED <<probe, cur, ignorept, api, count, safe>>
           /\ \/ /\ State(cur, i) = "good" /\ Found(i)
              \/ /\ State(cur, i) # "good" /\ UNCHANGED wiper
                 /\ pc' = "loop" /\ rc' = "none" /\ vals' = vals
              \/ /\ State(cur, i) # "good" /\ pc' = "left" /\ rc' = "err"
<1> DEFINE i == idx[cur] + 1
<1>1. pc = "loop" /\ cur \in Chains /\ rc = "none" /\ idx[cur] \in Nat
    BY DEF Try, Shape, TypeOK, Control, Data
<1>2. i \in 1..N(cur)
    BY <1>1, BlkidAssumption DEF Try, Shape, TypeOK
<1>3. /\ idx' = [idx EXCEPT ![cur] = i] /\ idx'[cur] = i
      /\ UNCHANGED <<probe, cur, ignorept, api, count, safe>>
    BY <1>1 DEF Try, locals, Shape, Data
<1>4. CASE State(cur, i) = "good"
    BY <1>1, <1>2, <1>3, <1>4 DEF Try
<1>5. CASE State(cur, i) # "good"
    <2>1. Refused(vals, cur, i) = vals
        BY <1>1, RefusedLeavesNothing DEF Single
    <2>2. \/ UNCHANGED <<vals, wiper, pc, rc>>
          \/ vals' = Refused(vals, cur, i) /\ UNCHANGED <<wiper, pc, rc>>
          \/ rc' = "err" /\ pc' = "left"
        BY <1>5 DEF Try
    <2> QED
        BY <1>1, <1>2, <1>3, <1>5, <2>1, <2>2
<1> QED
    BY <1>4, <1>5

\* A search from the start has come to the first signature, or to the end.
LEMMA FirstFound ==
    ASSUME NEW c \in Chains, Shape, NonePassed(c), idx[c] < N(c)
    PROVE  /\ State(c, idx[c] + 1) = "good" => IsFirst(Good(c), idx[c] + 1)
           /\ State(c, idx[c] + 1) # "good" =>
                 \A j \in Good(c) : idx[c] + 1 < j
<1>1. idx[c] \in Nat /\ N(c) \in Nat /\ idx[c] + 1 \in 1..N(c)
    BY BlkidAssumption DEF Shape, Data
<1>2. \A j \in Good(c) : j \in Nat /\ State(c, j) = "good" /\ idx[c] < j
    BY BlkidAssumption DEF Good, NonePassed
<1> QED
    BY <1>1, <1>2 DEF IsFirst, Good

\* A chain that is not probed has no signatures.
LEMMA NothingThere ==
    ASSUME NEW c \in Chains, Shape,
           \/ c = SUBLKS /\ dev.size = 0
           \/ NonePassed(c) /\ idx[c] = N(c)
    PROVE  Good(c) = {}
<1>1. CASE c = SUBLKS /\ dev.size = 0
    BY <1>1 DEF Good, State, Skipped
<1>2. CASE NonePassed(c) /\ idx[c] = N(c)
    BY <1>2, BlkidAssumption DEF NonePassed, Good
<1> QED
    BY <1>1, <1>2

\* There is one first element at most.
LEMMA OneFirst ==
    ASSUME NEW S, S \subseteq Nat, NEW i, IsFirst(S, i)
    PROVE  Earliest(S) = i
<1>1. \E e \in S : \A j \in S : e <= j
    BY DEF IsFirst
<1>2. Earliest(S) \in S /\ \A j \in S : Earliest(S) <= j
    <2> DEFINE P(e) == \A j \in S : e <= j
    <2>1. Earliest(S) = CHOOSE e \in S : P(e)
        BY DEF Earliest
    <2>2. \E e \in S : P(e)
        BY <1>1
    <2> HIDE DEF P
    <2>3. Earliest(S) \in S /\ P(Earliest(S))
        BY <2>1, <2>2
    <2> QED
        BY <2>3 DEF P
<1>3. i \in Nat /\ Earliest(S) \in Nat
    BY <1>2 DEF IsFirst
<1>4. i <= Earliest(S) /\ Earliest(S) <= i
    BY <1>2 DEF IsFirst
<1> QED
    BY <1>3, <1>4

LEMMA GoodNat == \A c \in Chains : Good(c) \subseteq Nat
BY BlkidAssumption DEF Good

\* What get_fstype reads.
LEMMA FullAnswers ==
    ASSUME FullTold, TypesFit(vals)
    PROVE  /\ Good(SUBLKS) # {} =>
                 IF Outdated(Earliest(Good(SUBLKS))) THEN ~Has("TYPE")
                 ELSE TypeBy(Earliest(Good(SUBLKS)))
           /\ Good(SUBLKS) = {} => ~Has("TYPE")
           /\ Good(SUBLKS) # {} => count > 0
<1>1. Gone(SUBLKS) => ~Has("TYPE")
    BY DEF Gone, TypesFit, Has
<1>2. \A i : ResultOf(vals, i) => TypeBy(i)
    BY ValuesFit DEF ResultOf, TypeBy, Chains
<1>3. CASE Good(SUBLKS) = {} /\ Gone(SUBLKS)
    BY <1>1, <1>3
<1>4. ASSUME NEW i \in Good(SUBLKS), IsFirst(Good(SUBLKS), i),
             IF Outdated(i) THEN Gone(SUBLKS) ELSE ResultOf(vals, i),
             count > 0
      PROVE  /\ IF Outdated(Earliest(Good(SUBLKS))) THEN ~Has("TYPE")
                ELSE TypeBy(Earliest(Good(SUBLKS)))
             /\ Good(SUBLKS) # {} /\ count > 0
    <2>1. Earliest(Good(SUBLKS)) = i
        BY <1>4, GoodNat, OneFirst DEF Chains
    <2> QED
        BY <1>1, <1>2, <1>4, <2>1
<1> QED
    BY <1>3, <1>4 DEF FullTold

\* Without partition tables in use none is younger.
LEMMA NotOutdated ==
    ASSUME SuperblockTold, ~enabled[PARTS] \/ Good(PARTS) = {}
    PROVE  FullTold
BY DEF SuperblockTold, FullTold, Outdated

\* A step that leaves the superblocks' part of the result, its wiper and the
\* count.
LEMMA SuperblockKept ==
    ASSUME SuperblockTold, UNCHANGED probe, count' >= count, count' \in Nat,
           count \in Nat, wiper' = wiper,
           \A v : v.chain = SUBLKS => (v \in vals <=> v \in vals')
    PROVE  SuperblockTold'
<1>1. /\ Good(SUBLKS)' = Good(SUBLKS)
      /\ \A i : Values(SUBLKS, i)' = Values(SUBLKS, i)
    BY SameProbe
<1>2. Gone(SUBLKS) => Gone(SUBLKS)'
    BY DEF Gone
<1>3. \A i : Wipes(i)' = Wipes(i)
    BY DEF Wipes
<1>4. ASSUME NEW i, ResultOf(vals, i) PROVE ResultOf(vals', i)
    <2>1. \A v \in Values(SUBLKS, i) : v.chain = SUBLKS
        BY ValuesOwn
    <2> QED
        BY <1>4, <2>1 DEF ResultOf
<1>5. ASSUME NEW i, ResultOf(vals', i) PROVE ResultOf(vals, i)'
    BY <1>1, <1>5 DEF ResultOf
<1>6. CASE Good(SUBLKS) = {} /\ Gone(SUBLKS)
    BY <1>1, <1>2, <1>6 DEF SuperblockTold
<1>7. ASSUME NEW i \in Good(SUBLKS), IsFirst(Good(SUBLKS), i),
             ResultOf(vals, i), count > 0, Wipes(i) <=> wiper = SUBLKS
      PROVE  SuperblockTold'
    <2>1. ResultOf(vals, i)' /\ count' > 0 /\ (Wipes(i)' <=> wiper' = SUBLKS)
        BY <1>3, <1>4, <1>5, <1>7
    <2>2. i \in Good(SUBLKS)' /\ IsFirst(Good(SUBLKS), i)'
        BY <1>1, <1>7 DEF IsFirst
    <2> QED
        BY <2>1, <2>2 DEF SuperblockTold
<1> QED
    BY <1>6, <1>7 DEF SuperblockTold

\* A full probe, step by step.
LEMMA FullLibrary ==
    ASSUME Shape, Single, TypesFit(vals), TypesFit(vals'), Shape', FullInv,
           Library, api = "full", enabled[SUBLKS]
    PROVE  FullInv' /\ FullprobeTellsFirst'
<1>1. /\ UNCHANGED probe /\ api' = "full" /\ enabled' = enabled
      /\ pc # "idle" /\ cur \in Chains /\ wiper \in {SUBLKS, NoChain}
    <2>1. pc # "idle"
        BY DEF Library, ProbeHead, AllHead, ProbeReturned, AllReturned, Enter,
               Try, ChainEnds, SafeFound, SafeDone, SafeEnd
    <2>2. UNCHANGED <<probe, api>>
        BY DEF Library, ProbeHead, AllHead, ProbeReturned, AllReturned, Enter,
               Try, ChainEnds, SafeFound, SafeDone, SafeEnd
    <2> QED
        BY <2>1, <2>2 DEF Shape, TypeOK, Control, probe
<1>2. /\ \A c : Good(c)' = Good(c)
      /\ \A c, i : Values(c, i)' = Values(c, i)
      /\ \A c, i : State(c, i)' = State(c, i)
      /\ \A i : Outdated(i)' = Outdated(i)
    BY <1>1, SameProbe
<1>3. /\ count \in Nat
      /\ cur = SUBLKS => InSublks
      /\ cur = TOPLGY => SuperblockTold
      /\ cur = PARTS => InParts
    BY <1>1 DEF FullInv
<1>4. idx \in [Chains -> Nat] /\ ~ignorept
    BY DEF Shape, Data, Control
<1>5. ASSUME pc' # "idle" PROVE FullprobeTellsFirst'
    BY <1>5 DEF FullprobeTellsFirst, Answered
<1>6. CASE AllHead /\ enabled[cur]
    <2>1. /\ UNCHANGED <<cur, wiper, count, vals>>
          /\ pc' = "enter" /\ idx'[cur] = 0
        BY <1>1, <1>4, <1>6 DEF AllHead, ResetPosition
    <2>2. CASE cur = SUBLKS
        BY <1>1, <1>3, <1>5, <2>1, <2>2, <1>6
        DEF FullInv, InSublks, AllHead
    <2>3. CASE cur # SUBLKS
        <3>1. SuperblockTold
            BY <1>1, <1>3, <1>6, <2>3 DEF AllHead, InParts, Chains
        <3>2. SuperblockTold'
            BY <1>1, <1>3, <2>1, <3>1, SuperblockKept
        <3> QED
            BY <1>1, <1>3, <1>5, <2>1, <2>3, <3>2 DEF FullInv, InParts
    <2> QED
        BY <2>2, <2>3
<1>7. CASE AllHead /\ ~enabled[cur]
    <2>1. AllNext(count, "none") /\ UNCHANGED vals /\ pc = "head"
        BY <1>7 DEF AllHead
    <2>2. cur \in {TOPLGY, PARTS} /\ SuperblockTold
        BY <1>1, <1>3, <1>7, <2>1 DEF InParts, Chains
    <2>3. CASE pc' = "head"
        <3>1. cur' = PARTS /\ UNCHANGED <<wiper, count>>
            BY <1>1, <2>1, <2>2, <2>3, NextChain
        <3>2. SuperblockTold'
            BY <1>1, <1>3, <2>1, <2>2, <3>1, SuperblockKept
        <3> QED
            BY <1>1, <1>3, <1>5, <2>3, <3>1, <3>2 DEF FullInv, InParts
    <2>4. CASE pc' = "idle"
        <3>1. cur = PARTS /\ rc' = IF count > 0 THEN "ok" ELSE "none"
            BY <1>1, <2>1, <2>4, NextChain
        <3>2. FullTold
            BY <1>7, <2>2, <3>1, NotOutdated
        <3>3. FullprobeTellsFirst'
            BY <1>1, <1>2, <2>1, <3>1, <3>2, FullAnswers
            DEF FullprobeTellsFirst, Answered, Has, TypeBy
        <3> QED
            BY <2>4, <3>3 DEF FullInv
    <2> QED
        BY <1>1, <2>1, <2>3, <2>4, NextChain
<1>8. CASE AllReturned
    <2> DEFINE n == IF rc = "ok" THEN count + 1 ELSE count
    <2>1. /\ AllNext(n, rc) /\ UNCHANGED vals /\ pc = "left"
          /\ n \in Nat /\ n >= count
        BY <1>1, <1>3, <1>8 DEF AllReturned, Shape, TypeOK
    <2>2. rc \in {"ok", "none", "err", "ambivalent"}
        BY DEF Shape, TypeOK
    <2> HIDE DEF n
    <2>3. CASE pc' = "head"
        <3>1. /\ cur' = cur + 1 /\ cur # PARTS /\ rc \in {"ok", "none"}
              /\ UNCHANGED wiper /\ count' = n
            BY <1>1, <2>1, <2>2, <2>3, NextChain
        <3>2. CASE cur = TOPLGY
            <4>1. SuperblockTold'
                BY <1>1, <1>3, <2>1, <3>1, <3>2, SuperblockKept
            <4> QED
                BY <1>1, <1>3, <1>5, <2>1, <2>3, <3>1, <3>2, <4>1
                DEF FullInv, InParts
        <3>3. CASE cur = SUBLKS
            <4>1. SuperblockTold'
                <5>1. CASE rc = "none"
                    BY <1>2, <1>3, <2>1, <3>3, <5>1
                    DEF InSublks, SuperblockTold, Gone
                <5>2. CASE rc = "ok"
                    <6>1. PICK i \in Good(SUBLKS) :
                             /\ IsFirst(Good(SUBLKS), i)
                             /\ ResultOf(vals, i)
                             /\ Wipes(i) <=> wiper = SUBLKS
                        BY <1>3, <2>1, <3>3, <5>2 DEF InSublks, IsFirst
                    <6>2. count' > 0
                        BY <1>3, <3>1, <5>2 DEF n
                    <6>3. /\ i \in Good(SUBLKS)' /\ IsFirst(Good(SUBLKS)', i)
                          /\ ResultOf(vals, i)'
                          /\ Wipes(i)' <=> wiper' = SUBLKS
                        BY <1>2, <2>1, <3>1, <6>1 DEF ResultOf, Wipes
                    <6> QED
                        BY <6>2, <6>3 DEF SuperblockTold, IsFirst, ResultOf,
                                          Wipes
                <5> QED
                    BY <3>1, <5>1, <5>2
            <4> QED
                BY <1>1, <1>3, <1>5, <2>1, <2>3, <3>1, <3>3, <4>1 DEF FullInv
        <3> QED
            BY <1>1, <3>1, <3>2, <3>3 DEF Chains
    <2>4. CASE pc' = "idle" /\ rc = "err"
        BY <1>1, <2>1, <2>4, NextChain DEF FullInv, FullprobeTellsFirst,
                                           Answered
    <2>5. CASE pc' = "idle" /\ rc = "ambivalent"
        BY <1>1, <2>1, <2>5, NextChain DEF FullInv, FullprobeTellsFirst,
                                           Answered
    <2>6. CASE pc' = "idle" /\ rc \in {"ok", "none"}
        <3>1. cur = PARTS /\ rc' = IF n > 0 THEN "ok" ELSE "none"
            BY <1>1, <2>1, <2>6, NextChain
        <3>2. FullTold
            BY <1>3, <2>1, <2>6, <3>1 DEF InParts
        <3>3. Good(SUBLKS) # {} => n > 0
            BY <1>3, <2>1, <3>2, FullAnswers
        <3>4. FullprobeTellsFirst'
            BY <1>1, <1>2, <2>1, <3>1, <3>2, <3>3, FullAnswers
            DEF FullprobeTellsFirst, Answered, Has, TypeBy
        <3> QED
            BY <2>6, <3>4 DEF FullInv
    <2> QED
        BY <1>1, <2>1, <2>2, <2>3, <2>4, <2>5, <2>6, NextChain
<1>9. CASE Enter
    <2>1. /\ pc = "enter" /\ pc' \in {"left", "loop"}
          /\ UNCHANGED <<idx, cur, wiper, count>>
          /\ \/ rc' = "err" /\ pc' = "left" /\ cur = TOPLGY /\ UNCHANGED vals
             \/ /\ rc' = "none" /\ vals' = Without(vals, cur)
                /\ pc' = "left" <=> PassedOver(cur)
        BY <1>9 DEF Enter, locals
    <2>2. CASE cur = SUBLKS
        <3>1. rc' = "none" /\ Gone(SUBLKS)' /\ idx[SUBLKS] = 0
            BY <1>3, <2>1, <2>2 DEF InSublks, Without, Gone
        <3>2. NonePassed(SUBLKS)'
            BY <1>2, <2>1, <3>1, BlkidAssumption DEF NonePassed, Good, Chains
        <3>3. pc' = "left" => Good(SUBLKS) = {}
            BY <2>1, <2>2, <3>1, NothingThere DEF PassedOver, Chains
        <3> QED
            BY <1>1, <1>2, <1>3, <1>5, <2>1, <2>2, <3>1, <3>2, <3>3
            DEF FullInv, InSublks
    <2>3. CASE cur # SUBLKS
        <3>1. SuperblockTold
            BY <1>1, <1>3, <2>1, <2>3 DEF InParts, Chains
        <3>2. \A v : v.chain = SUBLKS => (v \in vals <=> v \in vals')
            BY <2>1, <2>3 DEF Without
        <3>3. SuperblockTold'
            BY <1>1, <1>3, <2>1, <3>1, <3>2, SuperblockKept
        <3>4. cur = PARTS => pc' = "loop"
            BY <1>4, <2>1 DEF PassedOver
        <3>5. cur = PARTS => NonePassed(PARTS)'
            BY <1>2, <1>3, <2>1, BlkidAssumption
            DEF NonePassed, InParts, Good, Chains
        <3> QED
            BY <1>1, <1>3, <1>5, <2>1, <2>3, <3>3, <3>4, <3>5
            DEF FullInv, InParts
    <2> QED
        BY <2>2, <2>3
<1>10. CASE Try
    <2>0. PICK i : i = idx[cur] + 1
        OBVIOUS
    <2>1. /\ pc = "loop" /\ i \in 1..N(cur) /\ i \in Nat
          /\ i = idx[cur] + 1
          /\ rc = "none" /\ idx[cur] \in Nat
          /\ idx' = [idx EXCEPT ![cur] = i] /\ idx'[cur] = i
          /\ UNCHANGED <<cur, count>>
          /\ \/ /\ State(cur, i) = "good" /\ Found(i)
             \/ /\ State(cur, i) # "good" /\ UNCHANGED wiper
                /\ pc' = "loop" /\ rc' = "none" /\ vals' = vals
             \/ /\ State(cur, i) # "good" /\ pc' = "left" /\ rc' = "err"
        BY <1>10, <2>0, TryYields
    <2>2. pc' # "idle"
        BY <2>1 DEF Found
    <2>3. idx[cur] < N(cur) /\ \A v \in vals : v.chain # cur
        BY <1>10, <2>1 DEF Try, Single
    <2>4. CASE State(cur, i) # "good" /\ pc' = "left" /\ rc' = "err"
        <3>1. wiper' = wiper
            BY <1>10, <2>1, <2>4 DEF Try
        <3>2. cur = TOPLGY => vals' = vals
            BY <1>10, <2>1, <2>3, <2>4, RefusedLeavesNothing DEF Try, Without
        <3>3. cur = TOPLGY => SuperblockTold'
            BY <1>1, <1>3, <2>1, <3>1, <3>2, SuperblockKept
        <3> QED
            BY <1>1, <1>3, <1>5, <2>1, <2>2, <2>4, <3>1, <3>3
            DEF FullInv, InSublks, InParts
    <2>5. CASE State(cur, i) # "good" /\ UNCHANGED wiper
               /\ pc' = "loop" /\ rc' = "none" /\ vals' = vals
        <3>1. cur # SUBLKS => SuperblockTold'
            BY <1>1, <1>3, <2>1, <2>5, SuperblockKept DEF InParts, Chains
        <3>2. cur # TOPLGY => NonePassed(cur)
            BY <1>1, <1>3, <2>1 DEF InSublks, InParts, Chains
        <3>3. cur # TOPLGY => NonePassed(cur)'
            BY <1>1, <1>2, <2>1, <2>3, <2>5, <3>2, FirstFound DEF NonePassed
        <3> QED
            BY <1>1, <1>3, <1>5, <2>1, <2>2, <2>5, <3>1, <3>3
            DEF FullInv, InSublks, InParts, Gone, Chains
    <2>6. CASE State(cur, i) = "good" /\ Found(i)
        <3>1. /\ rc' = "ok" /\ pc' = "left"
              /\ vals' = (IF cur = PARTS THEN UseWiper(vals, i) ELSE vals)
                         \cup Values(cur, i)
              /\ wiper' = IF Probers[cur][i].wipes THEN cur
                          ELSE IF cur = PARTS /\ Probers[PARTS][i].inwiped
                               THEN NoChain ELSE wiper
            BY <2>6 DEF Found
        <3>2. \A v \in Values(cur, i) : v.chain = cur /\ v.by = i
            BY ValuesOwn
        <3>3. CASE cur = SUBLKS
            <4>1. IsFirst(Good(SUBLKS), i)
                BY <1>3, <2>1, <2>3, <2>6, <3>3, FirstFound
                DEF InSublks, Chains
            <4>2. ResultOf(vals, i)'
                BY <1>2, <2>3, <3>1, <3>2, <3>3 DEF ResultOf
            <4>3. Wipes(i)' <=> wiper' = SUBLKS
                BY <1>3, <2>1, <3>1, <3>3 DEF InSublks, Wipes
            <4>4. InSublks'
                BY <1>2, <1>3, <2>1, <3>1, <3>3, <4>1, <4>2, <4>3
                DEF InSublks, IsFirst, ResultOf, Wipes
            <4> QED
                BY <1>1, <1>3, <1>5, <2>1, <2>2, <3>3, <4>4 DEF FullInv
        <3>4. CASE cur = TOPLGY
            <4>1. ~Probers[cur][i].wipes
                BY <2>1, <3>4, BlkidAssumption
            <4>2. wiper' = wiper
                BY <3>1, <3>4, <4>1
            <4>3. \A v : v.chain = SUBLKS => (v \in vals <=> v \in vals')
                BY <3>1, <3>2, <3>4
            <4>4. SuperblockTold'
                BY <1>1, <1>3, <2>1, <3>4, <4>2, <4>3, SuperblockKept
            <4> QED
                BY <1>1, <1>3, <1>5, <2>1, <2>2, <3>4, <4>4 DEF FullInv
        <3>5. CASE cur = PARTS
            <4>1. SuperblockTold /\ IsFirst(Good(PARTS), i)
                BY <1>3, <2>1, <2>3, <2>6, <3>5, FirstFound
                DEF InParts, Chains
            <4>2. i \in Good(PARTS)
                BY <4>1 DEF IsFirst
            <4>3. enabled[PARTS]
                BY <2>1, <3>5 DEF Shape, Control
            <4>4. \A j : Outdated(j) <=> Wipes(j) /\ Probers[PARTS][i].inwiped
                <5>1. \A p \in Good(PARTS) :
                         (\A q \in Good(PARTS) : p <= q) => p = i
                    BY <4>1, <4>2, GoodNat DEF IsFirst, Chains
                <5> QED
                    BY <4>1, <4>2, <4>3, <5>1 DEF Outdated, IsFirst, Wipes
            <4>5. vals' = UseWiper(vals, i) \cup Values(PARTS, i)
                BY <3>1, <3>5
            <4>6. ASSUME Good(SUBLKS) = {}, Gone(SUBLKS) PROVE FullTold'
                <5>1. Gone(SUBLKS)'
                    BY <3>2, <3>5, <4>5, <4>6 DEF Gone, UseWiper, Without
                <5>2. Good(SUBLKS)' = {}
                    BY <1>2, <4>6
                <5> QED
                    BY <5>1, <5>2 DEF FullTold
            <4>7. ASSUME NEW j \in Good(SUBLKS), IsFirst(Good(SUBLKS), j),
                         ResultOf(vals, j), count > 0,
                         Wipes(j) <=> wiper = SUBLKS
                  PROVE  FullTold'
                <5>1. CASE Outdated(j)
                    <6>1. Gone(SUBLKS)'
                        BY <3>2, <3>5, <4>4, <4>5, <4>7, <5>1
                        DEF Gone, UseWiper, Without
                    <6> QED
                        BY <1>2, <2>1, <4>7, <5>1, <6>1 DEF FullTold, IsFirst
                <5>2. CASE ~Outdated(j)
                    <6>1. UseWiper(vals, i) = vals
                        BY <1>1, <4>4, <4>7, <5>2 DEF UseWiper
                    <6>2. ResultOf(vals, j)'
                        BY <1>2, <3>2, <3>5, <4>5, <4>7, <6>1 DEF ResultOf
                    <6> QED
                        BY <1>2, <2>1, <4>7, <5>2, <6>2 DEF FullTold, IsFirst
                <5> QED
                    BY <5>1, <5>2
            <4>8. FullTold'
                <5>1. CASE ~(Good(SUBLKS) = {} /\ Gone(SUBLKS))
                    <6>1. PICK j \in Good(SUBLKS) :
                             /\ IsFirst(Good(SUBLKS), j) /\ ResultOf(vals, j)
                             /\ count > 0
                             /\ Wipes(j) <=> wiper = SUBLKS
                        BY <4>1, <5>1 DEF SuperblockTold
                    <6> QED
                        BY <4>7, <6>1
                <5> QED
                    BY <4>6, <5>1
            <4> QED
                BY <1>1, <1>3, <1>5, <2>1, <2>2, <3>1, <3>5, <4>8
                DEF FullInv, InParts
        <3> QED
            BY <1>1, <3>3, <3>4, <3>5 DEF Chains
    <2> QED
        BY <2>1, <2>4, <2>5, <2>6
<1>11. CASE ChainEnds
    <2>1. /\ pc = "loop" /\ idx[cur] = N(cur) /\ pc' = "left" /\ rc = "none"
          /\ UNCHANGED <<idx, cur, vals, wiper, rc, count>>
        BY <1>11 DEF ChainEnds, locals, Shape, Control
    <2>2. cur # TOPLGY => Good(cur) = {}
        BY <1>1, <1>3, <2>1, NothingThere DEF InSublks, InParts, Chains
    <2>3. cur # SUBLKS => SuperblockTold /\ SuperblockTold'
        BY <1>1, <1>3, <2>1, SuperblockKept DEF InParts, Chains
    <2>4. CASE cur = PARTS
        <3>1. FullTold
            BY <2>2, <2>3, <2>4, NotOutdated
        <3>2. FullTold'
            BY <1>2, <2>1, <3>1 DEF FullTold, Gone, ResultOf, IsFirst
        <3> QED
            BY <1>1, <1>3, <1>5, <2>1, <2>4, <3>2 DEF FullInv, InParts
    <2>5. CASE cur = TOPLGY
        BY <1>1, <1>3, <1>5, <2>1, <2>3, <2>5 DEF FullInv
    <2>6. CASE cur = SUBLKS
        BY <1>1, <1>2, <1>3, <1>5, <2>1, <2>2, <2>6
        DEF FullInv, InSublks, Gone
    <2> QED
        BY <1>1, <2>4, <2>5, <2>6 DEF Chains
<1>12. ~ProbeHead /\ ~ProbeReturned /\ ~SafeFound /\ ~SafeDone /\ ~SafeEnd
    BY DEF ProbeHead, ProbeReturned, SafeFound, SafeDone, SafeEnd, Shape,
           TypeOK
<1> QED
    BY <1>6, <1>7, <1>8, <1>9, <1>10, <1>11, <1>12 DEF Library

\* A call that begins, or one that is over.
LEMMA CallsBegin ==
    ASSUME Client
    PROVE  /\ pc = "idle"
           /\ \/ pc' = "idle"
              \/ pc' = "head" /\ api' = "probe"
              \/ pc' = "head" /\ cur' = SUBLKS /\ wiper' = NoChain /\ count' = 0
           /\ pc' = "idle" /\ api' \in {"safe", "full"} =>
                 noscan' /\ rc' = "none"
BY DEF Client, Call, Enable, FilterSuperblocks, InvertSuperblocksFilter,
       blkid_reset_probe, blkid_probe_set_device, blkid_do_wipe,
       blkid_do_probe, blkid_do_allprobe, probe

\* The library's steps are those of the call under way.
LEMMA LibraryCall ==
    ASSUME Library
    PROVE  pc # "idle" /\ UNCHANGED <<probe, api>>
BY DEF Library, ProbeHead, AllHead, ProbeReturned, AllReturned, Enter, Try,
       ChainEnds, SafeFound, SafeDone, SafeEnd

\* So a full probe keeps its invariant, and answers as get_fstype expects.
LEMMA FullStep ==
    ASSUME Shape, Shape', Single, TypesFit(vals), TypesFit(vals'), FullInv,
           FullprobeTellsFirst, [Next]_vars
    PROVE  FullInv' /\ FullprobeTellsFirst'
<1>1. CASE Client
    BY <1>1, CallsBegin
    DEF FullInv, InSublks, FullprobeTellsFirst, Answered
<1>2. CASE Library
    <2>1. pc # "idle" /\ UNCHANGED <<probe, api>> /\ enabled' = enabled
        BY <1>2, LibraryCall DEF probe
    <2>2. CASE api # "full" \/ ~enabled[SUBLKS]
        BY <2>1, <2>2 DEF FullInv, FullprobeTellsFirst, Answered
    <2>3. CASE api = "full" /\ enabled[SUBLKS]
        BY <1>2, <2>3, FullLibrary
    <2> QED
        BY <2>2, <2>3
<1>3. CASE UNCHANGED vars
    <2>1. /\ UNCHANGED <<probe, idx, cur, vals, wiper, pc, api, rc, count>>
          /\ UNCHANGED <<enabled, noscan>>
        BY <1>3 DEF vars, locals, probe
    <2>2. /\ \A c : Good(c)' = Good(c)
          /\ \A c, i : Values(c, i)' = Values(c, i)
          /\ \A i : Outdated(i)' = Outdated(i)
        BY <2>1, SameProbe
    <2>3. /\ SuperblockTold' <=> SuperblockTold
          /\ FullTold' <=> FullTold
          /\ InSublks' <=> InSublks
        BY <2>1, <2>2
        DEF SuperblockTold, FullTold, InSublks, Gone, ResultOf, IsFirst, Wipes,
            NonePassed
    <2>4. InParts' <=> InParts
        BY <2>1, <2>2, <2>3 DEF InParts, NonePassed
    <2> QED
        BY <2>1, <2>2, <2>3, <2>4
        DEF FullInv, FullprobeTellsFirst, Answered, Has, TypeBy
<1> QED
    BY <1>1, <1>2, <1>3 DEF Next

\* The invariants of the result, with those of the positions.
ResultInv == Shape /\ Single /\ TypesFit(vals) /\ TypesFit(safe.vals)

LEMMA ResultAlways == Spec => []ResultInv
<1>1. Init => ResultInv
    BY InitShape
    DEF Init, ResultInv, Single, OneBy, Locals, TypesFit
<1>2. ResultInv /\ [Next]_vars => ResultInv'
    BY ShapeStep, SingleStep, TypesFitStep DEF ResultInv
<1> QED
    BY <1>1, <1>2, PTL DEF Spec

\* blkid_do_fullprobe gives the type of the first signature on the device, or
\* none if a younger partition table outdates it: what get_fstype reads is not
\* a leftover of a refused, later or earlier result.
THEOREM FullprobeFindsFirst == Spec => []FullprobeTellsFirst
<1>1. Init => FullInv /\ FullprobeTellsFirst
    BY DEF Init, FullInv, FullprobeTellsFirst, Answered
<1>2. ResultInv /\ ResultInv' /\ FullInv /\ FullprobeTellsFirst
      /\ [Next]_vars => FullInv' /\ FullprobeTellsFirst'
    BY FullStep DEF ResultInv
<1> QED
    BY <1>1, <1>2, ResultAlways, PTL DEF Spec

-----------------------------------------------------------------------------
\* What a client may read after blkid_do_safeprobe.
LEMMA SafeAnswers ==
    ASSUME TablesTold, TypesFit(vals)
    PROVE  /\ Has("TYPE") =>
                 /\ TypeBy(Earliest(Leading))
                 /\ \/ Tiny
                    \/ Cardinality(Leading) = 1
                    \/ \A i \in Leading :
                          \/ Probers[SUBLKS][i].usage \in {"raid", "crypto"}
                          \/ Probers[SUBLKS][i].tolerant
           /\ \A v \in vals :
                 v.name = "TYPE" /\ Has("PTTYPE") /\ enabled[PARTS] =>
                    /\ Probers[SUBLKS][v.by].usage = "raid" =>
                          Probers[SUBLKS][v.by].wipes
                    /\ ~Outdated(v.by)
<1>1. CASE Gone(SUBLKS)
    BY <1>1 DEF Gone, TypesFit, Has
<1>2. ASSUME NEW i \in Leading, Claims(i), ResultOf(vals, i),
             enabled[PARTS] =>
                \/ Gone(PARTS)
                \/ /\ Probers[SUBLKS][i].usage = "raid" => Wipes(i)
                   /\ ~Outdated(i)
      PROVE  /\ TypeBy(Earliest(Leading))
             /\ \/ Tiny
                \/ Cardinality(Leading) = 1
                \/ \A j \in Leading :
                      \/ Probers[SUBLKS][j].usage \in {"raid", "crypto"}
                      \/ Probers[SUBLKS][j].tolerant
             /\ \A v \in vals :
                   v.name = "TYPE" /\ Has("PTTYPE") /\ enabled[PARTS] =>
                      /\ Probers[SUBLKS][v.by].usage = "raid" =>
                            Probers[SUBLKS][v.by].wipes
                      /\ ~Outdated(v.by)
    <2>1. Earliest(Leading) = i
        <3>1. Leading \subseteq Nat
            BY GoodNat DEF Leading, Chains
        <3> QED
            BY <1>2, <3>1, OneFirst DEF Claims
    <2>2. TypeBy(i)
        BY <1>2, ValuesFit DEF ResultOf, TypeBy, Chains
    <2>3. Leading = {i} => Cardinality(Leading) = 1
        BY FS_Singleton
    <2>4. \A v \in vals : v.name = "TYPE" => v.by = i
        BY <1>2 DEF TypesFit, ResultOf
    <2>5. Has("PTTYPE") => ~Gone(PARTS)
        BY DEF Has, Gone, TypesFit
    <2> QED
        BY <1>2, <2>1, <2>2, <2>3, <2>4, <2>5 DEF Claims, Ends, Wipes
<1> QED
    BY <1>1, <1>2 DEF TablesTold

\* A step that leaves the superblocks' part of the result and the flags.
LEMMA SafeKept ==
    ASSUME SafeTold, UNCHANGED <<probe, wiper>>,
           ignorept => ignorept',
           \A v : v.chain = SUBLKS => (v \in vals <=> v \in vals')
    PROVE  SafeTold'
<1>1. /\ Leading' = Leading /\ Tiny' = Tiny
      /\ \A i : Values(SUBLKS, i)' = Values(SUBLKS, i)
    BY SameProbe
<1>2. Gone(SUBLKS) => Gone(SUBLKS)'
    BY DEF Gone
<1>3. ASSUME NEW i, ResultOf(vals, i) PROVE ResultOf(vals, i)'
    <2>1. \A v \in Values(SUBLKS, i) : v.chain = SUBLKS
        BY ValuesOwn
    <2> QED
        BY <1>1, <1>3, <2>1 DEF ResultOf
<1>4. \A i : Claims(i)' <=> Claims(i)
    BY <1>1 DEF Claims, IsFirst, Ends
<1> QED
    BY <1>1, <1>2, <1>3, <1>4 DEF SafeTold, Wipes

\* Where the search has met a signature that ends it, or all of them, it has
\* met the leading ones.
LEMMA MetLeading ==
    ASSUME Shape
    PROVE  /\ \A i \in Good(SUBLKS) :
                 i = idx[SUBLKS] /\ (\A j \in Met \ {i} : ~Ends(j)) =>
                    /\ i \in Leading
                    /\ Ends(i) => Leading = Met
                    /\ Met = {i} => \A j \in Leading : i <= j
           /\ Met = Good(SUBLKS) /\ (\A j \in Met : ~Ends(j)) => Leading = Met
<1>1. Good(SUBLKS) \subseteq Nat /\ idx[SUBLKS] \in Nat
    BY GoodNat DEF Shape, Data, Chains
<1>2. ASSUME NEW i \in Good(SUBLKS), i = idx[SUBLKS],
             \A j \in Met \ {i} : ~Ends(j)
      PROVE  /\ i \in Leading
             /\ Ends(i) => Leading = Met
             /\ Met = {i} => \A j \in Leading : i <= j
    <2>1. \A j \in Good(SUBLKS) : j < i => ~Ends(j)
        BY <1>1, <1>2 DEF Met
    <2>2. i \in Leading
        BY <2>1 DEF Leading, Ends
    <2>3. ASSUME Ends(i) PROVE Leading = Met
        <3>1. \A j \in Good(SUBLKS) : i < j => j \notin Leading
            BY <2>3 DEF Leading, Ends
        <3>2. \A j \in Met : j \in Leading
            BY <1>1, <1>2, <2>1 DEF Met, Leading, Ends
        <3> QED
            BY <1>1, <1>2, <3>1, <3>2 DEF Met, Leading
    <2>4. Met = {i} => \A j \in Leading : i <= j
        BY <1>1, <1>2 DEF Met, Leading
    <2> QED
        BY <2>2, <2>3, <2>4
<1>3. ASSUME Met = Good(SUBLKS), \A j \in Met : ~Ends(j)
      PROVE  Leading = Met
    BY <1>3 DEF Leading, Ends
<1> QED
    BY <1>2, <1>3

\* The search of superblocks_safeprobe, one step.
LEMMA SafeSearch ==
    ASSUME Shape, Shape', Single, Library, api = "safe", enabled[SUBLKS],
           pc # "head", cur = SUBLKS, SafeSublks, pc # "safeleft"
    PROVE  cur' = SUBLKS /\ pc' # "idle" /\ SafeSublks'
<1>1. /\ UNCHANGED probe /\ enabled' = enabled
      /\ wiper \in {SUBLKS, NoChain} /\ idx \in [Chains -> Nat]
      /\ SUBLKS \in Chains /\ ~AllHead /\ ~AllReturned
    BY LibraryCall DEF probe, Shape, TypeOK, Data, Chains, AllHead,
                       AllReturned
<1>2. /\ \A c : Good(c)' = Good(c)
      /\ \A c, i : Values(c, i)' = Values(c, i)
      /\ Leading' = Leading /\ Tiny' = Tiny
    BY <1>1, SameProbe
<1>3. /\ Good(SUBLKS) \subseteq 1..N(SUBLKS) /\ Good(SUBLKS) \subseteq Nat
      /\ Met \subseteq Good(SUBLKS)
    BY GoodNat DEF Good, Met, Chains
<1>4. \A i : Wipes(i)' = Wipes(i) /\ Ends(i)' = Ends(i)
    BY DEF Wipes, Ends
<1>5. CASE Enter
    <2>1. /\ pc = "enter" /\ pc' \in {"left", "loop"} /\ rc' = "none"
          /\ UNCHANGED <<idx, cur, wiper, safe>>
          /\ vals' = Without(vals, SUBLKS)
          /\ pc' = "left" <=> dev.size = 0
        BY <1>5 DEF Enter, PassedOver, locals
    <2>2. Gone(SUBLKS)'
        BY <2>1 DEF Gone, Without
    <2>3. Met' = Met
        BY <1>2, <2>1 DEF Met
    <2>4. pc' = "left" => Met = Good(SUBLKS)
        BY <1>1, <1>3, <2>1, NothingThere
    <2>5. Weighed(Met, safe.count)'
        BY <1>2, <1>4, <2>1, <2>3
        DEF SafeSublks, Weighed, ResultOf, IsFirst, Ends, Wipes
    <2> QED
        BY <1>2, <2>1, <2>2, <2>3, <2>4, <2>5 DEF SafeSublks
<1>6. CASE Try
    <2>0. PICK i : i = idx[SUBLKS] + 1
        OBVIOUS
    <2>1. /\ pc = "loop" /\ i \in 1..N(SUBLKS) /\ i \in Nat
          /\ i = idx[SUBLKS] + 1
          /\ idx[SUBLKS] \in Nat /\ idx'[SUBLKS] = i
          /\ UNCHANGED <<cur, safe>>
          /\ \/ /\ State(SUBLKS, i) = "good" /\ Found(i)
             \/ /\ State(SUBLKS, i) # "good" /\ UNCHANGED wiper
                /\ pc' = "loop" /\ rc' = "none" /\ vals' = vals
             \/ /\ State(SUBLKS, i) # "good" /\ pc' = "left" /\ rc' = "err"
        BY <1>6, <2>0, TryYields
    <2>2. /\ Weighed(Met, safe.count)
          /\ safe.count = 0 => wiper = NoChain
          /\ Gone(SUBLKS)
        BY <2>1 DEF SafeSublks
    <2>3. CASE State(SUBLKS, i) # "good" /\ pc' = "left" /\ rc' = "err"
        BY <2>1, <2>3 DEF SafeSublks
    <2>4. CASE State(SUBLKS, i) # "good" /\ UNCHANGED wiper
               /\ pc' = "loop" /\ rc' = "none" /\ vals' = vals
        <3>1. i \notin Good(SUBLKS)
            BY <2>4 DEF Good
        <3>2. Met' = Met
            BY <1>2, <1>3, <2>1, <3>1 DEF Met
        <3>3. Weighed(Met, safe.count)'
            BY <1>2, <1>4, <2>1, <2>2, <2>4, <3>2
            DEF Weighed, ResultOf, IsFirst, Ends, Wipes
        <3> QED
            BY <2>1, <2>2, <2>4, <3>3 DEF SafeSublks, Gone
    <2>5. CASE State(SUBLKS, i) = "good" /\ Found(i)
        <3>1. /\ rc' = "ok" /\ pc' = "left"
              /\ vals' = vals \cup Values(SUBLKS, i)
              /\ wiper' = IF Wipes(i) THEN SUBLKS ELSE wiper
            BY <2>1, <2>5 DEF Found, Wipes
        <3>2. i \in Good(SUBLKS)
            BY <2>1, <2>5 DEF Good
        <3>3. ResultOf(vals, i)'
            BY <1>2, <2>2, <3>1, ValuesOwn DEF ResultOf, Gone
        <3>4. JustFound'
            BY <1>2, <1>4, <2>1, <3>1, <3>2, <3>3
            DEF JustFound, ResultOf, Wipes
        <3>5. i \notin Met
            BY <2>1 DEF Met
        <3>6. Met' = Met \cup {i}
            BY <1>2, <1>3, <2>1, <3>2 DEF Met
        <3>7. (Met \ {idx[SUBLKS]})' = Met
            BY <2>1, <3>5, <3>6
        <3>8. Weighed(Met \ {idx[SUBLKS]}, safe.count)'
            BY <1>2, <1>4, <2>1, <2>2, <3>1, <3>7
            DEF Weighed, ResultOf, IsFirst, Ends, Wipes
        <3>9. safe'.count = 0 /\ ~Wipes(i)' => wiper' = NoChain
            BY <1>4, <2>1, <2>2, <3>1
        <3> QED
            BY <2>1, <3>1, <3>4, <3>8, <3>9 DEF SafeSublks, Wipes
    <2> QED
        BY <2>1, <2>3, <2>4, <2>5
<1>7. CASE ChainEnds
    <2>1. /\ pc = "loop" /\ idx[SUBLKS] = N(SUBLKS) /\ pc' = "left"
          /\ rc = "none"
          /\ UNCHANGED <<idx, cur, vals, wiper, rc, safe>>
        BY <1>7 DEF ChainEnds, locals, Shape, Control
    <2>2. Met = Good(SUBLKS) /\ Met' = Met
        BY <1>1, <1>2, <1>3, <2>1, BlkidAssumption DEF Met
    <2>3. Weighed(Met, safe.count)'
        BY <1>2, <1>4, <2>1, <2>2
        DEF SafeSublks, Weighed, ResultOf, IsFirst, Ends, Wipes
    <2> QED
        BY <1>2, <2>1, <2>2, <2>3 DEF SafeSublks, Gone
<1>8. CASE SafeFound
    <2> DEFINE k == idx[SUBLKS]
    <2>1. /\ pc = "left" /\ rc = "ok"
          /\ UNCHANGED <<idx, cur, vals, wiper, rc, ignorept>>
        BY <1>8 DEF SafeFound
    <2>2. /\ JustFound /\ Weighed(Met \ {k}, safe.count)
          /\ safe.count = 0 /\ ~Wipes(k) => wiper = NoChain
        BY <2>1 DEF SafeSublks
    <2>3. k \in Good(SUBLKS) /\ ResultOf(vals, k) /\ k \in Met
          /\ (Wipes(k) => wiper = SUBLKS) /\ k \in Nat
        BY <1>3, <2>2 DEF JustFound, Met
    <2>4. JustFound' /\ (Met \ {k})' = Met \ {k} /\ Met' = Met /\ k' = k
        BY <1>2, <1>4, <2>1, <2>3 DEF JustFound, ResultOf, Met, Wipes
    <2>5. safe = [count |-> safe.count, intol |-> safe.intol,
                  idx |-> safe.idx, vals |-> safe.vals]
        BY DEF Shape, Data
    <2> HIDE DEF k
    <2>6. CASE Tiny /\ safe.count = 0 /\ pc' = "safeleft"
        <3>1. Met = {k}
            BY <2>2, <2>3, <2>6 DEF Weighed
        <3>2. k \in Leading /\ \A j \in Leading : k <= j
            BY <2>3, <3>1, MetLeading DEF k
        <3>3. Claims(k)
            BY <2>6, <3>2 DEF Claims, IsFirst
        <3>4. Probers[SUBLKS][k].usage # "raid"
            BY <2>3, <2>6 DEF Good, State, Skipped
        <3>5. SafeTold
            BY <2>3, <3>2, <3>3, <3>4 DEF SafeTold
        <3>6. SafeTold'
            BY <1>1, <2>1, <3>5, SafeKept
        <3> QED
            BY <2>1, <2>6, <3>6 DEF SafeSublks
    <2>7. CASE /\ Usage \in {"raid", "crypto"} /\ pc' = "safeend"
               /\ safe' = [safe EXCEPT !.count = @ + 1]
        <3>1. Ends(k)
            BY <2>7 DEF Usage, Ends, k
        <3>2. /\ safe'.count = safe.count + 1 /\ safe'.intol = safe.intol
              /\ safe'.idx = safe.idx /\ safe'.vals = safe.vals
              /\ safe.count \in Nat
            BY <2>2, <2>5, <2>7 DEF Weighed
        <3>3. safe'.count - 1 = safe.count
            BY <3>2
        <3>4. Weighed(Met \ {k}, safe.count - 1)'
            BY <1>2, <1>4, <2>1, <2>2, <2>4, <3>2, <3>3
            DEF Weighed, ResultOf, IsFirst, Ends, Wipes
        <3>5. safe'.count = 1 /\ ~Wipes(k)' => wiper' = NoChain
            BY <1>4, <2>1, <2>2, <2>4, <3>2
        <3>6. idx'[SUBLKS] = k /\ safe'.count \in Nat /\ Ends(k)'
            BY <1>4, <2>1, <3>1, <3>2 DEF k
        <3> QED
            BY <1>4, <2>1, <2>4, <2>7, <3>4, <3>5, <3>6
            DEF SafeSublks, Ends, Wipes, k
    <2>8. CASE /\ Usage \notin {"raid", "crypto"} /\ pc' = "enter"
               /\ safe' = [count |-> safe.count + 1,
                           intol |-> safe.intol + Intolerant(idx[SUBLKS]),
                           idx   |-> IF safe.count = 0 THEN idx[SUBLKS]
                                     ELSE safe.idx,
                           vals  |-> IF safe.count = 0 THEN Only(vals, SUBLKS)
                                     ELSE safe.vals]
        <3>1. ~Ends(k)
            BY <2>8 DEF Usage, Ends, k
        <3>2. /\ safe'.count = safe.count + 1
              /\ safe'.intol = safe.intol + Intolerant(k)
              /\ safe'.idx = IF safe.count = 0 THEN k ELSE safe.idx
              /\ safe'.vals = IF safe.count = 0 THEN Only(vals, SUBLKS)
                              ELSE safe.vals
              /\ safe.count \in Nat /\ safe.intol \in Nat
              /\ Intolerant(k) \in Nat
              /\ Intolerant(k) = 0 => Probers[SUBLKS][k].tolerant
            BY <2>2, <2>8 DEF Weighed, Intolerant, k
        <3>3. \A i \in Met : ~Ends(i)
            BY <2>2, <3>1 DEF Weighed
        <3>4. safe'.intol = 0 => \A i \in Met : Probers[SUBLKS][i].tolerant
            BY <2>2, <3>2 DEF Weighed
        <3>5. CASE safe.count = 0
            <4>1. Met = {k}
                BY <2>2, <2>3, <3>5 DEF Weighed
            <4>2. ResultOf(Only(vals, SUBLKS), k)
                BY <2>3, ValuesOwn DEF ResultOf, Only
            <4>3. Weighed(Met, safe.count)'
                BY <1>2, <1>4, <2>1, <2>3, <2>4, <3>2, <3>3, <3>4, <3>5, <4>1,
                   <4>2
                DEF Weighed, ResultOf, IsFirst, Ends, Wipes
            <4> QED
                BY <2>1, <2>8, <3>2, <3>5, <4>3 DEF SafeSublks
        <3>6. CASE safe.count # 0
            <4>1. /\ IsFirst(Met \ {k}, safe.idx)
                  /\ ResultOf(safe.vals, safe.idx)
                  /\ Wipes(safe.idx) => wiper = SUBLKS
                BY <2>2, <3>2, <3>6 DEF Weighed
            <4>2. \A j \in Met : j <= k
                BY DEF Met, k
            <4>3. IsFirst(Met, safe.idx)
                BY <4>1, <4>2 DEF IsFirst
            <4>4. /\ safe'.count \in Nat /\ safe'.count > 1
                  /\ safe'.intol \in Nat
                  /\ safe'.idx = safe.idx /\ safe'.vals = safe.vals
                BY <3>2, <3>6
            <4>5. Weighed(Met, safe.count)'
                BY <1>2, <1>4, <2>1, <2>4, <3>3, <3>4, <4>1, <4>3, <4>4
                DEF Weighed, ResultOf, IsFirst, Ends, Wipes
            <4> QED
                BY <2>1, <2>8, <4>4, <4>5 DEF SafeSublks
        <3> QED
            BY <3>5, <3>6
    <2>9. pc' # "idle"
        BY <1>8 DEF SafeFound
    <2> QED
        BY <1>8, <2>1, <2>6, <2>7, <2>8 DEF SafeFound
<1>9. CASE SafeDone
    <2>1. /\ pc = "left" /\ rc # "ok"
          /\ pc' = IF rc = "err" THEN "safeleft" ELSE "safeend"
          /\ UNCHANGED <<idx, cur, vals, wiper, rc, safe>>
        BY <1>9 DEF SafeDone, locals
    <2>2. rc \in {"none", "err"}
        BY <2>1 DEF SafeSublks, Shape, TypeOK
    <2>3. CASE rc = "err"
        BY <2>1, <2>3 DEF SafeSublks
    <2>4. CASE rc = "none"
        <3>1. Met' = Met
            BY <1>2, <2>1 DEF Met
        <3>2. Weighed(Met, safe.count)'
            BY <1>2, <1>4, <2>1, <2>4, <3>1
            DEF SafeSublks, Weighed, ResultOf, IsFirst, Ends, Wipes
        <3> QED
            BY <1>2, <2>1, <2>4, <3>1, <3>2 DEF SafeSublks, Gone
    <2> QED
        BY <2>2, <2>3, <2>4
<1>10. CASE SafeEnd
    <2> DEFINE k == idx[SUBLKS]
    <2>1. /\ pc = "safeend" /\ pc' = "safeleft"
          /\ UNCHANGED <<cur, wiper, safe>>
        BY <1>10 DEF SafeEnd, locals
    <2>2. CASE rc' = "ambivalent"
        BY <2>1, <2>2 DEF SafeSublks
    <2>3. CASE rc' = "none"
        <3>1. UNCHANGED vals /\ safe.count = 0
            BY <1>10, <2>3 DEF SafeEnd
        <3>2. rc = "none"
            BY <2>1, <3>1 DEF SafeSublks, Weighed
        <3>3. Gone(SUBLKS)'
            BY <2>1, <3>1, <3>2 DEF SafeSublks, Gone
        <3> QED
            BY <2>1, <3>3 DEF SafeSublks, SafeTold
    <2>4. CASE rc' = "ok"
        <3> DEFINE i == IF safe.idx = 0 THEN k ELSE safe.idx
        <3>1. /\ safe.count > 0 /\ ~(safe.count > 1 /\ safe.intol > 0)
              /\ vals' = IF safe.idx = 0 THEN vals
                         ELSE Without(vals, SUBLKS) \cup safe.vals
              /\ ignorept' = (ignorept \/ Probers[SUBLKS][i].usage = "raid")
            BY <1>10, <2>4 DEF SafeEnd, FirstResult
        <3>2. ASSUME rc = "none"
              PROVE  /\ i \in Leading /\ Claims(i) /\ ResultOf(vals', i)
                     /\ Wipes(i) => wiper = SUBLKS
                     /\ Probers[SUBLKS][i].usage # "raid"
            <4>1. Met = Good(SUBLKS) /\ Weighed(Met, safe.count)
                BY <2>1, <3>2 DEF SafeSublks
            <4>2. /\ IsFirst(Met, safe.idx) /\ ResultOf(safe.vals, safe.idx)
                  /\ Wipes(safe.idx) => wiper = SUBLKS
                  /\ \A j \in Met : ~Ends(j)
                  /\ safe.count \in Nat /\ safe.intol \in Nat
                BY <3>1, <4>1 DEF Weighed
            <4>3. Leading = Met
                BY <4>1, <4>2, MetLeading
            <4>4. safe.idx # 0 /\ i = safe.idx
                BY <1>3, <4>2 DEF IsFirst
            <4>5. Leading = {i} \/ \A j \in Leading : Probers[SUBLKS][j].tolerant
                <5>1. CASE safe.count = 1
                    BY <4>1, <4>3, <4>4, <5>1 DEF Weighed
                <5>2. CASE safe.count # 1
                    <6>1. safe.intol = 0
                        BY <3>1, <4>2, <5>2
                    <6> QED
                        BY <4>1, <4>3, <6>1 DEF Weighed
                <5> QED
                    BY <5>1, <5>2
            <4>6. ResultOf(vals', safe.idx)
                BY <3>1, <4>2, <4>4 DEF ResultOf, Without
            <4> QED
                BY <4>2, <4>3, <4>4, <4>5, <4>6 DEF Claims, IsFirst, Ends
        <3>3. ASSUME rc # "none"
              PROVE  /\ i \in Leading /\ Claims(i) /\ ResultOf(vals', i)
                     /\ Wipes(i) => wiper = SUBLKS
                     /\ Probers[SUBLKS][i].usage = "raid" /\ ~Wipes(i) =>
                           wiper = NoChain
            <4>1. /\ JustFound /\ Weighed(Met \ {k}, safe.count - 1)
                  /\ Ends(k) /\ safe.count \in Nat
                  /\ safe.count = 1 /\ ~Wipes(k) => wiper = NoChain
                BY <2>1, <3>3 DEF SafeSublks
            <4>2. k \in Good(SUBLKS) /\ ResultOf(vals, k) /\ k \in Met
                  /\ (Wipes(k) => wiper = SUBLKS) /\ k \in Nat
                BY <1>3, <4>1 DEF JustFound, Met
            <4>3. /\ safe.count - 1 \in Nat /\ safe.intol \in Nat
                  /\ \A j \in Met \ {k} : ~Ends(j)
                BY <4>1 DEF Weighed
            <4>4. k \in Leading /\ Leading = Met
                BY <4>1, <4>2, <4>3, MetLeading
            <4>5. CASE safe.idx = 0
                <5>1. safe.count - 1 = 0
                    <6>1. safe.count - 1 > 0 => safe.idx \in Met
                        BY <4>1 DEF Weighed, IsFirst
                    <6>2. 0 \notin Met
                        BY <1>3
                    <6> QED
                        BY <4>1, <4>3, <4>5, <6>1, <6>2
                <5>2. Met = {k} /\ safe.count = 1 /\ i = k /\ vals' = vals
                    BY <3>1, <4>1, <4>2, <4>5, <5>1 DEF Weighed
                <5> HIDE DEF k, i
                <5> QED
                    BY <4>1, <4>2, <4>4, <5>2 DEF Claims, IsFirst
            <4>6. CASE safe.idx # 0
                <5>1. safe.count - 1 > 0
                    BY <4>1, <4>3, <4>6 DEF Weighed
                <5>2. /\ IsFirst(Met \ {k}, safe.idx)
                      /\ ResultOf(safe.vals, safe.idx)
                      /\ Wipes(safe.idx) => wiper = SUBLKS
                    BY <4>1, <5>1 DEF Weighed
                <5>3. safe.intol = 0
                    BY <3>1, <4>1, <4>3, <5>1
                <5>4. \A j \in Met \ {k} : Probers[SUBLKS][j].tolerant
                    BY <4>1, <5>3 DEF Weighed
                <5>5. IsFirst(Met, safe.idx)
                    BY <5>2 DEF IsFirst, Met
                <5>6. ResultOf(vals', safe.idx)
                    BY <3>1, <4>6, <5>2 DEF ResultOf, Without
                <5>7. ~Ends(safe.idx) /\ safe.idx \in Leading
                    BY <4>3, <4>4, <5>2, <5>5 DEF IsFirst
                <5>8. Claims(safe.idx)
                    BY <4>1, <4>4, <5>4, <5>5 DEF Claims
                <5> QED
                    BY <4>6, <5>2, <5>6, <5>7, <5>8 DEF Ends
            <4> QED
                BY <4>5, <4>6
        <3>4. PICK j \in Leading :
                 /\ Claims(j) /\ ResultOf(vals', j)
                 /\ Wipes(j) => wiper = SUBLKS
                 /\ Probers[SUBLKS][j].usage = "raid" /\ ~Wipes(j) =>
                       wiper = NoChain
                 /\ j = i
            <4> HIDE DEF i
            <4> QED
                BY <3>2, <3>3
        <3>5. Probers[SUBLKS][j].usage = "raid" => ignorept'
            BY <3>1, <3>4
        <3>6. Claims(j)'
            BY <1>2, <3>4 DEF Claims, IsFirst, Ends
        <3> HIDE DEF i
        <3>7. ResultOf(vals, j)'
            BY <1>2, <3>4 DEF ResultOf
        <3>8. SafeTold'
            BY <1>2, <2>1, <3>4, <3>5, <3>6, <3>7 DEF SafeTold, Wipes
        <3> QED
            BY <2>1, <3>8 DEF SafeSublks
    <2>5. rc' \in {"ok", "none", "ambivalent"}
        BY <1>10 DEF SafeEnd
    <2> HIDE DEF k
    <2> QED
        BY <2>1, <2>2, <2>3, <2>4, <2>5
<1>11. ~ProbeHead /\ ~ProbeReturned
    BY DEF ProbeHead, ProbeReturned
<1> QED
    BY <1>1, <1>5, <1>6, <1>7, <1>8, <1>9, <1>10, <1>11 DEF Library

\* A safe probe is over.
LEMMA SafeOver ==
    ASSUME TypesFit(vals), pc' = "idle", UNCHANGED <<vals, probe>>,
           rc' = "ok" => TablesTold
    PROVE  SafeInv' /\ SafeprobeUnambiguous' /\ TableOfOthers'
<1>1. /\ enabled' = enabled /\ Leading' = Leading /\ Tiny' = Tiny
      /\ \A i : Outdated(i)' = Outdated(i)
    BY SameProbe DEF probe
<1>2. CASE rc' # "ok"
    BY <1>2 DEF SafeInv, SafeprobeUnambiguous, TableOfOthers, Answered
<1>3. CASE rc' = "ok"
    <2>1. SafeprobeUnambiguous'
        BY <1>1, <1>3, SafeAnswers
        DEF SafeprobeUnambiguous, Answered, Has, TypeBy
    <2>2. TableOfOthers'
        BY <1>1, <1>3, SafeAnswers DEF TableOfOthers, Answered, Has
    <2> QED
        BY <2>1, <2>2 DEF SafeInv
<1> QED
    BY <1>2, <1>3

\* The first partition table, where the superblocks are told: either it removes
\* them or it is another's.
LEMMA TableFound ==
    ASSUME Shape, SafeTold, ignorept => wiper # NoChain, UNCHANGED probe,
           wiper \in {SUBLKS, NoChain},
           NEW p, IsFirst(Good(PARTS), p),
           vals' = UseWiper(vals, p) \cup Values(PARTS, p)
    PROVE  TablesTold'
<1>1. /\ Leading' = Leading /\ Tiny' = Tiny /\ enabled' = enabled
      /\ \A c, i : Values(c, i)' = Values(c, i)
      /\ \A i : Outdated(i)' = Outdated(i)
    BY SameProbe DEF probe
<1>2. \A v \in Values(PARTS, p) : v.chain = PARTS
    BY ValuesOwn
<1>3. PARTS # SUBLKS
    BY DEF PARTS, SUBLKS
<1>4. CASE Gone(SUBLKS) \/ (wiper # NoChain /\ Probers[PARTS][p].inwiped)
    <2>1. Gone(SUBLKS)'
        BY <1>2, <1>3, <1>4 DEF Gone, UseWiper, Without
    <2> QED
        BY <2>1 DEF TablesTold
<1>5. ASSUME ~(wiper # NoChain /\ Probers[PARTS][p].inwiped),
             NEW i \in Leading, Claims(i), ResultOf(vals, i),
             Wipes(i) => wiper = SUBLKS,
             Probers[SUBLKS][i].usage = "raid" /\ ~Wipes(i) =>
                ignorept /\ wiper = NoChain
      PROVE  TablesTold'
    <2>1. UseWiper(vals, p) = vals
        BY <1>5 DEF UseWiper
    <2>2. ResultOf(vals, i)'
        BY <1>1, <1>2, <1>3, <1>5, <2>1 DEF ResultOf
    <2>3. Claims(i)'
        BY <1>1, <1>5 DEF Claims, IsFirst, Ends
    <2>4. Probers[SUBLKS][i].usage = "raid" => Wipes(i)
        BY <1>5
    <2>5. ~Outdated(i)
        <3>1. \A q \in Good(PARTS) :
                 (\A r \in Good(PARTS) : q <= r) => q = p
            BY GoodNat DEF IsFirst, Chains
        <3>2. SUBLKS # NoChain
            BY DEF SUBLKS, NoChain
        <3> QED
            BY <1>5, <3>1, <3>2 DEF Outdated, Wipes
    <2>6. /\ Probers[SUBLKS][i].usage = "raid" => Wipes(i)'
          /\ ~Outdated(i)'
        BY <1>1, <2>4, <2>5 DEF Wipes
    <2> QED
        BY <1>1, <1>5, <2>2, <2>3, <2>6 DEF TablesTold
<1> QED
    BY <1>4, <1>5 DEF SafeTold

\* Without a partition table.
LEMMA NoTable ==
    ASSUME SafeTold, Gone(PARTS) \/ ~enabled[PARTS]
    PROVE  TablesTold
BY DEF SafeTold, TablesTold

\* A safe probe, step by step.
LEMMA SafeLibrary ==
    ASSUME Shape, Single, TypesFit(vals), Shape', SafeInv, Library,
           api = "safe", enabled[SUBLKS]
    PROVE  SafeInv' /\ SafeprobeUnambiguous' /\ TableOfOthers'
<1>1. /\ UNCHANGED probe /\ api' = "safe" /\ enabled' = enabled
      /\ pc # "idle" /\ cur \in Chains /\ wiper \in {SUBLKS, NoChain}
    <2>1. pc # "idle" /\ UNCHANGED <<probe, api>>
        BY LibraryCall
    <2>2. cur \in Chains
        BY <2>1 DEF Shape, TypeOK, Control
    <2> QED
        BY <2>1, <2>2 DEF Shape, TypeOK, probe
<1>2. /\ \A c : Good(c)' = Good(c)
      /\ \A c, i : Values(c, i)' = Values(c, i)
    BY <1>1, SameProbe
<1>3. /\ cur = SUBLKS => SafeSublks
      /\ cur = TOPLGY => SafeTold
      /\ cur = PARTS => SafeParts
    BY <1>1 DEF SafeInv
<1>4. idx \in [Chains -> Nat]
    BY DEF Shape, Data
<1>5. ASSUME pc' # "idle" PROVE SafeprobeUnambiguous' /\ TableOfOthers'
    BY <1>5 DEF SafeprobeUnambiguous, TableOfOthers, Answered
<1>6. SUBLKS # TOPLGY /\ SUBLKS # PARTS /\ TOPLGY # PARTS
    BY DEF SUBLKS, TOPLGY, PARTS
<1>7. CASE cur = SUBLKS /\ pc \notin {"head", "safeleft"}
    <2>1. cur' = SUBLKS /\ pc' # "idle" /\ SafeSublks'
        BY <1>3, <1>7, SafeSearch
    <2> QED
        BY <1>5, <1>6, <2>1 DEF SafeInv
<1>8. CASE AllHead /\ enabled[cur]
    <2>1. /\ pc = "head" /\ pc' = "enter"
          /\ UNCHANGED <<cur, wiper, ignorept, vals>>
          /\ idx'[cur] = 0
          /\ safe' = IF cur = SUBLKS THEN Locals ELSE safe
        BY <1>1, <1>4, <1>8 DEF AllHead, ResetPosition
    <2>2. CASE cur = SUBLKS
        <3>1. Met' = {}
            BY <1>2, <1>6, <2>1, <2>2, GoodNat DEF Met, Chains, Good
        <3>2. safe' = [count |-> 0, intol |-> 0, idx |-> 0, vals |-> {}]
            BY <2>1, <2>2 DEF Locals
        <3>3. Weighed(Met, safe.count)'
            BY <3>1, <3>2 DEF Weighed
        <3>4. wiper' = NoChain
            BY <1>3, <2>1, <2>2 DEF SafeSublks
        <3>5. SafeSublks'
            BY <2>1, <3>3, <3>4 DEF SafeSublks
        <3> QED
            BY <1>5, <1>6, <2>1, <2>2, <3>5 DEF SafeInv
    <2>3. CASE cur # SUBLKS
        <3>1. SafeTold
            BY <1>1, <1>3, <2>1, <2>3 DEF SafeParts, Chains
        <3>2. SafeTold'
            BY <1>1, <2>1, <3>1, SafeKept
        <3> QED
            BY <1>1, <1>5, <1>6, <2>1, <2>3, <3>2 DEF SafeInv, SafeParts
    <2> QED
        BY <2>2, <2>3
<1>9. CASE AllHead /\ ~enabled[cur]
    <2>1. AllNext(count, "none") /\ UNCHANGED vals /\ pc = "head"
        BY <1>9 DEF AllHead
    <2>2. cur \in {TOPLGY, PARTS} /\ SafeTold
        BY <1>1, <1>3, <1>9, <2>1 DEF SafeParts, Chains
    <2>3. CASE pc' = "head"
        <3>1. cur' = PARTS /\ UNCHANGED <<wiper, ignorept>>
            BY <1>1, <2>1, <2>2, <2>3, NextChain DEF TOPLGY, PARTS
        <3>2. SafeTold'
            BY <1>1, <2>1, <2>2, <3>1, SafeKept
        <3> QED
            BY <1>5, <1>6, <2>3, <3>1, <3>2 DEF SafeInv, SafeParts
    <2>4. CASE pc' = "idle"
        <3>1. cur = PARTS
            BY <1>1, <2>1, <2>4, NextChain
        <3>2. TablesTold
            BY <1>9, <2>2, <3>1, NoTable
        <3> QED
            BY <1>1, <2>1, <2>4, <3>2, SafeOver
    <2> QED
        BY <1>1, <2>1, <2>3, <2>4, NextChain
<1>10. CASE AllReturned
    <2> DEFINE n == IF rc = "ok" THEN count + 1 ELSE count
    <2>1. /\ AllNext(n, rc) /\ UNCHANGED vals
          /\ \/ pc = "left" /\ cur # SUBLKS
             \/ pc = "safeleft" /\ cur = SUBLKS
        BY <1>1, <1>10 DEF AllReturned, Shape, TypeOK
    <2>2. rc \in {"ok", "none", "err", "ambivalent"}
        BY DEF Shape, TypeOK
    <2> HIDE DEF n
    <2>3. CASE pc' = "head"
        <3>1. /\ cur' = cur + 1 /\ cur \in {SUBLKS, TOPLGY}
              /\ rc \in {"ok", "none"} /\ UNCHANGED <<wiper, ignorept>>
            BY <1>1, <2>1, <2>2, <2>3, NextChain DEF Chains
        <3>2. SafeTold
            BY <1>3, <2>1, <3>1 DEF SafeSublks
        <3>3. SafeTold'
            BY <1>1, <2>1, <3>1, <3>2, SafeKept
        <3>4. cur' \in {TOPLGY, PARTS}
            BY <3>1 DEF SUBLKS, TOPLGY, PARTS
        <3> QED
            BY <1>5, <1>6, <2>3, <3>3, <3>4 DEF SafeInv, SafeParts
    <2>4. CASE pc' = "idle" /\ rc \in {"err", "ambivalent"}
        <3>1. rc' # "ok"
            BY <1>1, <2>1, <2>4, NextChain
        <3> QED
            BY <1>1, <2>1, <2>4, <3>1, SafeOver
    <2>5. CASE pc' = "idle" /\ rc \in {"ok", "none"}
        <3>1. cur = PARTS
            BY <1>1, <2>1, <2>5, NextChain
        <3>2. TablesTold
            BY <1>3, <1>6, <2>1, <2>5, <3>1 DEF SafeParts
        <3> QED
            BY <1>1, <2>1, <2>5, <3>2, SafeOver
    <2> QED
        BY <1>1, <2>1, <2>2, <2>3, <2>4, <2>5, NextChain
<1>11. CASE Enter /\ cur # SUBLKS
    <2>1. /\ pc = "enter" /\ pc' \in {"left", "loop"}
          /\ UNCHANGED <<idx, cur, wiper, ignorept>>
          /\ \/ rc' = "err" /\ pc' = "left" /\ cur = TOPLGY /\ UNCHANGED vals
             \/ /\ rc' = "none" /\ vals' = Without(vals, cur)
                /\ pc' = "left" <=> PassedOver(cur)
        BY <1>11 DEF Enter
    <2>2. SafeTold
        BY <1>1, <1>3, <1>11, <2>1 DEF SafeParts, Chains
    <2>3. \A v : v.chain = SUBLKS => (v \in vals <=> v \in vals')
        BY <1>11, <2>1 DEF Without
    <2>4. SafeTold'
        BY <1>1, <2>1, <2>2, <2>3, SafeKept
    <2>5. ASSUME cur = PARTS PROVE SafeParts'
        <3>1. Gone(PARTS)' /\ idx[PARTS] = 0 /\ rc' = "none"
            BY <1>3, <1>6, <2>1, <2>5 DEF SafeParts, Without, Gone
        <3>2. pc' = "loop" => (ignorept' => wiper' # NoChain)
            BY <1>6, <2>1, <2>5, <3>1 DEF PassedOver
        <3>3. NonePassed(PARTS)'
            BY <1>2, <2>1, <3>1, BlkidAssumption DEF NonePassed, Good, Chains
        <3>4. TablesTold'
            BY <2>4, <3>1 DEF SafeTold, TablesTold
        <3> QED
            BY <2>1, <2>4, <3>1, <3>2, <3>3, <3>4 DEF SafeParts
    <2> QED
        BY <1>1, <1>5, <1>6, <1>11, <2>1, <2>4, <2>5 DEF SafeInv
<1>12. CASE Try /\ cur # SUBLKS
    <2> DEFINE i == idx[cur] + 1
    <2>1. /\ pc = "loop" /\ i \in 1..N(cur) /\ i \in Nat
          /\ idx[cur] \in Nat /\ idx'[cur] = i
          /\ UNCHANGED <<cur, ignorept>>
          /\ \/ /\ State(cur, i) = "good" /\ Found(i)
             \/ /\ State(cur, i) # "good" /\ UNCHANGED wiper
                /\ pc' = "loop" /\ rc' = "none" /\ vals' = vals
             \/ /\ State(cur, i) # "good" /\ pc' = "left" /\ rc' = "err"
        BY <1>12, TryYields
    <2>2. SafeTold
        BY <1>1, <1>3, <1>12, <2>1 DEF SafeParts, Chains
    <2>3. idx[cur] < N(cur) /\ \A v \in vals : v.chain # cur
        BY <1>12, <2>1 DEF Try, Single
    <2>4. pc' \in {"left", "loop"}
        BY <2>1 DEF Found
    <2>5. CASE State(cur, i) # "good" /\ pc' = "left" /\ rc' = "err"
        <3>1. wiper' = wiper /\ vals' = vals
            BY <1>12, <2>3, <2>5, RefusedLeavesNothing DEF Try, Without
        <3>2. SafeTold'
            BY <1>1, <2>1, <2>2, <3>1, SafeKept
        <3> QED
            BY <1>1, <1>5, <1>6, <1>12, <2>1, <2>5, <3>2
            DEF SafeInv, SafeParts
    <2>6. CASE State(cur, i) # "good" /\ UNCHANGED wiper
               /\ pc' = "loop" /\ rc' = "none" /\ vals' = vals
        <3>1. SafeTold'
            BY <1>1, <2>1, <2>2, <2>6, SafeKept
        <3>2. ASSUME cur = PARTS PROVE SafeParts'
            <4>1. /\ NonePassed(PARTS) /\ Gone(PARTS)
                  /\ ignorept => wiper # NoChain
                BY <1>3, <2>1, <3>2 DEF SafeParts
            <4>2. NonePassed(PARTS)'
                BY <1>1, <1>2, <2>1, <2>3, <2>6, <3>2, <4>1, FirstFound
                DEF NonePassed
            <4> QED
                BY <2>1, <2>6, <3>1, <4>1, <4>2 DEF SafeParts, Gone
        <3> QED
            BY <1>1, <1>5, <1>6, <1>12, <2>1, <2>6, <3>1, <3>2 DEF SafeInv
    <2>7. CASE State(cur, i) = "good" /\ Found(i)
        <3>1. /\ rc' = "ok" /\ pc' = "left"
              /\ vals' = (IF cur = PARTS THEN UseWiper(vals, i) ELSE vals)
                         \cup Values(cur, i)
              /\ wiper' = IF Probers[cur][i].wipes THEN cur
                          ELSE IF cur = PARTS /\ Probers[PARTS][i].inwiped
                               THEN NoChain ELSE wiper
            BY <2>7 DEF Found
        <3>2. CASE cur = TOPLGY
            <4>1. ~Probers[cur][i].wipes
                BY <2>1, <3>2, BlkidAssumption
            <4>2. wiper' = wiper
                BY <1>6, <3>1, <3>2, <4>1
            <4>3. \A v : v.chain = SUBLKS => (v \in vals <=> v \in vals')
                BY <1>6, <3>1, <3>2, ValuesOwn
            <4>4. SafeTold'
                BY <1>1, <2>1, <2>2, <4>2, <4>3, SafeKept
            <4> QED
                BY <1>1, <1>5, <1>6, <2>1, <2>4, <3>2, <4>4 DEF SafeInv
        <3>3. CASE cur = PARTS
            <4>1. /\ IsFirst(Good(PARTS), i)
                  /\ ignorept => wiper # NoChain
                BY <1>1, <1>3, <2>1, <2>3, <2>7, <3>3, FirstFound DEF SafeParts
            <4>2. vals' = UseWiper(vals, i) \cup Values(PARTS, i)
                BY <3>1, <3>3
            <4> HIDE DEF i
            <4>3. TablesTold'
                BY <1>1, <2>2, <4>1, <4>2, TableFound
            <4> QED
                BY <1>1, <1>5, <1>6, <2>1, <3>1, <3>3, <4>3
                DEF SafeInv, SafeParts
        <3> QED
            BY <1>1, <1>12, <3>2, <3>3 DEF Chains
    <2> QED
        BY <2>1, <2>5, <2>6, <2>7
<1>13. CASE ChainEnds /\ cur # SUBLKS
    <2>1. /\ pc = "loop" /\ pc' = "left"
          /\ UNCHANGED <<idx, cur, vals, wiper, ignorept, rc>>
        BY <1>13 DEF ChainEnds
    <2>2. SafeTold /\ (cur = PARTS => Gone(PARTS))
        BY <1>1, <1>3, <1>13, <2>1 DEF SafeParts, Chains
    <2>3. SafeTold' /\ (cur = PARTS => Gone(PARTS)')
        BY <1>1, <2>1, <2>2, SafeKept DEF Gone
    <2>4. cur = PARTS => TablesTold'
        BY <2>3 DEF SafeTold, TablesTold
    <2> QED
        BY <1>1, <1>5, <1>6, <1>13, <2>1, <2>3, <2>4 DEF SafeInv, SafeParts
<1>14. /\ ~ProbeHead /\ ~ProbeReturned
       /\ SafeFound \/ SafeDone \/ SafeEnd =>
             cur = SUBLKS /\ pc \in {"left", "safeend"}
       /\ Enter \/ Try \/ ChainEnds => pc \in {"enter", "loop"}
    BY DEF ProbeHead, ProbeReturned, SafeFound, SafeDone, SafeEnd, Enter, Try,
           ChainEnds, Shape, TypeOK
<1> QED
    BY <1>7, <1>8, <1>9, <1>10, <1>11, <1>12, <1>13, <1>14 DEF Library

\* So a safe probe keeps its invariant, and answers for one file system only.
LEMMA SafeStep ==
    ASSUME Shape, Shape', Single, TypesFit(vals), SafeInv,
           SafeprobeUnambiguous, TableOfOthers, [Next]_vars
    PROVE  SafeInv' /\ SafeprobeUnambiguous' /\ TableOfOthers'
<1>1. CASE Client
    BY <1>1, CallsBegin
    DEF SafeInv, SafeSublks, SafeprobeUnambiguous, TableOfOthers, Answered,
        SUBLKS, TOPLGY, PARTS
<1>2. CASE Library
    <2>1. pc # "idle" /\ UNCHANGED <<probe, api>> /\ enabled' = enabled
        BY <1>2, LibraryCall DEF probe
    <2>2. CASE api # "safe"
        BY <2>1, <2>2
        DEF SafeInv, SafeprobeUnambiguous, TableOfOthers, Answered
    <2>3. CASE api = "safe" /\ ~enabled[SUBLKS]
        BY <2>1, <2>3 DEF SafeInv, SafeprobeUnambiguous, TableOfOthers
    <2>4. CASE api = "safe" /\ enabled[SUBLKS]
        BY <1>2, <2>4, SafeLibrary
    <2> QED
        BY <2>2, <2>3, <2>4
<1>3. CASE UNCHANGED vars
    <2>1. /\ UNCHANGED <<probe, idx, cur, vals, wiper, ignorept, pc, api, rc>>
          /\ UNCHANGED <<safe, enabled, noscan>>
        BY <1>3 DEF vars, locals, probe
    <2>2. /\ \A c : Good(c)' = Good(c)
          /\ \A c, i : Values(c, i)' = Values(c, i)
          /\ \A i : Outdated(i)' = Outdated(i)
          /\ Leading' = Leading /\ Tiny' = Tiny
        BY <2>1, SameProbe
    <2>3. /\ \A c : Gone(c)' <=> Gone(c)
          /\ \A c : NonePassed(c)' <=> NonePassed(c)
          /\ \A i : ResultOf(vals, i)' <=> ResultOf(vals, i)
          /\ \A i : ResultOf(safe.vals, i)' <=> ResultOf(safe.vals, i)
          /\ \A i : Claims(i)' <=> Claims(i)
          /\ \A i : Wipes(i)' = Wipes(i) /\ Ends(i)' = Ends(i)
          /\ Met' = Met
        BY <2>1, <2>2
        DEF Gone, NonePassed, ResultOf, Claims, IsFirst, Wipes, Ends, Met
    <2>4. /\ SafeTold' <=> SafeTold
          /\ TablesTold' <=> TablesTold
          /\ JustFound' <=> JustFound
        BY <2>1, <2>2, <2>3 DEF SafeTold, TablesTold, JustFound
    <2>5. \A F, n : Weighed(F, n)' <=> Weighed(F, n)
        BY <2>1, <2>3 DEF Weighed, IsFirst
    <2>6. SafeSublks' <=> SafeSublks
        BY <2>1, <2>2, <2>3, <2>4, <2>5 DEF SafeSublks
    <2>7. SafeParts' <=> SafeParts
        BY <2>1, <2>3, <2>4 DEF SafeParts
    <2> QED
        BY <2>1, <2>2, <2>4, <2>6, <2>7
        DEF SafeInv, SafeprobeUnambiguous, TableOfOthers, Answered, Has,
            TypeBy
<1> QED
    BY <1>1, <1>2, <1>3 DEF Next

LEMMA SafeAlways == Spec => [](SafeprobeUnambiguous /\ TableOfOthers)
<1>1. Init => SafeInv /\ SafeprobeUnambiguous /\ TableOfOthers
    BY DEF Init, SafeInv, SafeprobeUnambiguous, TableOfOthers, Answered
<1>2. ResultInv /\ ResultInv' /\ SafeInv /\ SafeprobeUnambiguous
      /\ TableOfOthers /\ [Next]_vars =>
         SafeInv' /\ SafeprobeUnambiguous' /\ TableOfOthers'
    BY SafeStep DEF ResultInv
<1> QED
    BY <1>1, <1>2, ResultAlways, PTL DEF Spec

\* superblocks_safeprobe lets blkid_do_safeprobe give a type only if that is
\* the first signature and no other file system could claim the device, however
\* many signatures its loop has weighed and whichever it restores.
THEOREM SafeprobeTellsOne == Spec => []SafeprobeUnambiguous
BY SafeAlways, PTL

\* blkid_do_safeprobe does not give the partition table that the first disk of
\* a RAID shows along with the RAID (BLKID_PROBE_FL_IGNORE_PT), nor LVM along
\* with a table that was written over it (blkid_probe_use_wiper).
THEOREM TablesOfOthersHidden == Spec => []TableOfOthers
BY SafeAlways, PTL
=============================================================================
