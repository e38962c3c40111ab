------------------------ MODULE KernelPartitionProofs ------------------------
(***************************************************************************)
(* The division of rows among threads is right for every number of rows,   *)
(* every number of threads and every threshold.                            *)
(*                                                                         *)
(* KernelInv says where each thread is in its slice, that exactly the rows *)
(* it has passed are written, and that the slices of the launched threads  *)
(* reach the last row when launching stops.                                *)
(***************************************************************************)
EXTENDS KernelPartition, TLAPS

-----------------------------------------------------------------------------
(* Arithmetic *)

\* Enough chunks of the rounded-up size hold all rows.
LEMMA CeilChunkCovers ==
    ASSUME NEW n \in Nat, NEW w \in Nat \ {0}
    PROVE  CeilChunk(n, w) \in Nat /\ w * CeilChunk(n, w) >= n
<1> DEFINE q == (n + w - 1) \div w
           r == (n + w - 1) % w
<1>1. n + w - 1 \in Nat
  OBVIOUS
<1>2. q \in Nat /\ r \in 0..(w - 1) /\ n + w - 1 = w * q + r
  BY <1>1
<1>3. w * q >= n
  <2>1. w * q \in Int
    BY <1>2
  <2> HIDE DEF q, r
  <2>2. QED
    BY <2>1, <1>2
<1>4. QED
  BY <1>2, <1>3 DEF CeilChunk

\* Products grow with their factors.
LEMMA StartsOrdered ==
    ASSUME NEW s \in Nat, NEW t \in Nat, NEW c \in Nat, s < t
    PROVE  s * c + c <= t * c
<1>1. PICK d \in Nat : t = s + 1 + d
  <2>1. t - s - 1 \in Nat /\ t = s + 1 + (t - s - 1)
    OBVIOUS
  <2>2. QED
    BY <2>1
<1>2. t * c = s * c + c + d * c
  BY <1>1
<1>3. d * c \in Nat /\ s * c \in Nat
  BY <1>1
<1>4. QED
  BY <1>2, <1>3

\* Every row lies in one of the chunks.
LEMMA RowHasChunk ==
    ASSUME NEW i \in Nat, NEW c \in Nat \ {0}
    PROVE  \E t \in Nat : t * c <= i /\ i < t * c + c
<1> DEFINE t == i \div c
<1>1. t \in Nat /\ i % c \in 0..(c - 1) /\ i = c * t + (i % c)
  OBVIOUS
<1>2. c * t = t * c
  BY <1>1
<1>3. t * c <= i /\ i < t * c + c
  BY <1>1, <1>2
<1>4. QED
  BY <1>1, <1>3

-----------------------------------------------------------------------------
(* The inductive invariant *)

\* A launched thread is somewhere in its slice.
CursorsInSlices ==
    \A t \in ThreadIds : t < launched => /\ Start(t) <= cursor[t]
                                         /\ cursor[t] <= End(t)

\* Exactly the rows that the launched threads have passed are written.
Passed(i, t) == t < launched /\ Start(t) <= i /\ i < cursor[t]

WroteWhatWasPassed ==
    \A i \in Nat, t \in ThreadIds : <<i, t>> \in wrote <=> Passed(i, t)

\* Launching stops when the slices reach the last row.
Reached(n) == n * chunk >= rows

LaunchedEnough ==
    /\ pc # "idle" => Reached(workers)
    /\ pc \in {"join", "done"} => Reached(launched)

AllPassed ==
    pc = "done" => \A t \in ThreadIds : t < launched => cursor[t] >= End(t)

KernelInv ==
    /\ TypeOK
    /\ CursorsInSlices
    /\ WroteWhatWasPassed
    /\ LaunchedEnough
    /\ AllPassed

-----------------------------------------------------------------------------
LEMMA SlicesAreNat ==
    ASSUME TypeOK, NEW t \in ThreadIds
    PROVE  /\ Start(t) \in Nat /\ End(t) \in Nat
           /\ End(t) <= rows /\ End(t) <= Start(t) + chunk
<1>1. t \in Nat /\ chunk \in Nat /\ rows \in Nat
  BY KernelAssumption DEF TypeOK, ThreadIds
<1>2. t * chunk \in Nat
  BY <1>1
<1>3. QED
  BY <1>1, <1>2 DEF Start, End

LEMMA InitEstablishes == Init => KernelInv
<1> SUFFICES ASSUME Init PROVE KernelInv
  OBVIOUS
<1>1. TypeOK
  BY KernelAssumption DEF Init, TypeOK, ThreadIds
<1>2. CursorsInSlices /\ AllPassed /\ LaunchedEnough
  BY DEF Init, CursorsInSlices, AllPassed, LaunchedEnough, ThreadIds
<1>3. WroteWhatWasPassed
  BY DEF Init, WroteWhatWasPassed, Passed, ThreadIds
<1>4. QED
  BY <1>1, <1>2, <1>3 DEF KernelInv

\* A call that computes all rows in the calling thread.
LEMMA SinglePassPreserves ==
    ASSUME NEW n \in Nat, Begin(n), SinglePass(n)
    PROVE  KernelInv'
<1> USE DEF Begin, SinglePass
<1>1. TypeOK'
  BY KernelAssumption DEF TypeOK, ThreadIds
<1>2. CursorsInSlices'
  <2> SUFFICES ASSUME NEW t \in ThreadIds, t < launched'
               PROVE  (Start(t) <= cursor[t] /\ cursor[t] <= End(t))'
    BY DEF CursorsInSlices
  <2>1. t = 0 /\ chunk' = n /\ rows' = n /\ cursor'[t] = 0
    BY KernelAssumption DEF ThreadIds
  <2>2. QED
    BY <2>1 DEF Start, End
<1>3. WroteWhatWasPassed'
  <2> SUFFICES ASSUME NEW i \in Nat, NEW t \in ThreadIds
               PROVE  (<<i, t>> \in wrote <=> Passed(i, t))'
    BY DEF WroteWhatWasPassed
  <2>1. cursor'[t] = 0 /\ wrote' = {}
    OBVIOUS
  <2>2. QED
    BY <2>1 DEF Passed
<1>4. LaunchedEnough' /\ AllPassed'
  BY DEF LaunchedEnough, Reached, AllPassed
<1>5. QED
  BY <1>1, <1>2, <1>3, <1>4 DEF KernelInv

LEMMA CallParallelPreserves ==
    ASSUME NEW n \in Sizes, NEW request \in Requests,
           CallParallel(n, request)
    PROVE  KernelInv'
<1> DEFINE w == ThreadsFor(request)
<1>1. n \in Nat /\ w \in Int /\ w <= MaxThreads /\ MaxThreads \in Nat
  BY KernelAssumption DEF ThreadsFor
<1>2. CASE n < Threshold \/ w <= 1
  BY <1>1, <1>2, SinglePassPreserves DEF CallParallel
<1>3. CASE ~(n < Threshold \/ w <= 1)
  <2>1. w \in Nat \ {0} /\ w \in 1..MaxThreads
    BY <1>1, <1>3, KernelAssumption
  <2> HIDE DEF w
  <2>2. CeilChunk(n, w) \in Nat /\ w * CeilChunk(n, w) >= n
    BY <1>1, <2>1, CeilChunkCovers
  <2>3. /\ rows' = n /\ workers' = w /\ chunk' = CeilChunk(n, w)
        /\ launched' = 0 /\ pc' = "launch" /\ wrote' = {}
        /\ cursor' = [t \in ThreadIds |-> 0]
    BY <1>3 DEF CallParallel, Begin, w
  <2>4. TypeOK'
    BY <1>1, <2>1, <2>2, <2>3 DEF TypeOK
  <2>5. CursorsInSlices' /\ WroteWhatWasPassed' /\ AllPassed'
    BY <2>3 DEF CursorsInSlices, WroteWhatWasPassed, Passed, AllPassed, ThreadIds
  <2>6. LaunchedEnough'
    BY <2>2, <2>3 DEF LaunchedEnough, Reached
  <2>7. QED
    BY <2>4, <2>5, <2>6 DEF KernelInv
<1>4. QED
  BY <1>2, <1>3

LEMMA LaunchPreserves == KernelInv /\ Launch => KernelInv'
<1> SUFFICES ASSUME KernelInv, Launch PROVE KernelInv'
  OBVIOUS
<1> USE DEF KernelInv, Launch
<1>1. /\ launched \in ThreadIds /\ launched \in Nat /\ launched < workers
      /\ MaxThreads \in Nat /\ workers \in 1..MaxThreads
  BY KernelAssumption DEF TypeOK, ThreadIds
<1>2. /\ Start(launched) \in Nat /\ End(launched) \in Nat
      /\ Start(launched) < End(launched)
  BY <1>1, SlicesAreNat DEF HasSlice
<1>3. TypeOK'
  BY <1>1, <1>2 DEF TypeOK
<1>4. \A t \in ThreadIds : /\ Start(t)' = Start(t) /\ End(t)' = End(t)
                           /\ t # launched => cursor'[t] = cursor[t]
                           /\ t < launched' <=> t < launched \/ t = launched
  BY <1>1 DEF Start, End, TypeOK, ThreadIds
<1>5. cursor'[launched] = Start(launched)
  BY <1>1 DEF TypeOK
<1>6. CursorsInSlices'
  BY <1>1, <1>2, <1>4, <1>5 DEF CursorsInSlices
<1>7. WroteWhatWasPassed'
  <2> SUFFICES ASSUME NEW i \in Nat, NEW t \in ThreadIds
               PROVE  (<<i, t>> \in wrote <=> Passed(i, t))'
    BY DEF WroteWhatWasPassed
  <2>1. <<i, t>> \in wrote <=> Passed(i, t)
    BY DEF WroteWhatWasPassed
  <2>2. CASE t = launched
    BY <1>1, <1>2, <1>4, <1>5, <2>1, <2>2 DEF Passed
  <2>3. CASE t # launched
    BY <1>4, <2>1, <2>3 DEF Passed
  <2>4. QED
    BY <2>2, <2>3
<1>8. LaunchedEnough' /\ AllPassed'
  BY DEF LaunchedEnough, Reached, AllPassed
<1>9. QED
  BY <1>3, <1>6, <1>7, <1>8

\* The steps that move the calling thread and nothing else.
LEMMA CallerPreserves ==
    KernelInv /\ (LaunchFails \/ LaunchDone \/ JoinAll \/ Restart) => KernelInv'
<1> SUFFICES ASSUME KernelInv, LaunchFails \/ LaunchDone \/ JoinAll \/ Restart
             PROVE  KernelInv'
  OBVIOUS
<1> USE DEF KernelInv
<1>1. UNCHANGED <<rows, workers, chunk, launched, cursor, wrote>>
  BY DEF LaunchFails, LaunchDone, JoinAll, Restart
<1>2. TypeOK'
  BY <1>1 DEF TypeOK, LaunchFails, LaunchDone, JoinAll, Restart
<1>3. CursorsInSlices' /\ WroteWhatWasPassed'
  BY <1>1 DEF CursorsInSlices, WroteWhatWasPassed, Passed, Start, End
<1>4. LaunchedEnough'
  <2>1. CASE LaunchFails \/ Restart
    BY <1>1, <2>1 DEF LaunchedEnough, Reached, LaunchFails, Restart
  <2>2. CASE JoinAll
    BY <1>1, <2>2 DEF LaunchedEnough, Reached, JoinAll
  <2>3. CASE LaunchDone
    <3>1. Reached(workers) /\ (launched = workers \/ ~HasSlice(launched))
      BY <2>3 DEF LaunchDone, LaunchedEnough
    <3>2. Reached(launched)
      <4>1. CASE launched = workers
        BY <3>1, <4>1
      <4>2. CASE launched # workers /\ ~HasSlice(launched)
        <5>1. launched \in Nat /\ chunk \in Nat /\ rows \in Nat /\ workers \in Nat
          BY KernelAssumption DEF TypeOK
        <5>2. launched * chunk \in Nat
          BY <5>1
        <5>3. launched * chunk >= rows \/ chunk = 0
          BY <4>2, <5>1, <5>2 DEF HasSlice, Start, End
        <5>4. chunk = 0 => rows = 0
          BY <3>1, <5>1 DEF Reached
        <5>5. QED
          BY <5>1, <5>2, <5>3, <5>4 DEF Reached
      <4>3. QED
        BY <3>1, <4>1, <4>2
    <3>3. QED
      BY <1>1, <2>3, <3>1, <3>2 DEF LaunchedEnough, Reached, LaunchDone
  <2>4. QED
    BY <2>1, <2>2, <2>3
<1>5. AllPassed'
  BY <1>1 DEF AllPassed, End, Start, LaunchFails, LaunchDone, JoinAll, Restart
<1>6. QED
  BY <1>2, <1>3, <1>4, <1>5

LEMMA WritePreserves ==
    ASSUME NEW w \in ThreadIds, KernelInv, Write(w)
    PROVE  KernelInv'
<1> USE DEF KernelInv, Write
<1>1. /\ w < launched /\ cursor[w] < End(w) /\ Start(w) <= cursor[w]
      /\ cursor[w] \in Nat /\ Start(w) \in Nat /\ End(w) \in Nat
  BY SlicesAreNat DEF CursorsInSlices, TypeOK
<1>2. \A t \in ThreadIds : /\ Start(t)' = Start(t) /\ End(t)' = End(t)
                           /\ t # w => cursor'[t] = cursor[t]
  BY DEF Start, End, TypeOK
<1>3. cursor'[w] = cursor[w] + 1
  BY DEF TypeOK
<1>4. TypeOK'
  BY <1>1 DEF TypeOK
<1>5. CursorsInSlices'
  BY <1>1, <1>2, <1>3 DEF CursorsInSlices
<1>6. WroteWhatWasPassed'
  <2> SUFFICES ASSUME NEW i \in Nat, NEW t \in ThreadIds
               PROVE  (<<i, t>> \in wrote <=> Passed(i, t))'
    BY DEF WroteWhatWasPassed
  <2>1. <<i, t>> \in wrote <=> Passed(i, t)
    BY DEF WroteWhatWasPassed
  <2>2. <<i, t>> \in wrote' <=> <<i, t>> \in wrote \/ (i = cursor[w] /\ t = w)
    OBVIOUS
  <2>3. CASE t = w
    BY <1>1, <1>2, <1>3, <2>1, <2>2, <2>3 DEF Passed
  <2>4. CASE t # w
    BY <1>2, <2>1, <2>2, <2>4 DEF Passed
  <2>5. QED
    BY <2>3, <2>4
<1>7. LaunchedEnough' /\ AllPassed'
  BY DEF LaunchedEnough, Reached, AllPassed
<1>8. QED
  BY <1>4, <1>5, <1>6, <1>7

-----------------------------------------------------------------------------
(* The theorems *)

\* The invariant of the kernel holds in every state: cursors stay in their
\* slices, and what is written is what was passed.
THEOREM KernelInvariant == Spec => []KernelInv
<1>1. Init => KernelInv
  BY InitEstablishes
<1>2. KernelInv /\ [Next]_vars => KernelInv'
  <2> SUFFICES ASSUME KernelInv, [Next]_vars PROVE KernelInv'
    OBVIOUS
  <2>1. ASSUME NEW n \in Sizes, CallSingle(n) PROVE KernelInv'
    BY <2>1, KernelAssumption, SinglePassPreserves DEF CallSingle
  <2>2. ASSUME NEW n \in Sizes, NEW request \in Requests, CallParallel(n, request)
        PROVE  KernelInv'
    BY <2>2, CallParallelPreserves
  <2>3. CASE Launch
    BY <2>3, LaunchPreserves
  <2>4. CASE LaunchFails \/ LaunchDone \/ JoinAll \/ Restart
    BY <2>4, CallerPreserves
  <2>5. ASSUME NEW t \in ThreadIds, Write(t) PROVE KernelInv'
    BY <2>5, WritePreserves
  <2>6. CASE UNCHANGED vars
    BY <2>6 DEF vars, KernelInv, TypeOK, CursorsInSlices, WroteWhatWasPassed,
                Passed, LaunchedEnough, Reached, AllPassed, Start, End
  <2>7. QED
    BY <2>1, <2>2, <2>3, <2>4, <2>5, <2>6 DEF Next
<1>3. QED
  BY <1>1, <1>2, PTL DEF Spec

LEMMA InvIsRaceFree == KernelInv => RaceFree
<1> SUFFICES ASSUME KernelInv, NEW p \in wrote, NEW q \in wrote, p[1] = q[1]
             PROVE  p[2] = q[2]
  BY DEF RaceFree
<1> USE DEF KernelInv
<1>1. PICK i \in Nat, s \in ThreadIds : p = <<i, s>>
  BY DEF TypeOK
<1>2. PICK j \in Nat, t \in ThreadIds : q = <<j, t>>
  BY DEF TypeOK
<1>3. i = j /\ Passed(i, s) /\ Passed(i, t)
  BY <1>1, <1>2 DEF WroteWhatWasPassed
<1>4. \A r \in ThreadIds : Passed(i, r) => r * chunk <= i /\ i < r * chunk + chunk
  <2> SUFFICES ASSUME NEW r \in ThreadIds, Passed(i, r)
               PROVE  r * chunk <= i /\ i < r * chunk + chunk
    OBVIOUS
  <2>1. Start(r) <= i /\ i < cursor[r] /\ cursor[r] <= End(r) /\ cursor[r] \in Nat
    BY DEF Passed, CursorsInSlices, TypeOK
  <2>2. /\ Start(r) \in Nat /\ End(r) \in Nat /\ chunk \in Nat
        /\ End(r) <= Start(r) + chunk
    BY SlicesAreNat DEF TypeOK
  <2>3. i < Start(r) + chunk
    BY <2>1, <2>2
  <2>4. QED
    BY <2>1, <2>3 DEF Start
<1>5. s \in Nat /\ t \in Nat /\ chunk \in Nat
  BY KernelAssumption DEF ThreadIds, TypeOK
<1>6. s * chunk \in Nat /\ t * chunk \in Nat
  BY <1>5
<1>7. ~(s < t)
  <2> SUFFICES ASSUME s < t PROVE FALSE
    OBVIOUS
  <2>1. s * chunk + chunk <= t * chunk
    BY <1>5, StartsOrdered
  <2>2. QED
    BY <1>3, <1>4, <1>5, <1>6, <2>1
<1>8. ~(t < s)
  <2> SUFFICES ASSUME t < s PROVE FALSE
    OBVIOUS
  <2>1. t * chunk + chunk <= s * chunk
    BY <1>5, StartsOrdered
  <2>2. QED
    BY <1>3, <1>4, <1>5, <1>6, <2>1
<1>9. s = t
  BY <1>5, <1>7, <1>8
<1>10. QED
  BY <1>1, <1>2, <1>9

LEMMA InvIsComplete == KernelInv => ResultComplete
<1> SUFFICES ASSUME KernelInv, pc = "done"
             PROVE  {p[1] : p \in wrote} = 0..(rows - 1)
  BY DEF ResultComplete
<1> USE DEF KernelInv
<1>1. rows \in Nat /\ chunk \in Nat /\ launched \in Nat /\ MaxThreads \in Nat
      /\ launched <= MaxThreads
  BY KernelAssumption DEF TypeOK
<1>2. ASSUME NEW p \in wrote PROVE p[1] \in 0..(rows - 1)
  <2>1. PICK i \in Nat, t \in ThreadIds : p = <<i, t>>
    BY DEF TypeOK
  <2>2. i < cursor[t] /\ cursor[t] <= End(t) /\ cursor[t] \in Nat
    BY <2>1 DEF WroteWhatWasPassed, Passed, CursorsInSlices, TypeOK
  <2>3. End(t) \in Nat /\ End(t) <= rows
    BY SlicesAreNat
  <2>4. QED
    BY <1>1, <2>1, <2>2, <2>3
<1>3. ASSUME NEW i \in 0..(rows - 1) PROVE \E p \in wrote : p[1] = i
  <2>1. launched * chunk >= rows /\ launched * chunk \in Nat
    BY <1>1 DEF LaunchedEnough, Reached
  <2>2. i \in Nat /\ i < rows
    BY <1>1, <1>3
  <2>3. chunk # 0
    BY <1>1, <2>1, <2>2
  <2>4. PICK t \in Nat : t * chunk <= i /\ i < t * chunk + chunk
    BY <1>1, <2>2, <2>3, RowHasChunk
  <2>5. t * chunk \in Nat
    BY <1>1, <2>4
  <2>6. t < launched
    <3> SUFFICES ASSUME ~(t < launched) PROVE FALSE
      OBVIOUS
    <3>1. launched = t \/ launched < t
      BY <1>1, <2>4
    <3>2. launched * chunk <= t * chunk
      <4>1. CASE launched = t
        BY <2>5, <4>1
      <4>2. CASE launched < t
        <5>1. launched * chunk + chunk <= t * chunk
          BY <1>1, <2>4, <4>2, StartsOrdered
        <5>2. QED
          BY <1>1, <2>1, <2>5, <5>1
      <4>3. QED
        BY <3>1, <4>1, <4>2
    <3>3. QED
      BY <1>1, <2>1, <2>2, <2>4, <2>5, <3>2
  <2>7. t \in ThreadIds
    BY <1>1, <2>4, <2>6 DEF ThreadIds
  <2>8. i < End(t)
    BY <1>1, <2>2, <2>4, <2>5 DEF End, Start
  <2>9. Passed(i, t)
    <3>1. cursor[t] >= End(t) /\ cursor[t] \in Nat /\ End(t) \in Nat
      BY <2>6, <2>7, SlicesAreNat DEF AllPassed, TypeOK
    <3>2. QED
      BY <2>2, <2>4, <2>6, <2>8, <3>1 DEF Passed, Start
  <2>10. <<i, t>> \in wrote
    BY <2>2, <2>7, <2>9 DEF WroteWhatWasPassed
  <2>11. QED
    BY <2>10
<1>4. QED
  BY <1>2, <1>3

\* No two threads ever write the same row, for every n and every T.
THEOREM KernelRaceFree == Spec => []RaceFree
BY KernelInvariant, InvIsRaceFree, PTL

\* The array that is handed out has all its rows written and no others, for
\* every n and every T.
THEOREM KernelResultComplete == Spec => []ResultComplete
BY KernelInvariant, InvIsComplete, PTL
=============================================================================
