-------------------------- MODULE SnesCore_proofs ---------------------------
(***************************************************************************)
(* The parts of the console beside the picture, for every value of their   *)
(* constants: the sound processor, its timers and the registers of the     *)
(* sound generator, DMA and HDMA, the battery-backed RAM of a cartridge,   *)
(* and the signals of a frame.                                             *)
(***************************************************************************)
EXTENDS SNSpcIO, SNSpcTimer, SnesDMA, SNSpcDsp, SramSave, SnesSignals,
        SNQueue_proofs, SequenceTheorems, FiniteSetTheorems, Integers, TLAPS

\* The sound processor keeps up with the CPU, for every length of frame and
\* whatever the instructions of the two take, as long as SyncSPC does not find a
\* difference too small to be worth it: SNES_SPCMINCYCLES is 0.

\* The counters and SpcTimeInv.
SpcClocks ==
  /\ cpuTime \in Nat /\ spcCounter \in Nat /\ spcCycles \in Int
  /\ SpcTimeInv

\* SyncSPC gives the SPC what the CPU has run since it was last: the counters
\* agree, and an overrun is made good first.
LEMMA SyncCatchesUp ==
  ASSUME SPCMINCYCLES = 0, SpcClocks, sync = "none", NEW for, for \in {"read", "write", "frame"},
         SyncSPC(for), cpuTime' = cpuTime, for = "frame" => cpuTime >= CYCLESPERFRAME
  PROVE  SpcClocks'
<1> DEFINE d == cpuTime - spcCounter
<1>1. d \in Nat /\ Behind = d
  BY DEF SpcClocks, SpcTimeInv, Behind, spcTime
<1>2. sync' = for /\ (synced' <=> d > 0)
  BY <1>1 DEF SyncSPC
<1>3. CASE d > 0
  <2>1. spcCycles' = spcCycles + d /\ spcCounter' = spcCounter + d
    BY <1>1, <1>2, <1>3 DEF SyncSPC
  <2>2. spcCounter' = cpuTime' /\ spcCounter' \in Nat /\ spcCycles' \in Int
    BY <1>1, <2>1 DEF SpcClocks
  <2>3. spcCycles' >= 0 \/ \E n \in SpcOp : spcCycles' + n > 0
    <3>1. CASE spcCycles >= 0
      BY <1>1, <2>1, <3>1 DEF SpcClocks
    <3>2. CASE \E n \in SpcOp : spcCycles + n > 0
      <4>1. PICK n \in SpcOp : spcCycles + n > 0
        BY <3>2
      <4>2. n \in Nat
        BY SNSpcIOAssumption
      <4>3. spcCycles' + n > 0
        BY <1>1, <2>1, <4>1, <4>2 DEF SpcClocks
      <4> QED BY <4>3
    <3> QED BY <3>1, <3>2 DEF SpcClocks, SpcTimeInv
  <2> QED BY <1>2, <2>2, <2>3 DEF SpcClocks, SpcTimeInv
<1>4. CASE d = 0
  <2>1. UNCHANGED <<spcCycles, spcCounter>>
    BY <1>2, <1>4 DEF SyncSPC
  <2>2. spcCounter = cpuTime
    BY <1>4 DEF SpcClocks
  <2> QED BY <1>2, <2>1, <2>2 DEF SpcClocks, SpcTimeInv
<1> QED BY <1>1, <1>3, <1>4

\* The SPC begins no instruction without cycles left.
LEMMA InstructionFits ==
  ASSUME SpcClocks, NEW n \in SpcOp, SpcStarts(n)
  PROVE  SpcClocks'
<1>1. n \in Nat /\ spcCycles \in Int /\ spcCycles > 0 /\ spcCycles' = spcCycles - n
  BY SNSpcIOAssumption DEF SpcClocks, SpcStarts
<1>2. spcCycles' \in Int /\ spcCycles' + n > 0
  BY <1>1
<1>3. UNCHANGED <<cpuTime, spcCounter, sync>>
  BY DEF SpcStarts
<1> QED BY <1>2, <1>3 DEF SpcClocks, SpcTimeInv

LEMMA ClocksStep ==
  ASSUME SPCMINCYCLES = 0, SpcClocks, [SpcIoNext]_spcVars
  PROVE  SpcClocks'
<1>1. ASSUME NEW n \in CpuStep, CpuRuns(n)
      PROVE  SpcClocks'
  <2>1. n \in Nat /\ sync = "none" /\ cpuTime' = cpuTime + n
    BY <1>1, SNSpcIOAssumption DEF CpuRuns
  <2>2. UNCHANGED <<spcCounter, spcCycles, sync>>
    BY <1>1 DEF CpuRuns
  <2> QED BY <2>1, <2>2 DEF SpcClocks, SpcTimeInv
<1>2. ASSUME NEW p \in Port, NEW d \in PortData, CpuWrite(p, d)
      PROVE  SpcClocks'
  <2>1. sync = "none" /\ cpuTime' = cpuTime
    BY <1>2 DEF CpuWrite, CpuAccesses
  <2>2. CASE SyncSPC("write")
    BY <2>1, <2>2, SyncCatchesUp
  <2>3. CASE UNCHANGED <<spcCounter, spcCycles, sync>>
    BY <2>1, <2>3 DEF SpcClocks, SpcTimeInv
  <2> QED BY <1>2, <2>2, <2>3 DEF CpuWrite
<1>3. CASE CpuRead
  BY <1>3, SyncCatchesUp DEF CpuRead, CpuAccesses
<1>4. CASE EndSpcFrame
  BY <1>4, SyncCatchesUp DEF EndSpcFrame
<1>5. ASSUME NEW n \in SpcOp,
             SpcRuns(n) \/ \E p \in Port : SpcRead(p, n) \/ SpcClear(p, n)
      PROVE  SpcClocks'
  <2>1. SpcStarts(n)
    BY <1>5 DEF SpcRuns, SpcRead, SpcClear
  <2> QED BY <2>1, InstructionFits
<1>6. CASE FinishRead \/ FinishWrite
  BY <1>6 DEF FinishRead, FinishWrite, SyncReturns, SpcClocks, SpcTimeInv
<1>7. CASE FinishFrame
  <2>1. /\ sync = "frame" /\ sync' = "none"
        /\ cpuTime' = cpuTime - CYCLESPERFRAME
        /\ spcCounter' = 0 /\ spcCycles' = spcCycles
    BY <1>7 DEF FinishFrame, SyncReturns
  <2>2. cpuTime' \in Nat
    BY <2>1, SNSpcIOAssumption DEF SpcClocks, SpcTimeInv
  <2> QED BY <2>1, <2>2 DEF SpcClocks, SpcTimeInv
<1>8. CASE UNCHANGED spcVars
  BY <1>8 DEF spcVars, SpcClocks, SpcTimeInv
<1> QED BY <1>1, <1>2, <1>3, <1>4, <1>5, <1>6, <1>7, <1>8 DEF SpcIoNext

-----------------------------------------------------------------------------
\* The counters of the two chips, for every behaviour of SyncSPC's callers.
THEOREM SpcClocksHold ==
  ASSUME SPCMINCYCLES = 0
  PROVE  SpcIoSpec => []SpcClocks
<1>1. SpcIoInit => SpcClocks
  BY DEF SpcIoInit, SpcClocks, SpcTimeInv
<1> QED BY <1>1, ClocksStep, PTL DEF SpcIoSpec

\* When SyncSPC returns the SPC is as far as the CPU, and ahead by less than
\* one instruction: what the CPU reads from a port is what is due by then.
THEOREM SpcKeepsUpHolds ==
  ASSUME SPCMINCYCLES = 0
  PROVE  SpcIoSpec => []SpcKeepsUp
<1>1. ASSUME SpcClocks PROVE SpcKeepsUp
  <2> SUFFICES ASSUME sync # "none", spcCycles <= 0
               PROVE  spcTime >= cpuTime /\ \E n \in SpcOp : spcTime < cpuTime + n
    BY DEF SpcKeepsUp
  <2>1. spcTime = cpuTime - spcCycles /\ cpuTime \in Nat /\ spcCycles \in Int
    BY <1>1 DEF SpcClocks, SpcTimeInv, spcTime
  <2>2. \E n \in SpcOp : spcCycles + n > 0
    <3>1. CASE spcCycles >= 0
      <4>1. PICK n \in SpcOp : n \in Nat \ {0}
        BY SNSpcIOAssumption
      <4> QED BY <2>1, <3>1, <4>1
    <3> QED BY <1>1, <3>1 DEF SpcClocks, SpcTimeInv
  <2>3. PICK n \in SpcOp : spcCycles + n > 0
    BY <2>2
  <2>4. n \in Nat
    BY SNSpcIOAssumption
  <2> QED BY <2>1, <2>3, <2>4
<1> QED BY <1>1, SpcClocksHold, PTL

-----------------------------------------------------------------------------
\* The ports between the chips.  What is due at a port is the latest write of
\* the history no later than the SPC; the ports have come to a part of that
\* history (Reached), and all that is left of it is in the queue, in order, or
\* is the write the CPU is making.
\* An entry of the queue or of the history.
PortEntry == [uCycle : Int, port : Port, data : PortData \cup {0}]

\* The writes that are on their way to the ports.
Arriving(q) == { Pending(q)[i] : i \in 1 .. Len(Pending(q)) }

OnTheWay == Arriving(spcQueue) \cup (IF sync = "write" THEN {direct} ELSE {})

InOrder(es) == \A i \in 1 .. Len(es), j \in 1 .. Len(es) : i <= j => es[i].uCycle <= es[j].uCycle

\* The entries of the history the ports have come to: none is later than the
\* sound processor, nor than what waits.
Reached(D) ==
  /\ D \subseteq log /\ log = D \cup OnTheWay
  /\ \A p \in Port : apu_w[p] \in Latest(p, D)
  /\ \A e \in D : e.uCycle <= spcTime /\ \A w \in OnTheWay : e.uCycle <= w.uCycle

\* The queue is put in order by the CPU, whose time has passed what it holds
\* when it waits for the SPC; what SyncSPC finds no time for is nothing.
QueueInv ==
  /\ spcQueue \in QueueOf(PortEntry) /\ InOrder(Pending(spcQueue))
  /\ log \subseteq PortEntry /\ \A e \in log : e.uCycle <= cpuTime
  /\ sync = "none" => /\ spcCycles <= 0
                      /\ \A e \in Arriving(spcQueue) :
                           spcCounter <= e.uCycle /\ (~accessed => e.uCycle < cpuTime)
  /\ sync # "none" /\ ~synced => Arriving(spcQueue) = {} /\ spcCycles <= 0
  /\ sync = "write" => direct \in PortEntry /\ direct.uCycle = cpuTime
  /\ apu_w = [p \in Port |-> apu_w[p]]

\* The inductive invariant.
PortsInv ==
  /\ SpcClocks /\ QueueInv /\ PortsInTime
  /\ \E D : Reached(D)

\* The latest of the entries D and of es, which come after them in order, is
\* what performing es makes of the latest of D.
LEMMA PerformedIsLatest ==
  ASSUME NEW ports, NEW D \in SUBSET PortEntry, NEW es \in Seq(PortEntry), InOrder(es),
         NEW p \in Port, ports[p] \in Latest(p, D),
         \A e \in D, i \in 1 .. Len(es) : e.uCycle <= es[i].uCycle
  PROVE  Performed(ports, es)[p] \in Latest(p, D \cup { es[i] : i \in 1 .. Len(es) })
<1> DEFINE to == { i \in 1 .. Len(es) : es[i].port = p }
           A == D \cup { es[i] : i \in 1 .. Len(es) }
           toA == { e \in A : e.port = p }
           toD == { e \in D : e.port = p }
<1>1. Len(es) \in Nat /\ \A i \in 1 .. Len(es) : es[i] \in PortEntry
  BY ElementOfSeq
<1>2. Performed(ports, es)[p] = IF to = {} THEN ports[p]
                                ELSE es[CHOOSE i \in to : \A j \in to : j <= i].data
  BY DEF Performed
<1>3. CASE to = {}
  <2>1. toA = toD
    BY <1>3
  <2> HIDE DEF toA, toD
  <2>2. Latest(p, A) = Latest(p, D)
    BY <2>1 DEF Latest, toA, toD
  <2> QED BY <1>2, <1>3, <2>2
<1>4. CASE to # {}
  <2>1. \E i \in to : \A j \in to : j <= i
    BY <1>1, <1>4, GreatestOf
  <2>2. PICK k : k = CHOOSE i \in to : \A j \in to : j <= i
    OBVIOUS
  <2>3. k \in to /\ \A j \in to : j <= k
    BY <2>1, <2>2
  <2>4. k \in 1 .. Len(es) /\ es[k] \in toA /\ Performed(ports, es)[p] = es[k].data
    BY <1>2, <1>4, <2>2, <2>3
  <2>5. ASSUME NEW g \in toA PROVE g.uCycle <= es[k].uCycle
    <3>1. CASE g \in D
      BY <2>4, <3>1
    <3>2. CASE g \notin D
      <4>1. PICK i \in 1 .. Len(es) : g = es[i]
        BY <2>5, <3>2
      <4>2. i \in to
        BY <2>5, <4>1
      <4>3. i <= k
        BY <2>3, <4>2
      <4> QED BY <2>4, <4>1, <4>3 DEF InOrder
    <3> QED BY <3>1, <3>2
  <2> HIDE DEF toA
  <2>6. es[k].data \in { e.data : e \in { f \in toA : \A g \in toA : g.uCycle <= f.uCycle } }
    BY <2>4, <2>5
  <2>7. toA # {} /\ Latest(p, A) = IF toA = {} THEN before[p]
          ELSE { e.data : e \in { f \in toA : \A g \in toA : g.uCycle <= f.uCycle } }
    BY <2>4 DEF Latest, toA
  <2> HIDE DEF A
  <2> QED BY <2>4, <2>6, <2>7 DEF A
<1> QED BY <1>3, <1>4

\* Between the entries before a time and those up to it.
LEMMA LatestBetween ==
  ASSUME NEW L \in SUBSET PortEntry, NEW D \in SUBSET L, NEW t \in Int, NEW p, NEW v \in Latest(p, D),
         \A e \in D : e.uCycle <= t, \A e \in L : e.uCycle < t => e \in D
  PROVE  v \in Latest(p, { e \in L : e.uCycle < t }) \cup Latest(p, { e \in L : e.uCycle <= t })
<1> DEFINE A == { e \in L : e.uCycle < t }
           B == { e \in L : e.uCycle <= t }
           toA == { e \in A : e.port = p }
           toB == { e \in B : e.port = p }
           toD == { e \in D : e.port = p }
<1>1. \A e \in L : e.uCycle \in Int
  BY DEF PortEntry
<1>2. CASE \A e \in toD : e.uCycle # t
  <2>1. toD = toA
    BY <1>1, <1>2
  <2> HIDE DEF toA, toD
  <2>2. Latest(p, D) = Latest(p, A)
    BY <2>1 DEF Latest, toA, toD
  <2> QED BY <2>2
<1>3. CASE \E e \in toD : e.uCycle = t
  <2>1. PICK c \in toD : c.uCycle = t
    BY <1>3
  <2>2. PICK e \in toD : (\A g \in toD : g.uCycle <= e.uCycle) /\ v = e.data
    <3>1. toD # {} /\ Latest(p, D) = IF toD = {} THEN before[p]
            ELSE { e.data : e \in { f \in toD : \A g \in toD : g.uCycle <= f.uCycle } }
      BY <2>1 DEF Latest
    <3> HIDE DEF toD
    <3> QED BY <3>1
  <2>3. e.uCycle = t /\ e \in toB
    BY <1>1, <2>1, <2>2
  <2>4. \A g \in toB : g.uCycle <= e.uCycle
    BY <2>3
  <2>5. toB # {} /\ Latest(p, B) = IF toB = {} THEN before[p]
          ELSE { h.data : h \in { f \in toB : \A g \in toB : g.uCycle <= f.uCycle } }
    BY <2>3 DEF Latest
  <2> HIDE DEF B, toB
  <2>6. v \in Latest(p, B)
    BY <2>2, <2>3, <2>4, <2>5
  <2> QED BY <2>6 DEF B
<1> QED BY <1>2, <1>3

LEMMA SameLatest == ASSUME before' = before, NEW p, NEW D PROVE Latest(p, D)' = Latest(p, D)
BY DEF Latest

LEMMA ArrivingType ==
  ASSUME NEW q \in QueueOf(PortEntry)
  PROVE  /\ Pending(q) \in Seq(PortEntry) /\ Len(Pending(q)) \in Nat
         /\ Arriving(q) \subseteq PortEntry
BY PendingType DEF Arriving

\* SyncSPC finds time for the SPC whenever something is queued.
LEMMA SyncSettles ==
  ASSUME SPCMINCYCLES = 0, PortsInv, sync = "none", ~accessed, NEW for, SyncSPC(for)
  PROVE  /\ spcTime' = spcTime /\ sync' = for
         /\ ~synced' => Arriving(spcQueue) = {} /\ spcCycles' <= 0
         /\ Arriving(spcQueue) # {} => synced'
<1> DEFINE d == cpuTime - spcCounter
<1>1. /\ cpuTime \in Nat /\ spcCounter \in Nat /\ spcCycles \in Int /\ spcCounter <= cpuTime
      /\ spcCycles <= 0
  BY DEF PortsInv, SpcClocks, SpcTimeInv, QueueInv
<1>2. d \in Nat /\ Behind = d
  BY <1>1 DEF Behind, spcTime
<1>3. sync' = for /\ (synced' <=> d > 0)
  BY <1>2 DEF SyncSPC
<1>4. ASSUME NEW e \in Arriving(spcQueue) PROVE d > 0
  <2>1. e \in PortEntry /\ spcCounter <= e.uCycle /\ e.uCycle < cpuTime
    BY ArrivingType DEF PortsInv, QueueInv
  <2>2. e.uCycle \in Int
    BY <2>1 DEF PortEntry
  <2> QED BY <1>1, <2>1, <2>2
<1>5. CASE d > 0
  <2>1. spcCycles' = spcCycles + d /\ spcCounter' = spcCounter + d
    BY <1>2, <1>3, <1>5 DEF SyncSPC
  <2> QED BY <1>1, <1>2, <1>3, <1>5, <2>1 DEF spcTime
<1>6. CASE ~(d > 0)
  <2>1. spcCycles' = spcCycles /\ spcCounter' = spcCounter
    BY <1>2, <1>3, <1>6 DEF SyncSPC
  <2> QED BY <1>1, <1>3, <1>4, <1>6, <2>1 DEF spcTime
<1> QED BY <1>5, <1>6

LEMMA CpuRunsStep ==
  ASSUME PortsInv, NEW n \in CpuStep, CpuRuns(n), SpcClocks'
  PROVE  PortsInv'
<1>1. /\ n \in Nat \ {0} /\ sync = "none" /\ cpuTime' = cpuTime + n /\ seen' = NoRead /\ cpuTime \in Nat
      /\ UNCHANGED <<spcCounter, spcCycles, apu_w, spcQueue, sync, synced, direct, log, before>>
  BY SNSpcIOAssumption DEF CpuRuns, PortsInv, SpcClocks
<1>2. QueueInv
  BY DEF PortsInv
<1>3. \A e \in log : e.uCycle \in Int /\ e.uCycle < cpuTime'
  BY <1>1, <1>2 DEF QueueInv, PortEntry
<1>4. OnTheWay' = OnTheWay /\ OnTheWay = Arriving(spcQueue)
  BY <1>1 DEF OnTheWay
<1>5. PICK D : Reached(D)
  BY DEF PortsInv
<1>6. Arriving(spcQueue) \subseteq log
  BY <1>4, <1>5 DEF Reached
<1>7. QueueInv'
  <2>1. \A e \in log' : e.uCycle <= cpuTime'
    BY <1>1, <1>3
  <2>2. \A e \in Arriving(spcQueue)' : spcCounter' <= e.uCycle /\ e.uCycle < cpuTime'
    BY <1>1, <1>2, <1>3, <1>6 DEF QueueInv
  <2> QED BY <1>1, <1>2, <2>1, <2>2 DEF QueueInv
<1>8. Reached(D)'
  BY <1>1, <1>4, <1>5, SameLatest DEF Reached, spcTime
<1>9. PortsInTime'
  BY <1>1 DEF PortsInTime
<1> QED BY <1>7, <1>8, <1>9 DEF PortsInv

\* The CPU calls SyncSPC to read a port or at the end of a frame.
LEMMA CallStep ==
  ASSUME SPCMINCYCLES = 0, PortsInv, sync = "none", ~accessed, NEW for \in {"read", "frame"},
         SyncSPC(for), seen' = NoRead,
         UNCHANGED <<cpuTime, apu_w, spcQueue, direct, log, before>>, SpcClocks'
  PROVE  PortsInv'
<1>1. /\ spcTime' = spcTime /\ sync' = for
      /\ ~synced' => Arriving(spcQueue) = {} /\ spcCycles' <= 0
  BY SyncSettles
<1>2. QueueInv
  BY DEF PortsInv
<1>3. OnTheWay' = OnTheWay
  BY <1>1 DEF OnTheWay
<1>4. PICK D : Reached(D)
  BY DEF PortsInv
<1>5. QueueInv'
  BY <1>1, <1>2 DEF QueueInv
<1>6. Reached(D)'
  BY <1>1, <1>3, <1>4, SameLatest DEF Reached
<1>7. PortsInTime'
  BY DEF PortsInTime
<1> QED BY <1>5, <1>6, <1>7 DEF PortsInv

LEMMA ArrivingGrows ==
  ASSUME NEW q \in QueueOf(PortEntry), NEW e \in PortEntry, InOrder(Pending(q)),
         \A g \in Arriving(q) : g.uCycle <= e.uCycle
  PROVE  /\ Enqueue(q, e) \in QueueOf(PortEntry) /\ InOrder(Pending(Enqueue(q, e)))
         /\ Arriving(Enqueue(q, e)) = Arriving(q) \cup {e}
<1> DEFINE P == Pending(q)
           R == Pending(Enqueue(q, e))
<1>1. Enqueue(q, e) \in QueueOf(PortEntry) /\ R = Append(P, e) /\ P \in Seq(PortEntry)
      /\ Len(P) \in Nat /\ \A i \in 1 .. Len(P) : P[i] \in PortEntry
  BY EnqueueAppends, PendingType
<1>2. /\ Len(R) = Len(P) + 1 /\ R[Len(P) + 1] = e
      /\ \A i \in 1 .. Len(P) : R[i] = P[i]
  BY <1>1, AppendProperties
<1>3. \A i \in 1 .. Len(R) : i \in 1 .. Len(P) \/ i = Len(P) + 1
  BY <1>1, <1>2
<1>4. \A i \in 1 .. Len(P) : P[i].uCycle <= e.uCycle /\ P[i].uCycle \in Int
  BY <1>1 DEF Arriving, PortEntry
<1>5. e.uCycle \in Int
  BY DEF PortEntry
<1>6. InOrder(R)
  <2> SUFFICES ASSUME NEW i \in 1 .. Len(R), NEW j \in 1 .. Len(R), i <= j
               PROVE  R[i].uCycle <= R[j].uCycle
    BY DEF InOrder
  <2>1. CASE j \in 1 .. Len(P)
    <3>1. i \in 1 .. Len(P)
      BY <1>1, <1>2, <2>1
    <3> QED BY <1>2, <2>1, <3>1 DEF InOrder
  <2>2. CASE j = Len(P) + 1
    BY <1>2, <1>3, <1>4, <1>5, <2>2
  <2> QED BY <1>3, <2>1, <2>2
<1>7. Arriving(Enqueue(q, e)) = { P[i] : i \in 1 .. Len(P) } \cup {e}
  <2>1. ASSUME NEW i \in 1 .. Len(R) PROVE R[i] \in { P[k] : k \in 1 .. Len(P) } \cup {e}
    BY <1>2, <1>3
  <2>2. ASSUME NEW i \in 1 .. Len(P) PROVE P[i] \in { R[k] : k \in 1 .. Len(R) }
    <3>1. i \in 1 .. Len(R) /\ R[i] = P[i]
      BY <1>1, <1>2
    <3> QED BY <3>1
  <2>3. e \in { R[k] : k \in 1 .. Len(R) }
    <3>1. Len(P) + 1 \in 1 .. Len(R)
      BY <1>1, <1>2
    <3> QED BY <1>2, <3>1
  <2> HIDE DEF P, R
  <2> QED BY <2>1, <2>2, <2>3 DEF Arriving, R
<1> QED BY <1>1, <1>6, <1>7 DEF Arriving

LEMMA CpuWriteStep ==
  ASSUME SPCMINCYCLES = 0, PortsInv, NEW p \in Port, NEW d \in PortData, CpuWrite(p, d), SpcClocks'
  PROVE  PortsInv'
<1> DEFINE e == [uCycle |-> cpuTime, port |-> p, data |-> d]
<1>1. /\ sync = "none" /\ ~accessed /\ accessed' = TRUE /\ log' = log \cup {e} /\ seen' = NoRead
      /\ UNCHANGED <<cpuTime, apu_w, before>>
  BY DEF CpuWrite, CpuAccesses
<1>2. QueueInv /\ cpuTime \in Nat /\ spcCounter <= cpuTime
  BY DEF PortsInv, SpcClocks, SpcTimeInv
<1>3. e \in PortEntry /\ e.uCycle = cpuTime
  BY <1>2 DEF PortEntry
<1> HIDE DEF e
<1>4. PICK D : Reached(D)
  BY DEF PortsInv
<1>5. OnTheWay = Arriving(spcQueue) /\ OnTheWay \subseteq log /\ D \subseteq log
  BY <1>1, <1>4 DEF OnTheWay, Reached
<1>6. \A g \in log : g.uCycle <= e.uCycle
  BY <1>2, <1>3 DEF QueueInv
<1>7. log' \subseteq PortEntry /\ \A g \in log' : g.uCycle <= cpuTime'
  BY <1>1, <1>2, <1>3 DEF QueueInv
<1>8. PortsInTime'
  BY <1>1 DEF PortsInTime
\* What is on its way has one more.
<1>9. ASSUME OnTheWay' = OnTheWay \cup {e}, spcTime' = spcTime PROVE Reached(D)'
  <2>1. log' = D \cup OnTheWay' /\ D \subseteq log'
    BY <1>1, <1>4, <1>9 DEF Reached
  <2>2. \A q \in Port : apu_w'[q] \in Latest(q, D)'
    BY <1>1, <1>4, SameLatest DEF Reached
  <2>3. \A g \in D : g.uCycle <= spcTime' /\ \A w \in OnTheWay' : g.uCycle <= w.uCycle
    BY <1>4, <1>5, <1>6, <1>9 DEF Reached
  <2> QED BY <2>1, <2>2, <2>3 DEF Reached
<1>10. CASE /\ spcQueue' = Enqueue(spcQueue, e)
            /\ UNCHANGED <<spcCounter, spcCycles, sync, synced, direct>>
  <2>1. /\ spcQueue' \in QueueOf(PortEntry) /\ InOrder(Pending(spcQueue'))
        /\ Arriving(spcQueue') = Arriving(spcQueue) \cup {e}
    BY <1>2, <1>3, <1>5, <1>6, <1>10, ArrivingGrows DEF QueueInv
  <2>2. OnTheWay' = OnTheWay \cup {e}
    BY <1>1, <1>5, <1>10, <2>1 DEF OnTheWay
  <2>3. spcTime' = spcTime
    BY <1>10 DEF spcTime
  <2>4. \A g \in Arriving(spcQueue') : spcCounter' <= g.uCycle
    BY <1>1, <1>2, <1>3, <1>10, <2>1 DEF QueueInv
  <2>5. QueueInv'
    BY <1>1, <1>2, <1>7, <1>10, <2>1, <2>4 DEF QueueInv
  <2> QED BY <1>8, <1>9, <2>2, <2>3, <2>5 DEF PortsInv
<1>11. CASE ~HasRoom(spcQueue) /\ SyncSPC("write") /\ direct' = e /\ spcQueue' = spcQueue
  <2>1. spcTime' = spcTime /\ sync' = "write" /\ (~synced' => Arriving(spcQueue) = {} /\ spcCycles' <= 0)
    BY <1>1, <1>11, SyncSettles
  <2>2. OnTheWay' = OnTheWay \cup {e}
    BY <1>5, <1>11, <2>1 DEF OnTheWay
  <2>3. QueueInv'
    BY <1>1, <1>2, <1>3, <1>7, <1>11, <2>1 DEF QueueInv
  <2> QED BY <1>8, <1>9, <2>1, <2>2, <2>3 DEF PortsInv
<1> QED BY <1>10, <1>11 DEF CpuWrite, e

-----------------------------------------------------------------------------
\* An instruction of the SPC begins at a time the CPU has passed.
LEMMA InstructionTimes ==
  ASSUME PortsInv, NEW n \in SpcOp, SpcStarts(n)
  PROVE  /\ spcTime \in Int /\ spcTime < cpuTime /\ spcTime < spcTime' /\ spcTime' \in Int
         /\ cpuTime \in Nat /\ sync # "none" /\ synced
         /\ UNCHANGED <<cpuTime, accessed, spcCounter, sync, synced, direct, before>>
<1>1. /\ spcCycles \in Int /\ spcCycles > 0 /\ spcCycles' = spcCycles - n /\ n \in Nat \ {0}
      /\ sync # "none" /\ UNCHANGED <<cpuTime, accessed, spcCounter, sync, synced, direct, before>>
  BY SNSpcIOAssumption DEF SpcStarts, PortsInv, SpcClocks
<1>2. cpuTime \in Nat /\ spcCounter = cpuTime
  BY <1>1 DEF PortsInv, SpcClocks, SpcTimeInv
<1>3. synced
  BY <1>1 DEF PortsInv, QueueInv
<1> QED BY <1>1, <1>2, <1>3 DEF spcTime

LEMMA SpcRunsStep ==
  ASSUME PortsInv, NEW n \in SpcOp, SpcRuns(n), SpcClocks'
  PROVE  PortsInv'
<1>1. SpcStarts(n) /\ seen' = NoRead /\ UNCHANGED <<apu_w, spcQueue, log>>
  BY DEF SpcRuns
<1>2. /\ spcTime \in Int /\ spcTime < spcTime' /\ spcTime' \in Int /\ sync # "none" /\ synced
      /\ UNCHANGED <<cpuTime, accessed, spcCounter, sync, synced, direct, before>>
  BY <1>1, InstructionTimes
<1>3. PICK D : Reached(D)
  BY DEF PortsInv
<1>4. QueueInv /\ D \subseteq PortEntry
  BY <1>3 DEF PortsInv, QueueInv, Reached
<1>5. QueueInv'
  BY <1>1, <1>2, <1>4 DEF QueueInv
<1>6. OnTheWay' = OnTheWay
  BY <1>1, <1>2 DEF OnTheWay
<1>7. \A e \in D : e.uCycle <= spcTime'
  <2>1. \A e \in D : e.uCycle \in Int /\ e.uCycle <= spcTime
    BY <1>3, <1>4 DEF Reached, PortEntry
  <2> QED BY <1>2, <2>1
<1>8. Reached(D)'
  BY <1>1, <1>2, <1>3, <1>6, <1>7, SameLatest DEF Reached
<1>9. PortsInTime'
  BY <1>1 DEF PortsInTime
<1> QED BY <1>5, <1>8, <1>9 DEF PortsInv

\* A port is cleared: nothing that waits is earlier.
LEMMA SpcClearStep ==
  ASSUME PoliteClear, PortsInv, NEW n \in SpcOp, NEW p \in Port, SpcClear(p, n), SpcClocks'
  PROVE  PortsInv'
<1> DEFINE e == [uCycle |-> spcTime, port |-> p, data |-> 0]
<1>1. /\ SpcStarts(n) /\ CountBefore(spcQueue, spcTime) = 0 /\ apu_w' = [apu_w EXCEPT ![p] = 0]
      /\ log' = log \cup {e} /\ seen' = NoRead /\ spcQueue' = spcQueue
  BY DEF SpcClear
<1>2. /\ spcTime \in Int /\ spcTime < cpuTime /\ spcTime < spcTime' /\ spcTime' \in Int
      /\ cpuTime \in Nat /\ sync # "none" /\ synced
      /\ UNCHANGED <<cpuTime, accessed, spcCounter, sync, synced, direct, before>>
  BY <1>1, InstructionTimes
<1>3. PICK D : Reached(D)
  BY DEF PortsInv
<1>4. QueueInv
  BY DEF PortsInv
<1>5. e \in PortEntry /\ e.uCycle = spcTime /\ e.port = p /\ e.data = 0
  BY <1>2 DEF PortEntry
<1> HIDE DEF e
<1>6. \A g \in D : g \in PortEntry /\ g.uCycle \in Int /\ g.uCycle <= e.uCycle
  BY <1>3, <1>4, <1>5 DEF Reached, QueueInv, PortEntry
<1>7. \A w \in OnTheWay : e.uCycle <= w.uCycle
  <2> SUFFICES ASSUME NEW w \in OnTheWay PROVE e.uCycle <= w.uCycle
    OBVIOUS
  <2>1. CASE w \in Arriving(spcQueue)
    <3>1. PICK i \in 1 .. Len(Pending(spcQueue)) : w = Pending(spcQueue)[i]
      BY <2>1 DEF Arriving
    <3>2. Len(Pending(spcQueue)) \in Nat
          /\ \A k \in 1 .. Len(Pending(spcQueue)) : Pending(spcQueue)[k] \in PortEntry
      BY <1>4, PendingType DEF QueueInv
    <3>3. ~(Pending(spcQueue)[0 + 1].uCycle < spcTime)
      <4>1. 0 < Len(Pending(spcQueue)) => ~(Pending(spcQueue)[0 + 1].uCycle < spcTime)
        BY <1>1, <1>4, CountSplits DEF QueueInv
      <4> QED BY <3>1, <3>2, <4>1
    <3>4. 1 \in 1 .. Len(Pending(spcQueue)) /\ 1 <= i
      BY <3>1, <3>2
    <3>5. Pending(spcQueue)[1].uCycle <= w.uCycle
      BY <1>4, <3>1, <3>4 DEF QueueInv, InOrder
    <3>6. Pending(spcQueue)[1].uCycle \in Int /\ w.uCycle \in Int
      BY <3>1, <3>2, <3>4 DEF PortEntry
    <3> QED BY <1>2, <1>5, <3>3, <3>5, <3>6
  <2>2. CASE sync = "write" /\ w = direct
    BY <1>2, <1>4, <1>5, <2>2 DEF QueueInv
  <2> QED BY <2>1, <2>2 DEF OnTheWay
<1>8. OnTheWay' = OnTheWay
  BY <1>1, <1>2 DEF OnTheWay
<1>9. QueueInv'
  <2>1. log' \subseteq PortEntry /\ \A g \in log' : g.uCycle <= cpuTime'
    BY <1>1, <1>2, <1>4, <1>5 DEF QueueInv
  <2>2. apu_w' = [q \in Port |-> apu_w'[q]]
    BY <1>1, <1>4 DEF QueueInv
  <2> QED BY <1>1, <1>2, <1>4, <2>1, <2>2 DEF QueueInv
<1>10. ASSUME NEW q \in Port PROVE apu_w'[q] \in Latest(q, D \cup {e})
  <2> DEFINE A == { g \in D \cup {e} : g.port = q }
  <2>1. CASE q = p
    <3>1. e \in A /\ \A g \in A : g.uCycle <= e.uCycle
      BY <1>2, <1>5, <1>6, <2>1
    <3>2. A # {} /\ Latest(q, D \cup {e}) = IF A = {} THEN before[q]
            ELSE { g.data : g \in { f \in A : \A h \in A : h.uCycle <= f.uCycle } }
      BY <3>1 DEF Latest
    <3>3. apu_w'[q] = 0
      BY <1>1, <1>4, <2>1 DEF QueueInv
    <3> HIDE DEF A
    <3> QED BY <1>5, <3>1, <3>2, <3>3
  <2>2. CASE q # p
    <3>1. A = { g \in D : g.port = q }
      BY <1>5, <2>2
    <3>2. Latest(q, D \cup {e}) = Latest(q, D)
      BY <3>1 DEF Latest
    <3>3. apu_w'[q] = apu_w[q]
      BY <1>1, <1>4, <2>2 DEF QueueInv
    <3> QED BY <1>3, <3>2, <3>3 DEF Reached
  <2> QED BY <2>1, <2>2
<1>11. \E F : Reached(F)'
  <2>1. \A g \in D \cup {e} : g.uCycle <= spcTime' /\ \A w \in OnTheWay : g.uCycle <= w.uCycle
    BY <1>2, <1>3, <1>5, <1>6, <1>7 DEF Reached
  <2>2. PICK F : F = D \cup {e}
    OBVIOUS
  <2>3. Reached(F)'
    <3>1. \A q \in Port : apu_w'[q] \in Latest(q, F)'
      BY <1>2, <1>10, <2>2, SameLatest
    <3>2. F \subseteq log' /\ log' = F \cup OnTheWay'
      BY <1>1, <1>3, <1>8, <2>2 DEF Reached
    <3> QED BY <1>8, <2>1, <2>2, <3>1, <3>2 DEF Reached
  <2> QED BY <2>3
<1>12. PortsInTime'
  BY <1>1 DEF PortsInTime
<1> QED BY <1>9, <1>11, <1>12 DEF PortsInv

\* A port is read: what has become due is performed, and no more.
LEMMA SpcReadStep ==
  ASSUME PortsInv, NEW n \in SpcOp, NEW p \in Port, SpcRead(p, n), SpcClocks'
  PROVE  PortsInv'
<1> DEFINE P == Pending(spcQueue)
           c == CountBefore(spcQueue, spcTime)
           es == SubSeq(P, 1, c)
           R == Pending(spcQueue')
<1>1. /\ SpcStarts(n) /\ apu_w' = Performed(apu_w, es)
      /\ spcQueue' = DequeueBefore(spcQueue, spcTime) /\ log' = log
      /\ seen' = [port |-> p, time |-> spcTime, data |-> apu_w'[p]]
  BY DEF SpcRead
<1>2. /\ spcTime \in Int /\ spcTime < cpuTime /\ spcTime < spcTime' /\ spcTime' \in Int
      /\ cpuTime \in Nat /\ sync # "none" /\ synced
      /\ UNCHANGED <<cpuTime, accessed, spcCounter, sync, synced, direct, before>>
  BY <1>1, InstructionTimes
<1>3. PICK D : Reached(D)
  BY DEF PortsInv
<1>4. QueueInv
  BY DEF PortsInv
<1>5. /\ P \in Seq(PortEntry) /\ Len(P) \in Nat /\ c \in 0 .. Len(P)
      /\ \A i \in 1 .. Len(P) : P[i] \in PortEntry /\ P[i].uCycle \in Int
      /\ \A i \in 1 .. c : P[i].uCycle < spcTime
      /\ c < Len(P) => ~(P[c + 1].uCycle < spcTime)
  <2>1. spcQueue \in QueueOf(PortEntry)
    BY <1>4 DEF QueueInv
  <2>2. /\ P \in Seq(PortEntry) /\ Len(P) \in Nat
        /\ \A i \in 1 .. Len(P) : P[i] \in PortEntry
    BY <2>1, PendingType
  <2>3. /\ c \in 0 .. Len(P) /\ \A i \in 1 .. c : P[i].uCycle < spcTime
        /\ c < Len(P) => ~(P[c + 1].uCycle < spcTime)
    BY <2>1, CountSplits
  <2> HIDE DEF P, c
  <2>4. \A i \in 1 .. Len(P) : P[i].uCycle \in Int
    BY <2>2 DEF PortEntry
  <2> QED BY <2>2, <2>3, <2>4
<1>6. /\ spcQueue' \in QueueOf(PortEntry) /\ Len(R) = Len(P) - c
      /\ \A k \in 1 .. Len(P) - c : R[k] = P[c + k]
  BY <1>1, <1>4, DequeueTakes DEF QueueInv
<1>7. \A i \in 1 .. Len(P), j \in 1 .. Len(P) : i <= j => P[i].uCycle <= P[j].uCycle
  BY <1>4 DEF QueueInv, InOrder
<1>8. /\ es \in Seq(PortEntry) /\ Len(es) = c /\ \A i \in 1 .. c : es[i] = P[i]
  <2>1. \A i \in 1 .. c : P[i] \in PortEntry
    BY <1>5
  <2>2. 1 \in Int /\ c \in Int
    BY <1>5
  <2>3. /\ SubSeq(P, 1, c) \in Seq(PortEntry)
        /\ Len(SubSeq(P, 1, c)) = IF 1 <= c THEN c - 1 + 1 ELSE 0
        /\ \A i \in 1 .. c - 1 + 1 : SubSeq(P, 1, c)[i] = P[1 + i - 1]
    BY <2>1, <2>2, SubSeqProperties
  <2>4. Len(es) = c
    BY <1>5, <2>3
  <2>5. \A i \in 1 .. c : i \in 1 .. c - 1 + 1 /\ 1 + i - 1 = i
    BY <1>5
  <2> QED BY <2>3, <2>4, <2>5
<1> HIDE DEF P, c, es, R
<1>9. PICK F : F = D \cup { es[i] : i \in 1 .. Len(es) }
  OBVIOUS
<1>10. OnTheWay \subseteq log /\ Arriving(spcQueue) \subseteq OnTheWay /\ D \subseteq log
       /\ log \subseteq PortEntry /\ D \subseteq PortEntry
  BY <1>3, <1>4 DEF Reached, OnTheWay, QueueInv
<1>11. \A i \in 1 .. Len(P) : P[i] \in Arriving(spcQueue)
  BY DEF Arriving, P
<1>12. \A e \in F : e \in D \/ \E i \in 1 .. c : e = P[i]
  BY <1>8, <1>9
<1>13. \A w \in OnTheWay' : (\E k \in 1 .. Len(P) : c < k /\ w = P[k]) \/ (sync = "write" /\ w = direct)
  <2>1. ASSUME NEW k \in 1 .. Len(R) PROVE \E j \in 1 .. Len(P) : c < j /\ R[k] = P[j]
    <3>1. c + k \in 1 .. Len(P) /\ c < c + k /\ R[k] = P[c + k]
      BY <1>5, <1>6
    <3> QED BY <3>1
  <2>2. Arriving(spcQueue') = { R[k] : k \in 1 .. Len(R) }
    BY DEF Arriving, R
  <2>3. OnTheWay' = Arriving(spcQueue') \cup (IF sync = "write" THEN {direct} ELSE {})
    BY <1>2 DEF OnTheWay
  <2> QED BY <2>1, <2>2, <2>3
<1>14. \A w \in OnTheWay' : w \in OnTheWay /\ w.uCycle \in Int /\ ~(w.uCycle < spcTime)
  <2> SUFFICES ASSUME NEW w \in OnTheWay' PROVE w \in OnTheWay /\ w.uCycle \in Int /\ ~(w.uCycle < spcTime)
    OBVIOUS
  <2>1. CASE \E k \in 1 .. Len(P) : c < k /\ w = P[k]
    <3>1. PICK k \in 1 .. Len(P) : c < k /\ w = P[k]
      BY <2>1
    <3>2. c + 1 \in 1 .. Len(P) /\ c + 1 <= k /\ c < Len(P)
      BY <1>5, <3>1
    <3>3. P[c + 1].uCycle <= P[k].uCycle
      BY <1>7, <3>2
    <3>4. P[c + 1].uCycle \in Int /\ P[k].uCycle \in Int
      BY <1>5, <3>2
    <3>5. ~(P[k].uCycle < spcTime)
      BY <1>2, <1>5, <3>2, <3>3, <3>4
    <3> QED BY <1>10, <1>11, <3>1, <3>4, <3>5
  <2>2. CASE sync = "write" /\ w = direct
    <3>1. w \in OnTheWay /\ w.uCycle = cpuTime
      BY <1>4, <2>2 DEF OnTheWay, QueueInv
    <3> QED BY <1>2, <3>1
  <2> QED BY <1>13, <2>1, <2>2
<1>15. F \subseteq log' /\ log' = F \cup OnTheWay'
  <2>1. F \subseteq log
    BY <1>5, <1>10, <1>11, <1>12
  <2>2. \A w \in OnTheWay : w \in F \cup OnTheWay'
    <3> SUFFICES ASSUME NEW w \in OnTheWay PROVE w \in F \cup OnTheWay'
      OBVIOUS
    <3>1. CASE w \in Arriving(spcQueue)
      <4>1. PICK i \in 1 .. Len(P) : w = P[i]
        BY <3>1 DEF Arriving, P
      <4>2. CASE i <= c
        <5>1. i \in 1 .. c /\ es[i] = w
          BY <1>5, <1>8, <4>1, <4>2
        <5> QED BY <1>8, <1>9, <5>1
      <4>3. CASE c < i
        <5>1. i - c \in 1 .. Len(R) /\ i - c \in 1 .. Len(P) - c /\ c + (i - c) = i
          BY <1>5, <1>6, <4>1, <4>3
        <5>2. R[i - c] = w
          BY <1>6, <4>1, <5>1
        <5> QED BY <5>1, <5>2 DEF OnTheWay, Arriving, R
      <4> QED BY <1>5, <4>1, <4>2, <4>3
    <3>2. CASE sync = "write" /\ w = direct
      BY <1>2, <3>2 DEF OnTheWay
    <3> QED BY <3>1, <3>2 DEF OnTheWay
  <2>3. log = D \cup OnTheWay /\ D \subseteq F
    BY <1>3, <1>9 DEF Reached
  <2>4. OnTheWay' \subseteq log
    BY <1>10, <1>14
  <2>5. log \subseteq F \cup OnTheWay'
    BY <2>2, <2>3
  <2> QED BY <1>1, <2>1, <2>4, <2>5
<1>16. \A e \in F : e.uCycle \in Int /\ e.uCycle <= spcTime
  <2>1. \A e \in D : e.uCycle \in Int /\ e.uCycle <= spcTime
    BY <1>3, <1>10 DEF Reached, PortEntry
  <2>2. \A i \in 1 .. c : P[i].uCycle \in Int /\ P[i].uCycle <= spcTime
    BY <1>2, <1>5
  <2> QED BY <1>12, <2>1, <2>2
<1>17. \A q \in Port : apu_w'[q] \in Latest(q, F)
  <2> SUFFICES ASSUME NEW q \in Port PROVE apu_w'[q] \in Latest(q, F)
    OBVIOUS
  <2>1. InOrder(es)
    BY <1>5, <1>7, <1>8 DEF InOrder
  <2>2. apu_w[q] \in Latest(q, D)
    BY <1>3 DEF Reached
  <2>3. \A e \in D, i \in 1 .. Len(es) : e.uCycle <= es[i].uCycle
    BY <1>3, <1>5, <1>8, <1>10, <1>11 DEF Reached
  <2> QED BY <1>1, <1>8, <1>9, <1>10, <2>1, <2>2, <2>3, PerformedIsLatest
<1>18. Reached(F)'
  <2>1. \A q \in Port : apu_w'[q] \in Latest(q, F)'
    BY <1>2, <1>17, SameLatest
  <2>2. \A e \in F : e.uCycle <= spcTime' /\ \A w \in OnTheWay' : e.uCycle <= w.uCycle
    BY <1>2, <1>14, <1>16
  <2> QED BY <1>15, <2>1, <2>2 DEF Reached
<1>19. QueueInv'
  <2>1. InOrder(Pending(spcQueue'))
    <3> SUFFICES ASSUME NEW i \in 1 .. Len(R), NEW j \in 1 .. Len(R), i <= j
                 PROVE  R[i].uCycle <= R[j].uCycle
      BY DEF InOrder, R
    <3>1. c + i \in 1 .. Len(P) /\ c + j \in 1 .. Len(P) /\ c + i <= c + j
          /\ R[i] = P[c + i] /\ R[j] = P[c + j]
      BY <1>5, <1>6
    <3> QED BY <1>7, <3>1
  <2>2. apu_w' = [q \in Port |-> apu_w'[q]]
    <3>1. PICK g : g = Performed(apu_w, es)
      OBVIOUS
    <3>2. g = [q \in Port |-> g[q]]
      BY <3>1 DEF Performed
    <3> QED BY <1>1, <3>1, <3>2
  <2> QED BY <1>1, <1>2, <1>4, <1>6, <2>1, <2>2 DEF QueueInv
<1>20. PortsInTime'
  <2>1. apu_w'[p] \in Latest(p, F)
    BY <1>17
  <2>2. \A e \in log : e.uCycle < spcTime => e \in F
    BY <1>1, <1>14, <1>15
  <2>3. F \subseteq log /\ log \subseteq PortEntry
    BY <1>1, <1>10, <1>15
  <2>4. PICK t, A, B : t = spcTime /\ A = { e \in log : e.uCycle < t } /\ B = { e \in log : e.uCycle <= t }
    OBVIOUS
  <2>5. apu_w'[p] \in Latest(p, A) \cup Latest(p, B)
    <3>1. PICK L, v : L = log /\ v = apu_w'[p]
      OBVIOUS
    <3>2. /\ L \in SUBSET PortEntry /\ F \in SUBSET L /\ t \in Int /\ v \in Latest(p, F)
          /\ \A e \in F : e.uCycle <= t
          /\ \A e \in L : e.uCycle < t => e \in F
      BY <1>2, <1>16, <2>1, <2>2, <2>3, <2>4, <3>1
    <3>3. v \in Latest(p, { e \in L : e.uCycle < t }) \cup Latest(p, { e \in L : e.uCycle <= t })
      BY <3>2, LatestBetween
    <3> QED BY <2>4, <3>1, <3>3
  <2>6. apu_w'[p] \in Latest(p, A)' \cup Latest(p, B)'
    BY <1>2, <2>5, SameLatest
  <2>7. seen'.port = p /\ seen'.time = t /\ seen'.data = apu_w'[p]
    BY <1>1, <2>4
  <2> QED BY <1>1, <2>4, <2>6, <2>7 DEF PortsInTime, Latest
<1> QED BY <1>18, <1>19, <1>20 DEF PortsInv

-----------------------------------------------------------------------------
LEMMA ResetIsEmpty ==
  /\ SNQueueReset \in QueueOf(PortEntry) /\ Pending(SNQueueReset) = << >>
  /\ Arriving(SNQueueReset) = {} /\ InOrder(Pending(SNQueueReset))
<1>1. SNQueueReset \in QueueOf(PortEntry) /\ IsEmpty(SNQueueReset)
  <2>1. << >> \in Seq(PortEntry) /\ Len(<< >>) = 0
    OBVIOUS
  <2> QED BY <2>1 DEF SNQueueReset, QueueOf, IsEmpty
<1>2. Pending(SNQueueReset) = << >> /\ Len(<< >>) = 0
  BY <1>1, EmptyPending
<1> QED BY <1>1, <1>2 DEF Arriving, InOrder

\* When SyncSPC returns the SPC is as far as the CPU, and what was queued is
\* performed.
LEMMA FlushReaches ==
  ASSUME PortsInv, NEW for, SyncReturns(for), for # "none", NEW D, Reached(D)
  PROVE  /\ spcQueue' \in QueueOf(PortEntry) /\ InOrder(Pending(spcQueue')) /\ Arriving(spcQueue') = {}
         /\ \A p \in Port : Flushed[p] \in Latest(p, D \cup Arriving(spcQueue))
         /\ Flushed = [p \in Port |-> Flushed[p]]
         /\ \A e \in log : e \in PortEntry /\ e.uCycle \in Int /\ e.uCycle <= cpuTime
         /\ cpuTime \in Nat /\ cpuTime <= spcTime /\ spcTime = cpuTime - spcCycles
         /\ spcCycles \in Int /\ spcCycles <= 0
<1>1. /\ sync = for /\ spcCycles <= 0
      /\ spcQueue' = IF synced THEN SNQueueReset ELSE spcQueue
  BY DEF SyncReturns
<1>2. QueueInv /\ cpuTime \in Nat /\ spcCycles \in Int /\ spcCounter = cpuTime
  BY <1>1 DEF PortsInv, SpcClocks, SpcTimeInv
<1>3. /\ spcQueue' \in QueueOf(PortEntry) /\ InOrder(Pending(spcQueue')) /\ Arriving(spcQueue') = {}
  BY <1>1, <1>2, ResetIsEmpty DEF QueueInv
<1>4. \A e \in log : e \in PortEntry /\ e.uCycle \in Int /\ e.uCycle <= cpuTime
  BY <1>2 DEF QueueInv, PortEntry
<1>5. cpuTime <= spcTime /\ spcTime = cpuTime - spcCycles
  BY <1>1, <1>2 DEF spcTime
<1>6. CASE synced
  <2>1. PICK es : es = Pending(spcQueue)
    OBVIOUS
  <2>2. Flushed = Performed(apu_w, es)
    BY <1>6, <2>1 DEF Flushed
  <2>3. es \in Seq(PortEntry) /\ InOrder(es) /\ D \in SUBSET PortEntry
    BY <1>2, <1>4, <2>1, PendingType DEF QueueInv, Reached
  <2>4. Arriving(spcQueue) = { es[i] : i \in 1 .. Len(es) } /\ Arriving(spcQueue) \subseteq OnTheWay
    BY <2>1 DEF Arriving, OnTheWay
  <2>5. \A e \in D, i \in 1 .. Len(es) : e.uCycle <= es[i].uCycle
    BY <2>4 DEF Reached
  <2>6. ASSUME NEW p \in Port PROVE Flushed[p] \in Latest(p, D \cup Arriving(spcQueue))
    <3>1. apu_w[p] \in Latest(p, D)
      BY DEF Reached
    <3> QED BY <2>2, <2>3, <2>4, <2>5, <3>1, PerformedIsLatest
  <2>7. Flushed = [p \in Port |-> Flushed[p]]
    <3>1. PICK g : g = Performed(apu_w, es)
      OBVIOUS
    <3>2. g = [q \in Port |-> g[q]]
      BY <3>1 DEF Performed
    <3> QED BY <2>2, <3>1, <3>2
  <2> QED BY <1>1, <1>2, <1>3, <1>4, <1>5, <2>6, <2>7
<1>7. CASE ~synced
  <2>1. Flushed = apu_w /\ Arriving(spcQueue) = {}
    BY <1>1, <1>2, <1>7 DEF Flushed, QueueInv
  <2>2. D \cup Arriving(spcQueue) = D
    BY <2>1
  <2>3. \A p \in Port : Flushed[p] \in Latest(p, D \cup Arriving(spcQueue))
    BY <2>1, <2>2 DEF Reached
  <2> QED BY <1>1, <1>2, <1>3, <1>4, <1>5, <2>1, <2>3 DEF QueueInv
<1> QED BY <1>6, <1>7

LEMMA FinishStep ==
  ASSUME PortsInv, FinishRead \/ FinishWrite \/ FinishFrame, SpcClocks'
  PROVE  PortsInv'
<1>1. PICK D : Reached(D)
  BY DEF PortsInv
<1>2. QueueInv
  BY DEF PortsInv
<1>3. PICK s \in {"read", "write", "frame"} : s = sync /\ SyncReturns(s)
  BY DEF FinishRead, FinishWrite, FinishFrame, SyncReturns
<1>4. /\ spcQueue' \in QueueOf(PortEntry) /\ InOrder(Pending(spcQueue')) /\ Arriving(spcQueue') = {}
      /\ \A p \in Port : Flushed[p] \in Latest(p, D \cup Arriving(spcQueue))
      /\ Flushed = [p \in Port |-> Flushed[p]]
      /\ \A e \in log : e \in PortEntry /\ e.uCycle \in Int /\ e.uCycle <= cpuTime
      /\ cpuTime \in Nat /\ cpuTime <= spcTime /\ spcTime = cpuTime - spcCycles
      /\ spcCycles \in Int /\ spcCycles <= 0
  BY <1>1, <1>3, FlushReaches
<1>5. sync' = "none" /\ seen' = NoRead /\ UNCHANGED <<accessed, spcCycles, synced>>
  BY <1>3 DEF SyncReturns
<1>6. PortsInTime' /\ OnTheWay' = {}
  BY <1>4, <1>5 DEF PortsInTime, OnTheWay
<1>7. \A e \in log : e.uCycle <= spcTime
  BY <1>4
<1>8. ASSUME cpuTime' = cpuTime, spcCounter' = spcCounter, log' = log, before' = before,
             apu_w' = [p \in Port |-> apu_w'[p]],
             \A p \in Port : apu_w'[p] \in Latest(p, log)
      PROVE  PortsInv'
  <2>1. QueueInv'
    BY <1>2, <1>4, <1>5, <1>8 DEF QueueInv
  <2>2. PICK F : F = log
    OBVIOUS
  <2>3. \A p \in Port : apu_w'[p] \in Latest(p, F)'
    BY <1>8, <2>2, SameLatest
  <2>4. spcTime' = spcTime
    BY <1>5, <1>8 DEF spcTime
  <2>5. Reached(F)'
    BY <1>6, <1>7, <1>8, <2>2, <2>3, <2>4 DEF Reached
  <2> QED BY <1>6, <2>1, <2>5 DEF PortsInv
<1>9. CASE FinishRead
  <2>1. sync = "read" /\ apu_w' = Flushed /\ UNCHANGED <<cpuTime, spcCounter, log, before>>
    BY <1>9 DEF FinishRead, SyncReturns
  <2>2. log = D \cup Arriving(spcQueue)
    BY <1>1, <2>1 DEF Reached, OnTheWay
  <2> QED BY <1>4, <1>8, <2>1, <2>2
<1>10. CASE FinishWrite
  <2>1. sync = "write" /\ apu_w' = [Flushed EXCEPT ![direct.port] = direct.data]
        /\ UNCHANGED <<cpuTime, spcCounter, log, before>>
    BY <1>10 DEF FinishWrite, SyncReturns
  <2>2. PICK e : e = direct
    OBVIOUS
  <2>3. e \in PortEntry /\ e.uCycle = cpuTime /\ e.port \in Port
    BY <1>2, <2>1, <2>2 DEF QueueInv, PortEntry
  <2>4. PICK F : F = D \cup Arriving(spcQueue)
    OBVIOUS
  <2>5. log = F \cup {e}
    BY <1>1, <2>1, <2>2, <2>4 DEF Reached, OnTheWay
  <2>6. PICK g : g = Flushed
    OBVIOUS
  <2>7. apu_w' = [g EXCEPT ![e.port] = e.data] /\ g = [p \in Port |-> g[p]]
    BY <1>4, <2>1, <2>2, <2>6
  <2>8. apu_w' = [p \in Port |-> apu_w'[p]]
    BY <2>7
  <2>9. ASSUME NEW p \in Port PROVE apu_w'[p] \in Latest(p, log)
    <3> DEFINE A == { f \in log : f.port = p }
    <3>1. CASE p = e.port
      <4>1. e \in A /\ \A f \in A : f.uCycle <= e.uCycle
        BY <1>4, <2>3, <2>5, <3>1
      <4>2. A # {} /\ Latest(p, log) = IF A = {} THEN before[p]
              ELSE { f.data : f \in { f \in A : \A h \in A : h.uCycle <= f.uCycle } }
        BY <4>1 DEF Latest
      <4>3. apu_w'[p] = e.data
        BY <2>7, <3>1
      <4> HIDE DEF A
      <4> QED BY <4>1, <4>2, <4>3
    <3>2. CASE p # e.port
      <4>1. A = { f \in F : f.port = p }
        BY <2>5, <3>2
      <4>2. Latest(p, log) = Latest(p, F)
        BY <4>1 DEF Latest
      <4>3. apu_w'[p] = Flushed[p]
        BY <2>6, <2>7, <3>2
      <4> QED BY <1>4, <2>4, <4>2, <4>3
    <3> QED BY <3>1, <3>2
  <2> QED BY <1>8, <2>1, <2>8, <2>9
<1>11. CASE FinishFrame
  <2>1. /\ sync = "frame" /\ apu_w' = Flushed /\ spcCounter' = 0 /\ log' = {}
        /\ before' = [p \in Port |-> Latest(p, log)]
    BY <1>11 DEF FinishFrame, SyncReturns
  <2>2. log = D \cup Arriving(spcQueue)
    BY <1>1, <2>1 DEF Reached, OnTheWay
  <2>3. QueueInv'
    BY <1>2, <1>4, <1>5, <2>1 DEF QueueInv
  <2>4. \A p \in Port : Latest(p, {})' = Latest(p, log)
    BY <2>1 DEF Latest
  <2>5. \A p \in Port : apu_w'[p] \in Latest(p, {})'
    BY <1>4, <2>1, <2>2, <2>4
  <2>6. Reached({})'
    BY <1>6, <2>1, <2>5 DEF Reached
  <2> QED BY <1>6, <2>3, <2>6 DEF PortsInv
<1> QED BY <1>9, <1>10, <1>11

LEMMA PortsStep ==
  ASSUME SPCMINCYCLES = 0, PoliteClear, PortsInv, [SpcIoNext]_spcVars
  PROVE  PortsInv'
<1>1. SpcClocks'
  BY ClocksStep DEF PortsInv
<1>2. ASSUME NEW n \in CpuStep, CpuRuns(n) PROVE PortsInv'
  BY <1>1, <1>2, CpuRunsStep
<1>3. ASSUME NEW p \in Port, NEW d \in PortData, CpuWrite(p, d) PROVE PortsInv'
  BY <1>1, <1>3, CpuWriteStep
<1>4. CASE CpuRead
  <2>1. sync = "none" /\ ~accessed /\ SyncSPC("read") /\ seen' = NoRead
        /\ UNCHANGED <<cpuTime, apu_w, spcQueue, direct, log, before>>
    BY <1>4 DEF CpuRead, CpuAccesses
  <2> QED BY <1>1, <2>1, CallStep
<1>5. CASE EndSpcFrame
  <2>1. sync = "none" /\ ~accessed /\ SyncSPC("frame") /\ seen' = NoRead
        /\ UNCHANGED <<cpuTime, apu_w, spcQueue, direct, log, before>>
    BY <1>5 DEF EndSpcFrame
  <2> QED BY <1>1, <2>1, CallStep
<1>6. ASSUME NEW n \in SpcOp, SpcRuns(n) PROVE PortsInv'
  BY <1>1, <1>6, SpcRunsStep
<1>7. ASSUME NEW n \in SpcOp, NEW p \in Port, SpcRead(p, n) PROVE PortsInv'
  BY <1>1, <1>7, SpcReadStep
<1>8. ASSUME NEW n \in SpcOp, NEW p \in Port, SpcClear(p, n) PROVE PortsInv'
  BY <1>1, <1>8, SpcClearStep
<1>9. CASE FinishRead \/ FinishWrite \/ FinishFrame
  BY <1>1, <1>9, FinishStep
<1>10. CASE UNCHANGED spcVars
  <2>1. /\ UNCHANGED <<cpuTime, accessed, spcCounter, spcCycles, apu_w, spcQueue>>
        /\ UNCHANGED <<sync, synced, direct, log, before, seen>>
    BY <1>10 DEF spcVars
  <2>2. QueueInv'
    BY <2>1 DEF PortsInv, QueueInv
  <2>3. \A p, D : Latest(p, D)' = Latest(p, D)
    BY <2>1, SameLatest
  <2>4. PICK D : Reached(D)
    BY DEF PortsInv
  <2>5. OnTheWay' = OnTheWay /\ spcTime' = spcTime
    BY <2>1 DEF OnTheWay, spcTime
  <2>6. Reached(D)'
    BY <2>1, <2>3, <2>4, <2>5 DEF Reached
  <2>7. PortsInTime'
    BY <2>1 DEF PortsInv, PortsInTime, Latest
  <2> QED BY <1>1, <2>2, <2>6, <2>7 DEF PortsInv
<1> QED BY <1>2, <1>3, <1>4, <1>5, <1>6, <1>7, <1>8, <1>9, <1>10 DEF SpcIoNext

\* Whenever the SPC reads a port it reads what the CPU wrote last before that
\* time, whatever was queued, made directly or left from the frame before; for
\* programs that clear no port while a write is still due.
THEOREM PortsInTimeHolds ==
  ASSUME SPCMINCYCLES = 0, PoliteClear
  PROVE  SpcIoSpec => []PortsInTime
<1>1. SpcIoInit => PortsInv
  <2> SUFFICES ASSUME SpcIoInit PROVE PortsInv
    OBVIOUS
  <2>1. /\ cpuTime = 0 /\ spcCounter = 0 /\ spcCycles = 0 /\ spcQueue = SNQueueReset
        /\ sync = "none" /\ log = {} /\ seen = NoRead
        /\ apu_w = [p \in Port |-> 0] /\ before = [p \in Port |-> {0}]
    BY DEF SpcIoInit
  <2>2. SpcClocks
    BY <2>1 DEF SpcClocks, SpcTimeInv
  <2>3. QueueInv
    BY <2>1, ResetIsEmpty DEF QueueInv
  <2>4. OnTheWay = {}
    BY <2>1, ResetIsEmpty DEF OnTheWay
  <2>5. \A p \in Port : apu_w[p] \in Latest(p, {})
    BY <2>1 DEF Latest
  <2>6. Reached({})
    BY <2>1, <2>4, <2>5 DEF Reached
  <2> QED BY <2>1, <2>2, <2>3, <2>6 DEF PortsInv, PortsInTime
<1>2. PortsInv /\ [SpcIoNext]_spcVars => PortsInv'
  BY PortsStep
<1>3. PortsInv => PortsInTime
  BY DEF PortsInv
<1> QED BY <1>1, <1>2, <1>3, PTL DEF SpcIoSpec

\* What a chip reads from the other is what is due by then.
THEOREM SpcAnswersHold ==
  ASSUME SPCMINCYCLES = 0, PoliteClear
  PROVE  SpcIoSpec => []SpcAnswers
<1> QED BY SpcKeepsUpHolds, PortsInTimeHolds, PTL DEF SpcAnswers

-----------------------------------------------------------------------------
\* The timers of the sound processor.

\* What has passed since the timer was last looked at, and what it has to count.
Unseen == (total - timer.iCycleSync) % TIME_RANGE
Due == timer.nElapsedCycles + Unseen

TimerTypeOK ==
  /\ timer \in [iCycleSync : 0 .. TIME_RANGE - 1, nElapsedCycles : Nat,
                uCompare : 0 .. UNSET_COMPARE - 1, uUpCounter : Nat, bEnabled : BOOLEAN]
  /\ total \in 0 .. TIME_RANGE - 1
  /\ sinceFrame \in 0 .. FRAME_CYCLES

\* The end of a frame looks at the timer, so that what it has not seen is never
\* too much for a difference of two times; and the clocked timer is where this
\* one will be once it has counted what is due.
TimerInv ==
  /\ TimerTypeOK
  /\ Unseen <= sinceFrame
  /\ clocked = IF timer.bEnabled
                 THEN Clocked(Due, timer.uUpCounter, timer.uCompare)
                 ELSE [nElapsed |-> timer.nElapsedCycles,
                       count |-> timer.uUpCounter % READ_RANGE]

LEMMA DivisorType ==
  ASSUME NEW u \in 0 .. UNSET_COMPARE - 1
  PROVE  iDivisor(u) \in Nat \ {0}
<1>1. \A a, b \in Nat \ {0} : a * b \in Nat \ {0}
  OBVIOUS
<1> QED BY <1>1, SNSpcTimerAssumption DEF iDivisor

\* The difference that is computed is what has passed.
LEMMA ElapsedIsUnseen ==
  ASSUME TimerTypeOK, Unseen <= sinceFrame
  PROVE  Elapsed(total, timer.iCycleSync) = Unseen /\ Unseen \in Nat /\ Due \in Nat
<1>1. TIME_RANGE \in Nat \ {0} /\ total - timer.iCycleSync \in Int
  BY SNSpcTimerAssumption DEF TimerTypeOK
<1>2. Unseen \in 0 .. TIME_RANGE - 1
  BY <1>1, DivMod DEF Unseen
<1>3. 2 * Unseen < TIME_RANGE
  BY <1>2, SNSpcTimerAssumption DEF TimerTypeOK
<1>4. Due \in Nat
  BY <1>2 DEF Due, TimerTypeOK
<1> QED BY <1>2, <1>3, <1>4 DEF Elapsed, Unseen

\* SNSpcTimerSync of a timer that counts: the pulses that are due, and the rest.
LEMMA SyncCountsDue ==
  ASSUME TimerTypeOK, Unseen <= sinceFrame, timer.bEnabled
  PROVE  SyncTimer(timer, total) =
           [timer EXCEPT !.iCycleSync = total,
                         !.uUpCounter = (@ + (Due \div iDivisor(timer.uCompare))) % COUNTER_RANGE,
                         !.nElapsedCycles = Due % iDivisor(timer.uCompare)]
<1> DEFINE D == iDivisor(timer.uCompare)
           nCount == IF Due >= D THEN Due \div D ELSE 0
<1>1. D \in Nat \ {0} /\ Due \in Nat
  BY DivisorType, ElapsedIsUnseen DEF TimerTypeOK
<1>2. SyncTimer(timer, total) =
        [timer EXCEPT !.iCycleSync = total, !.uUpCounter = (@ + nCount) % COUNTER_RANGE,
                      !.nElapsedCycles = Due - nCount * D]
  BY ElapsedIsUnseen DEF SyncTimer, Due
<1> HIDE DEF D
<1>3. nCount = Due \div D /\ Due - nCount * D = Due % D
  <2>1. PICK q \in Int, r \in 0 .. D - 1 : Due \div D = q /\ Due % D = r /\ Due = D * q + r
    <3>1. Due \in Int
      BY <1>1
    <3> QED BY <1>1, <3>1, DivMod
  <2>2. CASE Due >= D
    BY <1>1, <2>1, <2>2
  <2>3. CASE Due < D
    <3>1. Due = D * 0 + Due /\ Due \in 0 .. D - 1 /\ Due \in Int /\ 0 \in Int
      BY <1>1, <2>3
    <3>2. Due \div D = 0 /\ Due % D = Due
      BY <1>1, <3>1, DivUnique
    <3> QED BY <1>1, <2>3, <3>2
  <2> QED BY <1>1, <2>2, <2>3
<1> HIDE DEF nCount
<1> QED BY <1>2, <1>3 DEF D

LEMMA SyncIdle ==
  ASSUME ~timer.bEnabled
  PROVE  SyncTimer(timer, total) = [timer EXCEPT !.iCycleSync = total]
BY DEF SyncTimer

\* Why the timer is exact.
LEMMA InvIsExact ==
  ASSUME TimerInv
  PROVE  TimerIsExact
<1> DEFINE D == iDivisor(timer.uCompare)
<1>1. TimerTypeOK /\ D \in Nat \ {0} /\ Due \in Nat
  BY DivisorType, ElapsedIsUnseen DEF TimerTypeOK, TimerInv
<1>2. timer.uUpCounter \in Nat /\ READ_RANGE \in Nat \ {0} /\ COUNTER_RANGE \in Nat \ {0}
      /\ COUNTER_RANGE % READ_RANGE = 0
  BY <1>1, SNSpcTimerAssumption DEF TimerTypeOK
<1>3. CASE timer.bEnabled
  <2>1. SyncTimer(timer, total).uUpCounter = (timer.uUpCounter + (Due \div D)) % COUNTER_RANGE
    BY <1>1, <1>3, SyncCountsDue DEF TimerInv, TimerTypeOK
  <2>2. clocked.count = (timer.uUpCounter + (Due \div D)) % READ_RANGE
    BY <1>3 DEF TimerInv, Clocked
  <2>3. timer.uUpCounter + (Due \div D) \in Int
    BY <1>1, <1>2, DivMod, SMTT(30)
  <2> HIDE DEF D
  <2> QED BY <1>2, <2>1, <2>2, <2>3, ModMod DEF TimerIsExact, Counted
<1>4. CASE ~timer.bEnabled
  BY <1>1, <1>4, SyncIdle DEF TimerInv, TimerTypeOK, TimerIsExact, Counted
<1> QED BY <1>3, <1>4

-----------------------------------------------------------------------------
\* A cycle passes.
LEMMA TickStep ==
  ASSUME TimerInv, Tick
  PROVE  TimerInv'
<1> DEFINE D == iDivisor(timer.uCompare)
           T == TIME_RANGE
<1>1. TimerTypeOK /\ D \in Nat \ {0} /\ Due \in Nat /\ Unseen \in Nat /\ Unseen <= sinceFrame
  BY DivisorType, ElapsedIsUnseen DEF TimerTypeOK, TimerInv
<1>2. T \in Nat \ {0} /\ 1 < T /\ total \in 0 .. T - 1 /\ timer.iCycleSync \in 0 .. T - 1
      /\ sinceFrame \in Nat /\ sinceFrame + 1 < T
  BY <1>1, SNSpcTimerAssumption DEF TimerTypeOK, Tick
<1>3. timer' = timer /\ total' = (total + 1) % T /\ sinceFrame' = sinceFrame + 1
  BY DEF Tick
<1>4. TimerTypeOK'
  <2>1. total + 1 \in Int
    BY <1>2
  <2>2. (total + 1) % T \in 0 .. T - 1
    BY <1>2, <2>1, DivMod
  <2>3. sinceFrame + 1 \in 0 .. FRAME_CYCLES
    BY <1>1, SNSpcTimerAssumption DEF Tick, TimerTypeOK
  <2> QED BY <1>1, <1>3, <2>2, <2>3 DEF TimerTypeOK
<1>5. Unseen' = Unseen + 1
  <2> DEFINE past == timer.iCycleSync
  <2>1. PICK q \in Int : total - past = T * q + Unseen
    <3>1. total - past \in Int
      BY <1>2
    <3> QED BY <1>2, <3>1, DivMod DEF Unseen
  <2>2. PICK p \in Int : total + 1 = T * p + total'
    <3>1. total + 1 \in Int
      BY <1>2
    <3> QED BY <1>2, <1>3, <3>1, DivMod
  <2>3. total' \in Int /\ past \in Int
    BY <1>2, <1>4 DEF TimerTypeOK
  <2>4. q - p \in Int /\ T * (q - p) = (T * q) - (T * p)
    BY <1>2
  <2>5. total' - past = T * (q - p) + (Unseen + 1)
    <3>1. PICK a \in Int, b \in Int : a = T * q /\ b = T * p
      BY <1>2
    <3>2. total - past = a + Unseen /\ total + 1 = b + total'
      BY <2>1, <2>2, <3>1
    <3>3. total \in Int /\ Unseen \in Int
      BY <1>1, <1>2
    <3> HIDE DEF past
    <3>4. total' - past = (a - b) + (Unseen + 1)
      BY <2>3, <3>1, <3>2, <3>3
    <3> QED BY <2>4, <3>1, <3>4
  <2>6. Unseen + 1 \in 0 .. T - 1 /\ total' - past \in Int
    BY <1>1, <1>2, <2>3
  <2>7. (total' - past) % T = Unseen + 1
    BY <1>2, <2>4, <2>5, <2>6, DivUnique
  <2> QED BY <1>3, <2>7 DEF Unseen
<1>6. Unseen' <= sinceFrame' /\ Due' = Due + 1
  BY <1>1, <1>2, <1>3, <1>5 DEF Due, TimerTypeOK
<1>7. clocked' = IF timer'.bEnabled
                   THEN Clocked(Due', timer'.uUpCounter, timer'.uCompare)
                   ELSE [nElapsed |-> timer'.nElapsedCycles,
                         count |-> timer'.uUpCounter % READ_RANGE]
  <2>1. CASE timer.bEnabled
    <3> DEFINE u == timer.uUpCounter
               e == Due % D
               k == Due \div D
               m == (e + 1) \div D
    <3>1. clocked.nElapsed = e /\ clocked.count = (u + k) % READ_RANGE
      BY <2>1 DEF TimerInv, Clocked
    <3>2. clocked' = Clocked(e + 1, (u + k) % READ_RANGE, timer.uCompare)
      BY <2>1, <3>1 DEF Tick
    <3>3. clocked' = [nElapsed |-> (e + 1) % D, count |-> (((u + k) % READ_RANGE) + m) % READ_RANGE]
      BY <3>2 DEF Clocked
    <3>4. Due \in Int /\ 1 \in Int /\ u \in Int /\ READ_RANGE \in Nat \ {0}
      BY <1>1, SNSpcTimerAssumption DEF TimerTypeOK
    <3> HIDE DEF D
    <3>5. (e + 1) % D = (Due + 1) % D /\ (Due + 1) \div D = k + m
      BY <1>1, <3>4, ReduceFirst
    <3>6. e \in Int /\ k \in Int
      BY <1>1, <3>4, DivMod
    <3>7. m \in Int /\ u + k \in Int
      <4>1. e + 1 \in Int
        BY <3>6
      <4> QED BY <1>1, <3>4, <3>6, <4>1, DivMod
    <3> HIDE DEF e, k, m, u
    <3>8. (((u + k) % READ_RANGE) + m) % READ_RANGE = ((u + k) + m) % READ_RANGE
      BY <3>4, <3>7, ReduceFirst
    <3>9. (u + k) + m = u + (k + m)
      BY <3>4, <3>6, <3>7
    <3>10. clocked' = [nElapsed |-> (Due + 1) % D, count |-> (u + ((Due + 1) \div D)) % READ_RANGE]
      BY <3>3, <3>5, <3>8, <3>9
    <3> QED BY <1>3, <1>6, <2>1, <3>10 DEF Clocked, D, u
  <2>2. CASE ~timer.bEnabled
    BY <1>3, <2>2 DEF TimerInv, Tick
  <2> QED BY <2>1, <2>2
<1> QED BY <1>4, <1>6, <1>7 DEF TimerInv

\* What SNSpcTimerSync leaves: a timer that has seen everything, and is where
\* the clocked one is.
LEMMA SyncedTimer ==
  ASSUME TimerInv, NEW t, t = SyncTimer(timer, total)
  PROVE  /\ t \in [iCycleSync : {total}, nElapsedCycles : Nat, uCompare : {timer.uCompare},
                   uUpCounter : Nat, bEnabled : {timer.bEnabled}]
         /\ clocked = [nElapsed |-> t.nElapsedCycles, count |-> t.uUpCounter % READ_RANGE]
         /\ t.bEnabled => t.nElapsedCycles < iDivisor(t.uCompare)
<1> DEFINE D == iDivisor(timer.uCompare)
           u == timer.uUpCounter + (Due \div D)
<1>1. TimerTypeOK /\ D \in Nat \ {0} /\ Due \in Nat
  BY DivisorType, ElapsedIsUnseen DEF TimerTypeOK, TimerInv
<1>2. READ_RANGE \in Nat \ {0} /\ COUNTER_RANGE \in Nat \ {0} /\ COUNTER_RANGE % READ_RANGE = 0
  BY SNSpcTimerAssumption
<1>3. CASE timer.bEnabled
  <2>1. t = [timer EXCEPT !.iCycleSync = total, !.uUpCounter = u % COUNTER_RANGE,
                          !.nElapsedCycles = Due % D]
    BY <1>1, <1>3, SyncCountsDue DEF TimerInv
  <2>2. Due \in Int /\ timer.uUpCounter \in Int
    BY <1>1 DEF TimerTypeOK
  <2>3. Due % D \in 0 .. D - 1 /\ Due \div D \in Int
    BY <1>1, <2>2, DivMod
  <2>4. u \in Int
    BY <2>2, <2>3
  <2>5. u % COUNTER_RANGE \in 0 .. COUNTER_RANGE - 1 /\ (u % COUNTER_RANGE) % READ_RANGE = u % READ_RANGE
    BY <1>2, <2>4, DivMod, ModMod
  <2>6. clocked = [nElapsed |-> Due % D, count |-> u % READ_RANGE]
    BY <1>3 DEF TimerInv, Clocked
  <2> HIDE DEF D, u
  <2>7. Due % D \in Nat /\ u % COUNTER_RANGE \in Nat /\ Due % D < D
    BY <1>1, <1>2, <2>3, <2>5
  <2>8. /\ t.iCycleSync = total /\ t.nElapsedCycles = Due % D /\ t.uUpCounter = u % COUNTER_RANGE
        /\ t.uCompare = timer.uCompare /\ t.bEnabled = timer.bEnabled
        /\ t \in [iCycleSync : {total}, nElapsedCycles : Nat, uCompare : {timer.uCompare},
                  uUpCounter : Nat, bEnabled : {timer.bEnabled}]
    BY <1>1, <2>1, <2>7 DEF TimerTypeOK
  <2>9. t.nElapsedCycles < iDivisor(t.uCompare)
    BY <2>7, <2>8 DEF D
  <2> QED BY <2>5, <2>6, <2>8, <2>9
<1>4. CASE ~timer.bEnabled
  <2>1. t = [timer EXCEPT !.iCycleSync = total]
    BY <1>4, SyncIdle
  <2> QED BY <1>1, <1>4, <2>1 DEF TimerInv, TimerTypeOK
<1> QED BY <1>3, <1>4

\* A count that is less than the divisor gives no pulse.
LEMMA NoPulse ==
  ASSUME NEW v \in 0 .. UNSET_COMPARE - 1, NEW n \in Nat, n < iDivisor(v), NEW c \in Nat
  PROVE  Clocked(n, c, v) = [nElapsed |-> n, count |-> c % READ_RANGE]
<1> DEFINE D == iDivisor(v)
<1>1. D \in Nat \ {0}
  BY DivisorType
<1>2. n = D * 0 + n /\ n \in 0 .. D - 1 /\ n \in Int /\ 0 \in Int
  BY <1>1
<1>3. n \div D = 0 /\ n % D = n
  BY <1>1, <1>2, DivUnique
<1> QED BY <1>3 DEF Clocked

\* The steps that look at the timer.
LEMMA LookStep ==
  ASSUME TimerInv, NEW t, t = SyncTimer(timer, total),
         timer' \in [iCycleSync : {total}, nElapsedCycles : {t.nElapsedCycles},
                     uCompare : 0 .. UNSET_COMPARE - 1, uUpCounter : Nat, bEnabled : BOOLEAN],
         total' = total, sinceFrame' \in 0 .. FRAME_CYCLES,
         clocked' = IF timer'.bEnabled
                      THEN Clocked(t.nElapsedCycles, timer'.uUpCounter, timer'.uCompare)
                      ELSE [nElapsed |-> t.nElapsedCycles,
                            count |-> timer'.uUpCounter % READ_RANGE]
  PROVE  TimerInv'
<1>1. t.nElapsedCycles \in Nat
  BY SyncedTimer
<1>2. TimerTypeOK'
  BY <1>1 DEF TimerInv, TimerTypeOK
<1>3. Unseen' = 0
  <2>1. TIME_RANGE \in Nat \ {0} /\ total \in Int /\ timer'.iCycleSync = total
    BY SNSpcTimerAssumption DEF TimerInv, TimerTypeOK
  <2>2. total' - timer'.iCycleSync = TIME_RANGE * 0 + 0 /\ total' - timer'.iCycleSync \in Int
    BY <2>1
  <2>3. 0 \in 0 .. TIME_RANGE - 1 /\ 0 \in Int
    BY <2>1
  <2>4. (total' - timer'.iCycleSync) % TIME_RANGE = 0
    BY <2>1, <2>2, <2>3, DivUnique
  <2> QED BY <2>4 DEF Unseen
<1>4. Due' = t.nElapsedCycles
  BY <1>1, <1>3 DEF Due
<1>5. Unseen' <= sinceFrame' /\ timer'.nElapsedCycles = t.nElapsedCycles
  BY <1>2, <1>3 DEF TimerTypeOK
<1> QED BY <1>2, <1>4, <1>5 DEF TimerInv

LEMMA TimerStep ==
  ASSUME TimerInv, [TimerNext]_timerVars
  PROVE  TimerInv'
<1> DEFINE t == SyncTimer(timer, total)
<1>1. /\ t \in [iCycleSync : {total}, nElapsedCycles : Nat, uCompare : {timer.uCompare},
                uUpCounter : Nat, bEnabled : {timer.bEnabled}]
      /\ clocked = [nElapsed |-> t.nElapsedCycles, count |-> t.uUpCounter % READ_RANGE]
      /\ t.bEnabled => t.nElapsedCycles < iDivisor(t.uCompare)
  BY SyncedTimer
<1>2. TimerTypeOK
  BY DEF TimerInv
<1>3. timer.uCompare \in 0 .. UNSET_COMPARE - 1 /\ READ_RANGE \in Nat \ {0}
      /\ timer.bEnabled \in BOOLEAN /\ sinceFrame \in 0 .. FRAME_CYCLES
  BY <1>2, SNSpcTimerAssumption DEF TimerTypeOK
<1> HIDE DEF t
<1>4. t.bEnabled => clocked = Clocked(t.nElapsedCycles, t.uUpCounter, t.uCompare)
  BY <1>1, <1>3, NoPulse
<1>5. CASE Tick
  BY <1>5, TickStep
<1>6. CASE EndTimerFrame
  <2>1. timer' = t /\ total' = total /\ clocked' = clocked /\ sinceFrame' \in 0 .. FRAME_CYCLES
    BY <1>6, SNSpcTimerAssumption DEF EndTimerFrame, t
  <2> QED BY <1>1, <1>3, <1>4, <2>1, LookStep DEF t
<1>7. CASE GetCounter
  <2>1. /\ timer' = [t EXCEPT !.uUpCounter = 0] /\ total' = total /\ sinceFrame' = sinceFrame
        /\ clocked' = [clocked EXCEPT !.count = 0]
    BY <1>7 DEF GetCounter, t
  <2>2. 0 % READ_RANGE = 0 /\ 0 \in Nat
    BY <1>3
  <2>3. clocked' = [nElapsed |-> t.nElapsedCycles, count |-> 0]
    BY <1>1, <2>1
  <2>4. t.bEnabled => clocked' = Clocked(t.nElapsedCycles, 0, t.uCompare)
    BY <1>1, <1>3, <2>2, <2>3, NoPulse
  <2> QED BY <1>1, <1>3, <2>1, <2>2, <2>3, <2>4, LookStep DEF t
<1>8. ASSUME NEW bEnable \in BOOLEAN, SetEnable(bEnable)
      PROVE  TimerInv'
  <2>1. /\ timer' = [t EXCEPT !.uUpCounter = IF bEnable THEN 0 ELSE @, !.bEnabled = bEnable]
        /\ total' = total /\ sinceFrame' = sinceFrame
        /\ clocked' = IF bEnable THEN Clocked(clocked.nElapsed, 0, timer.uCompare) ELSE clocked
    BY <1>8 DEF SetEnable, t
  <2> QED BY <1>1, <1>3, <2>1, LookStep DEF t
<1>9. ASSUME NEW uValue \in 0 .. UNSET_COMPARE - 1, SetTimer(uValue)
      PROVE  TimerInv'
  <2>1. /\ timer' = [t EXCEPT !.uCompare = uValue] /\ total' = total /\ sinceFrame' = sinceFrame
        /\ clocked' = IF timer.bEnabled
                        THEN Clocked(clocked.nElapsed, clocked.count, uValue) ELSE clocked
    BY <1>9 DEF SetTimer, t
  <2>2. Clocked(t.nElapsedCycles, t.uUpCounter % READ_RANGE, uValue)
          = Clocked(t.nElapsedCycles, t.uUpCounter, uValue)
    <3> DEFINE k == t.nElapsedCycles \div iDivisor(uValue)
    <3>1. iDivisor(uValue) \in Nat \ {0} /\ t.nElapsedCycles \in Int /\ t.uUpCounter \in Int
      BY <1>1, DivisorType
    <3>2. k \in Int
      BY <3>1, DivMod
    <3> HIDE DEF k
    <3>3. ((t.uUpCounter % READ_RANGE) + k) % READ_RANGE = (t.uUpCounter + k) % READ_RANGE
      BY <1>3, <3>1, <3>2, ReduceFirst
    <3> QED BY <3>3 DEF Clocked, k
  <2> QED BY <1>1, <1>3, <2>1, <2>2, LookStep DEF t
<1>10. CASE UNCHANGED timerVars
  BY <1>10 DEF timerVars, TimerInv, TimerTypeOK, Unseen, Due
<1> QED BY <1>5, <1>6, <1>7, <1>8, <1>9, <1>10 DEF TimerNext

\* A timer that is looked at when it is used, and once in a frame, counts what
\* one that is clocked in every cycle counts, for every divisor, every range of
\* its counters and every range of the time.
THEOREM TimerIsExactHolds == TimerSpec => []TimerIsExact
<1>1. TimerInit => TimerInv
  <2> SUFFICES ASSUME TimerInit PROVE TimerInv
    OBVIOUS
  <2>1. TIME_RANGE \in Nat \ {0} /\ READ_RANGE \in Nat \ {0} /\ UNSET_COMPARE \in Nat \ {0}
    BY SNSpcTimerAssumption
  <2>2. (0 - 0) % TIME_RANGE = 0 /\ 0 % READ_RANGE = 0
    BY <2>1
  <2> QED BY <2>1, <2>2, SNSpcTimerAssumption DEF TimerInit, TimerInv, TimerTypeOK, Unseen
<1> QED BY <1>1, TimerStep, InvIsExact, PTL DEF TimerSpec

-----------------------------------------------------------------------------
\* HDMA.

HdmaDataOK ==
  /\ HdmaTypeOK
  /\ memory \in [0 .. MEM - 1 -> Byte \ {REPEAT}]
  /\ indirect \in BOOLEAN
  /\ lines <= hdmaLine
  /\ entry \in [addr : 0 .. MEM - 1, byte : Byte \ {REPEAT}]

\* The counter, counted down in place, is the entry's byte less the lines it
\* has been in force; and a table that holds its data is read where they are.
HdmaInv ==
  /\ HdmaDataOK
  /\ IF entry.byte = 0
       THEN lines = 0 /\ units = 0 /\ ntlrx = 0 /\ a2ax = entry.addr
       ELSE /\ lines >= 1 /\ lines <= entry.byte % REPEAT
            /\ ntlrx = entry.byte - lines
            /\ units = IF entry.byte > REPEAT THEN lines ELSE 1
            /\ IF indirect
                 THEN /\ a2ax = (entry.addr + 3) % MEM
                      /\ dasx = (Pointer(entry.addr + 1) + UNIT * units) % MEM
                 ELSE /\ a2ax = (entry.addr + 1 + UNIT * units) % MEM
                      /\ dasx = a2ax

\* The number of lines that is left.
LEMMA Flagged ==
  ASSUME NEW b \in Byte
  PROVE  b % REPEAT = IF b >= REPEAT THEN b - REPEAT ELSE b
<1>1. REPEAT \in Nat \ {0} /\ b \in Int /\ b \in 0 .. 2 * REPEAT - 1
  BY SnesHDMAAssumption DEF Byte
<1>2. CASE b >= REPEAT
  <2>1. b = REPEAT * 1 + (b - REPEAT) /\ b - REPEAT \in 0 .. REPEAT - 1 /\ 1 \in Int
    BY <1>1, <1>2
  <2> QED BY <1>1, <1>2, <2>1, DivUnique
<1>3. CASE b < REPEAT
  <2>1. b = REPEAT * 0 + b /\ b \in 0 .. REPEAT - 1 /\ 0 \in Int
    BY <1>1, <1>3
  <2> QED BY <1>1, <1>3, <2>1, DivUnique
<1> QED BY <1>1, <1>2, <1>3

LEMMA CountLeft ==
  ASSUME HdmaInv, entry.byte # 0
  PROVE  /\ ntlrx % REPEAT = (entry.byte % REPEAT) - lines
         /\ ntlrx >= REPEAT <=> entry.byte > REPEAT
<1>1. /\ REPEAT \in Nat \ {0} /\ entry.byte \in Byte /\ entry.byte # REPEAT
      /\ ntlrx \in Byte /\ lines \in Nat
      /\ ntlrx = entry.byte - lines /\ lines <= entry.byte % REPEAT
  BY SnesHDMAAssumption DEF HdmaInv, HdmaDataOK, HdmaTypeOK
<1>2. entry.byte % REPEAT = IF entry.byte >= REPEAT THEN entry.byte - REPEAT ELSE entry.byte
  BY <1>1, Flagged
<1>3. ntlrx % REPEAT = IF ntlrx >= REPEAT THEN ntlrx - REPEAT ELSE ntlrx
  BY <1>1, Flagged
<1>4. entry.byte \in Nat /\ ntlrx \in Nat
  BY <1>1 DEF Byte
<1>5. CASE entry.byte > REPEAT
  <2>1. entry.byte % REPEAT = entry.byte - REPEAT
    BY <1>1, <1>2, <1>4, <1>5
  <2>2. ntlrx >= REPEAT
    BY <1>1, <1>4, <1>5, <2>1
  <2>3. ntlrx % REPEAT = ntlrx - REPEAT
    BY <1>3, <2>2
  <2>4. ntlrx - REPEAT = (entry.byte - REPEAT) - lines
    BY <1>1, <1>4
  <2> QED BY <1>5, <2>1, <2>2, <2>3, <2>4
<1>6. CASE entry.byte < REPEAT
  <2>1. entry.byte % REPEAT = entry.byte
    BY <1>1, <1>2, <1>4, <1>6
  <2>2. ~(ntlrx >= REPEAT) /\ ~(entry.byte > REPEAT)
    BY <1>1, <1>4, <1>6
  <2>3. ntlrx % REPEAT = ntlrx
    BY <1>3, <2>2
  <2> QED BY <1>1, <2>1, <2>2, <2>3
<1> QED BY <1>1, <1>4, <1>5, <1>6

LEMMA InvFollows == ASSUME HdmaInv PROVE HdmaFollowsTable
<1>1. lines \in Nat /\ entry.byte % REPEAT \in Int
  BY SnesHDMAAssumption DEF HdmaInv, HdmaDataOK, HdmaTypeOK, Byte
<1>2. CASE entry.byte = 0
  BY <1>2 DEF HdmaInv, HdmaFollowsTable
<1>3. CASE entry.byte # 0
  <2>1. (ntlrx % REPEAT = 0) = (lines = entry.byte % REPEAT)
    BY <1>1, <1>3, CountLeft
  <2> QED BY <1>3, <2>1 DEF HdmaInv, HdmaFollowsTable
<1> QED BY <1>2, <1>3

-----------------------------------------------------------------------------
\* Another transfer moves on by the bytes of one.
LEMMA NextUnit ==
  ASSUME NEW from \in Nat, NEW n \in Nat
  PROVE  (((from + UNIT * n) % MEM) + UNIT) % MEM = (from + UNIT * (n + 1)) % MEM
<1>1. MEM \in Nat \ {0} /\ UNIT \in Nat /\ UNIT \in Int
  BY SnesHDMAAssumption
<1>2. PICK m \in Nat : m = UNIT * n
  <2>1. \A x, y \in Nat : x * y \in Nat
    OBVIOUS
  <2> QED BY <1>1, <2>1
<1>3. UNIT * (n + 1) = m + UNIT
  BY <1>1, <1>2
<1>4. from + m \in Int /\ from + (m + UNIT) = (from + m) + UNIT
  BY <1>1
<1>5. (((from + m) % MEM) + UNIT) % MEM = ((from + m) + UNIT) % MEM
  BY <1>1, <1>4, ReduceFirst
<1> QED BY <1>2, <1>3, <1>4, <1>5

LEMMA WrapType == ASSUME NEW a \in Nat PROVE a % MEM \in 0 .. MEM - 1
<1>1. MEM \in Nat \ {0} /\ a \in Int
  BY SnesHDMAAssumption
<1> QED BY <1>1, DivMod

LEMMA PointerType ==
  ASSUME memory \in [0 .. MEM - 1 -> Byte \ {REPEAT}], NEW a \in Nat
  PROVE  Pointer(a) \in 0 .. MEM - 1
<1>1. memory[a % MEM] \in Nat /\ memory[(a + 1) % MEM] \in Nat
  <2>1. a % MEM \in 0 .. MEM - 1 /\ (a + 1) % MEM \in 0 .. MEM - 1
    BY WrapType
  <2> QED BY <2>1, SnesHDMAAssumption DEF Byte
<1>2. \A x, y \in Nat : x + y \in Nat /\ x * y \in Nat
  OBVIOUS
<1>3. memory[a % MEM] + 2 * REPEAT * memory[(a + 1) % MEM] \in Nat
  BY <1>1, <1>2, SnesHDMAAssumption
<1> QED BY <1>3, WrapType DEF Pointer

LEMMA HdmaStep ==
  ASSUME HdmaInv, [HdmaNext]_hdmaVars
  PROVE  HdmaInv'
<1>1. /\ REPEAT \in Nat \ {0} /\ MEM \in Nat \ {0} /\ UNIT \in Nat \ {0} /\ HDMA_LINES \in Nat
  BY SnesHDMAAssumption
<1>2. /\ HdmaDataOK /\ HdmaTypeOK
      /\ memory[a2ax] \in Byte /\ memory[a2ax] # REPEAT /\ entry.byte \in Byte /\ entry.byte # REPEAT
      /\ ntlrx \in Nat /\ entry.byte \in Nat /\ memory[a2ax] \in Nat /\ lines \in Nat /\ units \in Nat
      /\ a2ax \in Nat /\ dasx \in Nat /\ hdmaLine \in Nat /\ entry.addr \in Nat
      /\ entry \in [addr : 0 .. MEM - 1, byte : Byte \ {REPEAT}]
  BY <1>1 DEF HdmaInv, HdmaDataOK, HdmaTypeOK, Byte
<1>3. ASSUME Processes PROVE hdmaLine' = hdmaLine + 1 /\ hdmaLine' \in 0 .. HDMA_LINES
                             /\ memory' = memory /\ indirect' = indirect
  BY <1>1, <1>2, <1>3 DEF Processes
<1>4. CASE BeginHDMA
  BY <1>1, <1>2, <1>4 DEF BeginHDMA, HdmaInv, HdmaDataOK, HdmaTypeOK, NoEntry, Byte
<1>5. CASE FetchEntry
  <2> DEFINE b == memory[a2ax]
             from == IF indirect THEN Pointer(a2ax + 1) ELSE a2ax + 1
  <2>1. /\ b # 0 /\ ntlrx' = b - 1 /\ lines' = 1 /\ units' = 1
        /\ entry' = [addr |-> a2ax, byte |-> b]
        /\ dasx' = (from + UNIT) % MEM
        /\ a2ax' = IF indirect THEN (a2ax + 3) % MEM ELSE dasx'
    BY <1>5 DEF FetchEntry
  <2>2. Processes
    BY <1>5 DEF FetchEntry
  <2>3. b % REPEAT >= 1 /\ ntlrx' \in Byte
    <3>1. b % REPEAT = IF b >= REPEAT THEN b - REPEAT ELSE b
      BY <1>2, Flagged
    <3>2. b \in Nat /\ b >= 1 /\ b # REPEAT /\ b <= 2 * REPEAT - 1
      BY <1>1, <1>2, <2>1 DEF Byte
    <3> HIDE DEF b
    <3>3. b % REPEAT >= 1
      BY <1>1, <3>1, <3>2
    <3>4. b - 1 \in Byte
      BY <1>1, <3>2 DEF Byte
    <3> QED BY <2>1, <3>3, <3>4
  <2>4. Pointer(a2ax + 1) \in Nat
    <3>1. a2ax + 1 \in Nat
      BY <1>2
    <3>2. Pointer(a2ax + 1) \in 0 .. MEM - 1
      BY <1>2, <3>1, PointerType DEF HdmaDataOK
    <3> QED BY <1>1, <3>2
  <2>5. dasx' \in 0 .. MEM - 1 /\ a2ax' \in 0 .. MEM - 1
    <3>1. from + UNIT \in Nat /\ a2ax + 3 \in Nat
      BY <1>1, <1>2, <2>4
    <3> QED BY <2>1, <3>1, WrapType
  <2>6. HdmaDataOK'
    <3>1. entry' \in [addr : 0 .. MEM - 1, byte : Byte \ {REPEAT}]
      BY <1>2, <2>1 DEF HdmaTypeOK
    <3>2. hdmaLine' \in 0 .. HDMA_LINES /\ hdmaLine' >= 1 /\ memory' = memory /\ indirect' = indirect
      BY <1>2, <1>3, <2>2
    <3>3. lines' = 1 /\ units' = 1
      BY <2>1
    <3> QED BY <1>1, <1>2, <2>3, <2>5, <3>1, <3>2, <3>3 DEF HdmaDataOK, HdmaTypeOK
  <2>7. UNIT * units' = UNIT
    BY <1>1, <2>1
  <2>8. indirect => a2ax' = (entry'.addr + 3) % MEM
                    /\ dasx' = (Pointer(entry.addr + 1)' + UNIT * units') % MEM
    <3>1. entry'.addr = a2ax /\ memory' = memory
      BY <1>3, <2>1, <2>2
    <3>2. Pointer(entry.addr + 1)' = Pointer(a2ax + 1)
      BY <3>1 DEF Pointer
    <3> QED BY <2>1, <2>7, <3>1, <3>2
  <2>9. ~indirect => a2ax' = (entry'.addr + 1 + UNIT * units') % MEM /\ dasx' = a2ax'
    BY <2>1, <2>7
  <2>10. entry'.byte = b /\ entry'.byte # 0 /\ units' = 1 /\ lines' = 1
    BY <2>1
  <2>11. ntlrx' = entry'.byte - lines' /\ lines' <= entry'.byte % REPEAT /\ lines' >= 1
    BY <2>1, <2>3, <2>10, <1>1, <1>2
  <2>12. indirect' = indirect
    BY <1>3, <2>2
  <2>13. units' = IF entry'.byte > REPEAT THEN lines' ELSE 1
    BY <2>10
  <2> HIDE DEF b, from
  <2> QED BY <2>6, <2>8, <2>9, <2>10, <2>11, <2>12, <2>13 DEF HdmaInv
<1>6. CASE FetchEnd
  <2>1. Processes /\ ntlrx' = 0 /\ entry' = [addr |-> a2ax, byte |-> 0] /\ lines' = 0 /\ units' = 0
        /\ a2ax' = a2ax /\ dasx' = dasx
    BY <1>6 DEF FetchEnd
  <2> QED BY <1>1, <1>2, <1>3, <2>1 DEF HdmaInv, HdmaDataOK, HdmaTypeOK, Byte
<1>7. CASE RepeatEntry
  <2>1. /\ Processes /\ ~EntryIsOver /\ ntlrx - 1 >= REPEAT /\ ntlrx' = ntlrx - 1
        /\ lines' = lines + 1 /\ units' = units + 1 /\ entry' = entry
        /\ dasx' = (dasx + UNIT) % MEM
        /\ a2ax' = IF indirect THEN a2ax ELSE dasx'
    BY <1>7 DEF RepeatEntry, TransferUnit
  <2>2. ntlrx # 0 /\ ntlrx % REPEAT # 0
    BY <1>1, <2>1 DEF EntryIsOver
  <2>3. entry.byte # 0
    BY <2>2 DEF HdmaInv
  <2>4. /\ entry.byte > REPEAT /\ ntlrx % REPEAT = (entry.byte % REPEAT) - lines
    BY <1>1, <1>2, <2>1, <2>3, CountLeft
  <2>5. entry.byte % REPEAT \in Int
    BY <1>1, <1>2
  <2>6. lines + 1 <= entry.byte % REPEAT /\ ntlrx' = entry'.byte - lines' /\ lines' >= 1
    BY <1>2, <2>1, <2>2, <2>3, <2>4, <2>5 DEF HdmaInv
  <2>7. units' = lines'
    BY <1>2, <2>1, <2>3, <2>4 DEF HdmaInv
  <2>8. Pointer(entry.addr + 1) \in Nat /\ entry.addr + 1 \in Nat
    <3>1. entry.addr + 1 \in Nat
      BY <1>2
    <3>2. Pointer(entry.addr + 1) \in 0 .. MEM - 1
      BY <1>2, <3>1, PointerType DEF HdmaDataOK
    <3> QED BY <1>1, <3>1, <3>2
  <2>9. indirect => a2ax' = (entry.addr + 3) % MEM
                    /\ dasx' = (Pointer(entry.addr + 1) + UNIT * (units + 1)) % MEM
    BY <1>2, <2>1, <2>3, <2>8, NextUnit DEF HdmaInv
  <2>10. ~indirect => a2ax' = ((entry.addr + 1) + UNIT * (units + 1)) % MEM /\ dasx' = a2ax'
    BY <1>2, <2>1, <2>3, <2>8, NextUnit DEF HdmaInv
  <2>11. a2ax' \in 0 .. MEM - 1 /\ dasx' \in 0 .. MEM - 1
    <3>1. dasx + UNIT \in Nat
      BY <1>1, <1>2
    <3> QED BY <1>2, <2>1, <3>1, WrapType DEF HdmaTypeOK
  <2>12. HdmaDataOK'
    BY <1>1, <1>2, <1>3, <2>1, <2>7, <2>11 DEF HdmaDataOK, HdmaTypeOK, Byte
  <2>13. Pointer(entry.addr + 1)' = Pointer(entry.addr + 1) /\ indirect' = indirect
    BY <1>3, <2>1 DEF Pointer
  <2> QED BY <2>1, <2>3, <2>4, <2>6, <2>7, <2>9, <2>10, <2>12, <2>13 DEF HdmaInv
<1>8. CASE SkipLine
  <2>1. /\ Processes /\ ~EntryIsOver /\ ntlrx - 1 < REPEAT /\ ntlrx' = ntlrx - 1
        /\ lines' = lines + 1 /\ units' = units /\ entry' = entry
        /\ dasx' = dasx /\ a2ax' = a2ax
    BY <1>8 DEF SkipLine
  <2>2. ntlrx # 0 /\ ntlrx % REPEAT # 0 /\ REPEAT % REPEAT = 0
    BY <1>1, <2>1 DEF EntryIsOver
  <2>3. entry.byte # 0 /\ ntlrx < REPEAT
    BY <1>1, <1>2, <2>1, <2>2 DEF HdmaInv
  <2>4. /\ entry.byte < REPEAT /\ ntlrx % REPEAT = (entry.byte % REPEAT) - lines
    BY <1>1, <1>2, <2>3, CountLeft
  <2>5. entry.byte % REPEAT \in Int
    BY <1>1, <1>2
  <2>6. lines + 1 <= entry.byte % REPEAT /\ ntlrx' = entry'.byte - lines' /\ lines' >= 1
    <3>1. ntlrx = entry.byte - lines /\ lines <= entry.byte % REPEAT
      BY <2>3 DEF HdmaInv
    <3> QED BY <1>2, <2>1, <2>2, <2>4, <2>5, <3>1
  <2>7. units' = 1
    BY <1>1, <1>2, <2>1, <2>3, <2>4 DEF HdmaInv
  <2>8. HdmaDataOK'
    BY <1>1, <1>2, <1>3, <2>1, <2>2, <2>7 DEF HdmaDataOK, HdmaTypeOK, Byte
  <2>9. Pointer(entry.addr + 1)' = Pointer(entry.addr + 1) /\ indirect' = indirect
    BY <1>3, <2>1 DEF Pointer
  <2>10. IF indirect
           THEN /\ a2ax = (entry.addr + 3) % MEM
                /\ dasx = (Pointer(entry.addr + 1) + UNIT * units) % MEM
           ELSE /\ a2ax = (entry.addr + 1 + UNIT * units) % MEM
                /\ dasx = a2ax
    BY <2>3 DEF HdmaInv
  <2>11. ~(entry'.byte > REPEAT) /\ entry'.byte # 0
    BY <1>1, <1>2, <2>1, <2>3, <2>4
  <2> QED BY <2>1, <2>6, <2>7, <2>8, <2>9, <2>10, <2>11 DEF HdmaInv
<1>9. CASE UNCHANGED hdmaVars
  BY <1>9 DEF hdmaVars, HdmaInv, HdmaDataOK, HdmaTypeOK, Pointer
<1> QED BY <1>4, <1>5, <1>6, <1>7, <1>8, <1>9 DEF HdmaNext

\* Whatever is in the table, for every size of it, of the flag and of a
\* transfer: an entry is in force for its lines, makes its transfers, and the
\* next one is read behind it.
THEOREM HdmaFollowsTableHolds == HdmaSpec => []HdmaFollowsTable
<1>1. HdmaInit => HdmaInv
  BY SnesHDMAAssumption DEF HdmaInit, HdmaInv, HdmaDataOK, HdmaTypeOK, NoEntry, Byte
<1> QED BY <1>1, HdmaStep, InvFollows, PTL DEF HdmaSpec

-----------------------------------------------------------------------------
\* DMA.

AnyRegisters == [read : BOOLEAN, mode : 0 .. 7, fixed : 0 .. 3, a1tx : 0 .. BANK - 1,
                 dasx : 0 .. BANK - 1]

\* The i-th byte a channel transfers, counted from the registers r.
Item(c, r, i) == [chan |-> c, port |-> Ports(r.mode)[((i - 1) % 4) + 1],
                  addr |-> (r.a1tx + Inc(r.fixed) * (i - 1)) % BANK]

OnePort(r) == r.mode \in {0, 2, 6}

\* A channel that has transferred n bytes and has some left; its ports repeat
\* from here, or are all the same.
ChannelAt(c, n) ==
  /\ n \in 0 .. Bytes(started[c]) - 1
  /\ channel[c] \in AnyRegisters /\ started[c] \in AnyRegisters
  /\ channel[c].read = started[c].read /\ channel[c].mode = started[c].mode
  /\ channel[c].fixed = started[c].fixed
  /\ channel[c].a1tx = (started[c].a1tx + Inc(started[c].fixed) * n) % BANK
  /\ Bytes(channel[c]) = Bytes(started[c]) - n
  /\ n % 4 = 0 \/ OnePort(started[c])

LEMMA IncType == ASSUME NEW f \in 0 .. 3 PROVE Inc(f) \in {-1, 0, 1}
<1>1. f = 0 \/ f = 1 \/ f = 2 \/ f = 3
  OBVIOUS
<1>2. f = 0 => Inc(f) = 1
  BY DEF Inc
<1>3. f = 2 => Inc(f) = -1
  BY DEF Inc
<1>4. f = 1 \/ f = 3 => Inc(f) = 0
  BY DEF Inc
<1> QED BY <1>1, <1>2, <1>3, <1>4

LEMMA IncTimes ==
  ASSUME NEW f \in 0 .. 3, NEW n \in Int, NEW m \in Int
  PROVE  /\ Inc(f) * n \in Int
         /\ Inc(f) * n + Inc(f) * m = Inc(f) * (n + m)
         /\ Inc(f) = 1 => Inc(f) * n = n
<1>1. CASE Inc(f) = -1
  BY <1>1
<1>2. CASE Inc(f) = 0
  BY <1>2
<1>3. CASE Inc(f) = 1
  BY <1>3
<1> QED BY <1>1, <1>2, <1>3, IncType

LEMMA BytesType ==
  ASSUME NEW r \in AnyRegisters
  PROVE  Bytes(r) \in 1 .. BANK /\ BANK \in Nat \ {0}
BY SnesDMAAssumption DEF Bytes, AnyRegisters

\* What is transferred next is what is wanted next.
LEMMA ItemContinues ==
  ASSUME NEW c \in Chan, NEW n, ChannelAt(c, n), NEW i \in Nat \ {0}
  PROVE  Item(c, channel[c], i) = Item(c, started[c], n + i)
<1> DEFINE r == started[c]
           inc == Inc(r.fixed)
<1>1. /\ n \in Nat /\ n \in Int /\ r \in AnyRegisters /\ r.fixed \in 0 .. 3 /\ r.mode \in 0 .. 7
      /\ r.a1tx \in Int /\ BANK \in Nat \ {0}
  BY BytesType, SnesDMAAssumption DEF ChannelAt, AnyRegisters
<1>2. channel[c].mode = r.mode /\ channel[c].fixed = r.fixed
      /\ channel[c].a1tx = (r.a1tx + inc * n) % BANK
  BY DEF ChannelAt
<1>3. (channel[c].a1tx + Inc(channel[c].fixed) * (i - 1)) % BANK
        = (r.a1tx + inc * ((n + i) - 1)) % BANK
  <2>1. i - 1 \in Int /\ n + (i - 1) = (n + i) - 1
    BY <1>1
  <2>2. inc * n \in Int /\ inc * (i - 1) \in Int /\ inc * n + inc * (i - 1) = inc * ((n + i) - 1)
    <3>1. PICK j \in Int : j = i - 1
      BY <2>1
    <3>2. inc * n \in Int /\ inc * j \in Int /\ inc * n + inc * j = inc * (n + j)
      BY <1>1, IncTimes
    <3> QED BY <2>1, <3>1, <3>2
  <2> HIDE DEF inc
  <2>3. PICK x \in Int, y \in Int : x = inc * n /\ y = inc * (i - 1)
    BY <2>2
  <2>4. (((r.a1tx + x) % BANK) + y) % BANK = ((r.a1tx + x) + y) % BANK
    <3>1. r.a1tx + x \in Int
      BY <1>1
    <3> HIDE DEF r
    <3> QED BY <1>1, <3>1, ReduceFirst
  <2>5. (r.a1tx + x) + y = r.a1tx + (x + y)
    BY <1>1, <2>3
  <2> QED BY <1>2, <2>2, <2>3, <2>4, <2>5 DEF inc
<1>4. Ports(channel[c].mode)[((i - 1) % 4) + 1] = Ports(r.mode)[(((n + i) - 1) % 4) + 1]
  <2>1. CASE OnePort(r)
    <3>1. Ports(r.mode) = <<0, 0, 0, 0>>
      BY <2>1 DEF OnePort, Ports
    <3>2. ((i - 1) % 4) + 1 \in 1 .. 4 /\ (((n + i) - 1) % 4) + 1 \in 1 .. 4
      BY <1>1
    <3>3. \A k \in 1 .. 4 : <<0, 0, 0, 0>>[k] = 0
      OBVIOUS
    <3> QED BY <1>2, <3>1, <3>2, <3>3
  <2>2. CASE n % 4 = 0
    <3>1. i - 1 \in Int /\ 0 + (i - 1) = i - 1 /\ n + (i - 1) = (n + i) - 1 /\ 4 \in Nat \ {0}
      BY <1>1
    <3>2. ((n % 4) + (i - 1)) % 4 = (n + (i - 1)) % 4
      BY <1>1, <3>1, ReduceFirst
    <3> QED BY <1>2, <2>2, <3>1, <3>2
  <2> QED BY <2>1, <2>2 DEF ChannelAt
<1> HIDE DEF r, inc
<1> QED BY <1>3, <1>4 DEF Item, r, inc

-----------------------------------------------------------------------------
\* The bytes a channel may transfer at all.
ByteOfDma == { Item(c, r, i) : c \in Chan, r \in AnyRegisters, i \in Nat \ {0} }

\* Where the bytes of a channel begin.
Base(c) == IF c = 1 /\ order = <<0, 1>> THEN Bytes(started[0]) ELSE 0

SetUp ==
  /\ \A c \in Chan : started[c] \in AnyRegisters /\ Polite(started[c])
  /\ order \in {<< >>, <<0>>, <<1>>, <<0, 1>>}

\* The channels that wait or are at work: those of the order, the first with
\* nothing transferred of what comes after it.
AtWork ==
  /\ order = << >> => enable = {} /\ uChan = -1
  /\ order = <<0>> => enable \subseteq {0}
  /\ order = <<1>> => enable \subseteq {1}
  /\ order = <<0, 1>> => enable \in {{0, 1}, {1}, {}}
  /\ 0 \in enable => \E n \in Nat : ChannelAt(0, n) /\ Len(delivered) = n
  /\ 1 \in enable /\ 0 \notin enable =>
       \E n \in Nat : ChannelAt(1, n) /\ Len(delivered) = Base(1) + n
  /\ 1 \in enable /\ 0 \in enable => ChannelAt(1, 0)
  /\ uChan >= 1 => 0 \notin enable

Delivery ==
  /\ delivered \in Seq(ByteOfDma)
  /\ Len(delivered) <= Len(AllWanted)
  /\ \A i \in 1 .. Len(delivered) : delivered[i] = AllWanted[i]
  /\ enable = {} => Len(delivered) = Len(AllWanted)

\* The inductive invariant.
DmaInv ==
  /\ slice \in Nat /\ uChan \in Int /\ enable \subseteq Chan
  /\ channel \in [Chan -> AnyRegisters]
  /\ SetUp /\ AtWork /\ Delivery

LEMMA WantedType ==
  ASSUME NEW c \in Chan, started[c] \in AnyRegisters
  PROVE  /\ Wanted(c) \in Seq(ByteOfDma) /\ Len(Wanted(c)) = Bytes(started[c])
         /\ Bytes(started[c]) \in Nat \ {0}
         /\ \A i \in 1 .. Bytes(started[c]) : Wanted(c)[i] = Item(c, started[c], i)
<1> DEFINE r == started[c]
           w == [i \in 1 .. Bytes(r) |-> Item(c, r, i)]
<1>1. Bytes(r) \in Nat \ {0}
  BY BytesType
<1>2. Wanted(c) = w
  BY DEF Wanted, Item
<1>3. \A i \in 1 .. Bytes(r) : Item(c, r, i) \in ByteOfDma
  BY <1>1 DEF ByteOfDma
<1>4. w \in [1 .. Bytes(r) -> ByteOfDma]
  BY <1>3
<1>5. w \in Seq(ByteOfDma) /\ Len(w) = Bytes(r)
  BY <1>1, <1>4, SeqDef, LenProperties
<1> QED BY <1>1, <1>2, <1>5

\* What is wanted of a channel, within what is wanted in all.
LEMMA WantedOf ==
  ASSUME SetUp, NEW c \in Chan, order \in {<<c>>, <<0, 1>>}
  PROVE  /\ AllWanted \in Seq(ByteOfDma)
         /\ Base(c) \in Nat /\ Bytes(started[c]) \in Nat \ {0}
         /\ Base(c) + Bytes(started[c]) <= Len(AllWanted)
         /\ c = 1 \/ order = <<c>> => Len(AllWanted) = Base(c) + Bytes(started[c])
         /\ order = <<0, 1>> => Len(AllWanted) = Bytes(started[0]) + Bytes(started[1])
         /\ \A i \in 1 .. Bytes(started[c]) : AllWanted[Base(c) + i] = Item(c, started[c], i)
<1>1. 0 \in Chan /\ 1 \in Chan /\ (c = 0 \/ c = 1)
  BY DEF Chan
<1>2. CASE order = <<c>>
  <2>1. Len(order) = 1 /\ order[1] = c /\ order # <<0, 1>>
    BY <1>2
  <2>2. AllWanted = Wanted(c) /\ Base(c) = 0
    BY <2>1 DEF AllWanted, Base
  <2>3. PICK b \in Nat \ {0} :
          /\ b = Bytes(started[c]) /\ Wanted(c) \in Seq(ByteOfDma) /\ Len(Wanted(c)) = b
          /\ \A i \in 1 .. b : Wanted(c)[i] = Item(c, started[c], i)
    BY WantedType DEF SetUp
  <2>4. \A i \in 1 .. b : 0 + i = i
    OBVIOUS
  <2>5. \A i \in 1 .. b : AllWanted[0 + i] = Item(c, started[c], i)
    BY <2>2, <2>3, <2>4
  <2> QED BY <2>1, <2>2, <2>3, <2>5
<1>3. CASE order = <<0, 1>>
  <2>1. Len(order) = 2 /\ order # <<c>>
    BY <1>3
  <2>2. AllWanted = Wanted(0) \o Wanted(1)
    BY <2>1 DEF AllWanted
  <2>3. PICK a \in Nat \ {0}, b \in Nat \ {0} :
          /\ a = Bytes(started[0]) /\ b = Bytes(started[1])
          /\ Len(Wanted(0)) = a /\ Len(Wanted(1)) = b
    BY <1>1, WantedType DEF SetUp
  <2>4. /\ Wanted(0) \in Seq(ByteOfDma) /\ Wanted(1) \in Seq(ByteOfDma)
        /\ \A i \in 1 .. a : Wanted(0)[i] = Item(0, started[0], i)
        /\ \A i \in 1 .. b : Wanted(1)[i] = Item(1, started[1], i)
    BY <1>1, <2>3, WantedType DEF SetUp
  <2>5. /\ AllWanted \in Seq(ByteOfDma) /\ Len(AllWanted) = a + b
        /\ \A i \in 1 .. a + b :
             AllWanted[i] = IF i <= a THEN Wanted(0)[i] ELSE Wanted(1)[i - a]
    <3>1. PICK v \in Seq(ByteOfDma), w \in Seq(ByteOfDma) : v = Wanted(0) /\ w = Wanted(1)
      BY <2>4
    <3>2. v \o w \in Seq(ByteOfDma) /\ Len(v \o w) = Len(v) + Len(w)
          /\ \A i \in 1 .. Len(v) + Len(w) :
               (v \o w)[i] = IF i <= Len(v) THEN v[i] ELSE w[i - Len(v)]
      BY ConcatProperties
    <3> QED BY <2>2, <2>3, <3>1, <3>2
  <2>6. CASE c = 0
    <3>1. Base(c) = 0
      BY <2>6 DEF Base
    <3>2. \A i \in 1 .. a : 0 + i = i /\ i \in 1 .. a + b /\ i <= a
      BY <2>3
    <3>3. \A i \in 1 .. a : AllWanted[0 + i] = Item(0, started[0], i)
      BY <2>4, <2>5, <3>2
    <3>4. a + b >= a
      BY <2>3
    <3>5. order # <<c>>
      BY <2>1
    <3> QED BY <1>3, <2>3, <2>5, <2>6, <3>1, <3>3, <3>4, <3>5
  <2>7. CASE c = 1
    <3>1. Base(c) = a
      BY <1>3, <2>3, <2>7 DEF Base
    <3>2. \A i \in 1 .. b : a + i \in 1 .. a + b /\ ~(a + i <= a) /\ (a + i) - a = i
      BY <2>3
    <3>3. \A i \in 1 .. b : AllWanted[a + i] = Item(1, started[1], i)
      BY <2>4, <2>5, <3>2
    <3> QED BY <2>1, <2>3, <2>5, <2>7, <3>1, <3>3
  <2> QED BY <1>1, <2>6, <2>7
<1> QED BY <1>2, <1>3

\* What is left to transfer, in sixteen bits (0 stands for BANK).
LEMMA BytesLeft ==
  ASSUME NEW r \in AnyRegisters, NEW m \in 1 .. Bytes(r)
  PROVE  IF m = Bytes(r) THEN (r.dasx - m) % BANK = 0
         ELSE (r.dasx - m) % BANK = Bytes(r) - m
<1>1. PICK d \in 0 .. BANK - 1 : d = r.dasx
  BY DEF AnyRegisters
<1>2. BANK \in Nat \ {0} /\ m \in Int
  BY BytesType
<1>3. CASE d # 0
  <2>1. Bytes(r) = d
    BY <1>1, <1>3 DEF Bytes
  <2>2. d - m \in 0 .. BANK - 1 /\ d - m = BANK * 0 + (d - m)
    BY <1>2, <2>1
  <2>3. (d - m) % BANK = d - m
    BY <1>2, <2>2, DivUnique
  <2> QED BY <1>1, <2>1, <2>3
<1>4. CASE d = 0
  <2>1. Bytes(r) = BANK
    BY <1>1, <1>4 DEF Bytes
  <2>2. CASE m = BANK
    <3>1. d - m = BANK * (-1) + 0 /\ d - m \in Int /\ 0 \in 0 .. BANK - 1
      BY <1>2, <1>4, <2>2
    <3>2. (d - m) % BANK = 0
      BY <1>2, <3>1, DivUnique
    <3> QED BY <1>1, <2>1, <2>2, <3>2
  <2>3. CASE m # BANK
    <3>1. d - m = BANK * (-1) + (BANK - m) /\ d - m \in Int /\ BANK - m \in 0 .. BANK - 1
      BY <1>2, <1>4, <2>1, <2>3
    <3>2. (d - m) % BANK = BANK - m
      BY <1>2, <3>1, DivUnique
    <3> QED BY <1>1, <2>1, <2>3, <3>2
  <2> QED BY <2>2, <2>3
<1> QED BY <1>3, <1>4

\* A channel after m of its bytes, when it has some left.
LEMMA ChannelMoves ==
  ASSUME NEW c \in Chan, NEW n, ChannelAt(c, n), channel \in [Chan -> AnyRegisters],
         NEW m \in 1 .. Bytes(channel[c]), Transfer(c, m),
         m = Bytes(channel[c]) \/ m % 4 = 0 \/ OnePort(started[c])
  PROVE  /\ channel' \in [Chan -> AnyRegisters]
         /\ \A d \in Chan \ {c} : channel'[d] = channel[d]
         /\ started' = started
         /\ IF m = Bytes(channel[c])
            THEN n + m = Bytes(started[c]) /\ enable' = enable \ {c}
            ELSE ChannelAt(c, n + m)' /\ enable' = enable
<1> DEFINE q == channel[c]
           r == started[c]
           inc == Inc(r.fixed)
           a == (q.a1tx + Inc(q.fixed) * m) % BANK
           d == (q.dasx - m) % BANK
<1>1. /\ n \in 0 .. Bytes(r) - 1 /\ q \in AnyRegisters /\ r \in AnyRegisters
      /\ q.read = r.read /\ q.mode = r.mode /\ q.fixed = r.fixed
      /\ q.a1tx = (r.a1tx + inc * n) % BANK
      /\ Bytes(q) = Bytes(r) - n
      /\ n % 4 = 0 \/ OnePort(r)
  BY DEF ChannelAt
<1>2. /\ BANK \in Nat \ {0} /\ Bytes(r) \in Nat /\ Bytes(q) \in 1 .. BANK /\ m \in Int /\ n \in Int
      /\ r.fixed \in 0 .. 3 /\ r.a1tx \in Int /\ q.a1tx \in Int /\ q.dasx \in Int
  BY <1>1, BytesType DEF AnyRegisters
<1>3. inc * n \in Int /\ inc * m \in Int /\ inc * n + inc * m = inc * (n + m)
  BY <1>2, IncTimes
<1>4. a = (r.a1tx + inc * (n + m)) % BANK /\ a \in 0 .. BANK - 1
  <2> HIDE DEF inc
  <2>1. PICK x \in Int, y \in Int : x = inc * n /\ y = inc * m
    BY <1>3
  <2>2. a = (((r.a1tx + x) % BANK) + y) % BANK
    BY <1>1, <2>1 DEF inc
  <2> HIDE DEF a, r
  <2>3. r.a1tx + x \in Int /\ (r.a1tx + x) + y \in Int
    BY <1>2
  <2>4. a = ((r.a1tx + x) + y) % BANK
    BY <1>2, <2>2, <2>3, ReduceFirst
  <2>5. a \in 0 .. BANK - 1
    BY <1>2, <2>3, <2>4, DivMod
  <2>6. (r.a1tx + x) + y = r.a1tx + (x + y)
    BY <1>2
  <2> QED BY <1>3, <2>1, <2>4, <2>5, <2>6
<1>5. IF m = Bytes(q) THEN d = 0 ELSE d = Bytes(q) - m
  BY <1>1, BytesLeft
<1>6. d \in 0 .. BANK - 1
  BY <1>2, <1>5
<1>7. channel' = [channel EXCEPT ![c] = [q EXCEPT !.a1tx = a, !.dasx = d]]
  BY DEF Transfer
<1>8. PICK p : p = [q EXCEPT !.a1tx = a, !.dasx = d]
  OBVIOUS
<1> HIDE DEF a, d
<1>9. /\ p \in AnyRegisters /\ p.read = q.read /\ p.mode = q.mode /\ p.fixed = q.fixed
      /\ p.a1tx = a /\ p.dasx = d
  BY <1>1, <1>4, <1>6, <1>8 DEF AnyRegisters
<1>10. /\ channel' \in [Chan -> AnyRegisters] /\ channel'[c] = p
       /\ \A e \in Chan \ {c} : channel'[e] = channel[e]
  BY <1>7, <1>8, <1>9
<1>11. started' = started /\ enable' = IF p.dasx = 0 THEN enable \ {c} ELSE enable
  BY <1>10 DEF Transfer
<1>12. CASE m = Bytes(q)
  <2>1. n + m = Bytes(r)
    BY <1>1, <1>2, <1>12
  <2> QED BY <1>5, <1>9, <1>10, <1>11, <1>12, <2>1
<1>13. CASE m # Bytes(q)
  <2>1. Bytes(q) - m > 0 /\ d = Bytes(q) - m /\ d # 0
    BY <1>2, <1>5, <1>13
  <2>2. Bytes(p) = d
    BY <1>9, <2>1 DEF Bytes
  <2>3. Bytes(p) = Bytes(r) - (n + m) /\ n + m \in 0 .. Bytes(r) - 1
    BY <1>1, <1>2, <2>1, <2>2
  <2>4. (n + m) % 4 = 0 \/ OnePort(r)
    <3>1. CASE n % 4 = 0 /\ m % 4 = 0
      <4>1. (n + m) % 4 = 0
        BY <1>2, <3>1
      <4> QED BY <4>1
    <3> QED BY <1>1, <1>13, <3>1
  <2>5. ChannelAt(c, n + m)'
    <3>1. channel'[c] = p /\ started'[c] = r
      BY <1>10, <1>11
    <3> QED BY <1>1, <1>4, <1>9, <2>3, <2>4, <3>1 DEF ChannelAt
  <2> QED BY <1>9, <1>10, <1>11, <1>13, <2>1, <2>5
<1> QED BY <1>12, <1>13

LEMMA SameWanted ==
  ASSUME started' = started, order' = order
  PROVE  AllWanted' = AllWanted /\ \A c : Base(c)' = Base(c)
<1>1. \A c \in Chan : Wanted(c)' = Wanted(c)
  BY DEF Wanted
<1>2. Wanted(0)' = Wanted(0) /\ Wanted(1)' = Wanted(1) /\ Wanted(order[1])' = Wanted(order[1])
  BY DEF Wanted
<1>3. AllWanted' = AllWanted
  BY <1>2 DEF AllWanted
<1>4. \A c : Base(c)' = Base(c)
  BY DEF Base
<1> QED BY <1>3, <1>4

\* The next m bytes of a channel are the next m of what is wanted in all.
LEMMA DeliveryMoves ==
  ASSUME SetUp, Delivery, NEW c \in Chan, order \in {<<c>>, <<0, 1>>},
         NEW n, ChannelAt(c, n), Len(delivered) = Base(c) + n,
         NEW m \in 1 .. Bytes(channel[c]), Transfer(c, m)
  PROVE  /\ delivered' \in Seq(ByteOfDma)
         /\ Len(delivered') = Base(c) + (n + m)
         /\ Len(delivered') <= Len(AllWanted)
         /\ \A i \in 1 .. Len(delivered') : delivered'[i] = AllWanted[i]
<1> DEFINE q == channel[c]
           w == [i \in 1 .. m |-> Item(c, q, i)]
<1>1. /\ n \in Nat /\ q \in AnyRegisters /\ Bytes(q) = Bytes(started[c]) - n /\ m \in Nat
      /\ Bytes(started[c]) \in Nat /\ m <= Bytes(q)
  BY BytesType DEF ChannelAt
<1>2. PICK b \in Nat : b = Base(c)
  BY WantedOf
<1>3. /\ AllWanted \in Seq(ByteOfDma) /\ b + Bytes(started[c]) <= Len(AllWanted)
      /\ Len(AllWanted) \in Nat
      /\ \A i \in 1 .. Bytes(started[c]) : AllWanted[b + i] = Item(c, started[c], i)
  BY <1>2, WantedOf
<1>4. delivered' = delivered \o w
  BY DEF Transfer, Transferred, Item
<1>5. w \in Seq(ByteOfDma) /\ Len(w) = m /\ \A i \in 1 .. m : w[i] = Item(c, q, i)
  <2>1. \A i \in 1 .. m : Item(c, q, i) \in ByteOfDma
    BY <1>1 DEF ByteOfDma
  <2>2. w \in [1 .. m -> ByteOfDma]
    BY <2>1
  <2> QED BY <1>1, <2>2, SeqDef, LenProperties
<1>6. \A i \in 1 .. m : w[i] = AllWanted[(b + n) + i]
  <2> SUFFICES ASSUME NEW i \in 1 .. m PROVE w[i] = AllWanted[(b + n) + i]
    OBVIOUS
  <2>1. w[i] = Item(c, started[c], n + i)
    BY <1>5, ItemContinues
  <2>2. n + i \in 1 .. Bytes(started[c]) /\ b + (n + i) = (b + n) + i
    BY <1>1
  <2> QED BY <1>3, <2>1, <2>2
<1> HIDE DEF w
<1>7. PICK v \in Seq(ByteOfDma), u \in Seq(ByteOfDma) : v = delivered /\ u = w
  BY <1>5 DEF Delivery
<1>8. /\ v \o u \in Seq(ByteOfDma) /\ Len(v \o u) = Len(v) + Len(u)
      /\ \A i \in 1 .. Len(v) + Len(u) :
           (v \o u)[i] = IF i <= Len(v) THEN v[i] ELSE u[i - Len(v)]
  BY ConcatProperties
<1>9. Len(v) = b + n /\ Len(u) = m
  BY <1>2, <1>5, <1>7
<1>10. delivered' \in Seq(ByteOfDma) /\ Len(delivered') = (b + n) + m
  BY <1>4, <1>7, <1>8, <1>9
<1>11. ASSUME NEW i \in 1 .. (b + n) + m PROVE delivered'[i] = AllWanted[i]
  <2>1. delivered'[i] = IF i <= b + n THEN v[i] ELSE u[i - (b + n)]
    BY <1>4, <1>7, <1>8, <1>9
  <2>2. CASE i <= b + n
    <3>1. i \in 1 .. Len(delivered)
      BY <1>1, <1>7, <1>9, <2>2
    <3> QED BY <1>7, <2>1, <2>2, <3>1 DEF Delivery
  <2>3. CASE ~(i <= b + n)
    <3>1. i - (b + n) \in 1 .. m /\ (b + n) + (i - (b + n)) = i
      BY <1>1, <2>3
    <3> QED BY <1>6, <1>7, <2>1, <2>3, <3>1
  <2> QED BY <2>2, <2>3
<1>12. (b + n) + m <= Len(AllWanted) /\ (b + n) + m = b + (n + m)
  BY <1>1, <1>3
<1> QED BY <1>2, <1>10, <1>11, <1>12

\* The registers within the channel at work: the first that is enabled.
LEMMA WhoIsAtWork ==
  ASSUME DmaInv, NEW c \in Chan, c = uChan, c \in enable
  PROVE  /\ order \in {<<c>>, <<0, 1>>}
         /\ c = 1 => 0 \notin enable
         /\ \E n \in Nat : ChannelAt(c, n) /\ Len(delivered) = Base(c) + n
<1>1. c = 0 \/ c = 1
  BY DEF Chan
<1>2. order \in {<<c>>, <<0, 1>>}
  BY <1>1 DEF DmaInv, SetUp, AtWork
<1>3. c = 1 => 0 \notin enable
  BY DEF DmaInv, AtWork
<1>4. CASE c = 0
  <2>1. Base(c) = 0
    BY <1>4 DEF Base
  <2>2. PICK n \in Nat : ChannelAt(0, n) /\ Len(delivered) = n
    BY <1>4 DEF DmaInv, AtWork
  <2>3. Len(delivered) = 0 + n
    BY <2>2
  <2> QED BY <1>2, <1>3, <1>4, <2>1, <2>2, <2>3
<1>5. CASE c = 1
  BY <1>2, <1>3, <1>5 DEF DmaInv, AtWork
<1> QED BY <1>1, <1>4, <1>5

\* Whatever the size of a chunk, if it ends where the ports repeat.
LEMMA TransferDelivers ==
  ASSUME DmaInv, NEW c \in Chan, c = uChan, c \in enable,
         NEW m \in 1 .. Bytes(channel[c]), Transfer(c, m), slice' \in Nat,
         m = Bytes(channel[c]) \/ m % 4 = 0 \/ OnePort(started[c])
  PROVE  DmaInv'
<1>1. /\ order \in {<<c>>, <<0, 1>>} /\ (c = 0 \/ c = 1)
      /\ c = 1 => 0 \notin enable
  BY WhoIsAtWork DEF Chan
<1>2. PICK n \in Nat : ChannelAt(c, n) /\ Len(delivered) = Base(c) + n
  BY WhoIsAtWork
<1>3. uChan' = uChan /\ started' = started /\ order' = order
  BY DEF Transfer
<1>4. SetUp /\ Delivery /\ AtWork /\ channel \in [Chan -> AnyRegisters] /\ enable \subseteq Chan
      /\ uChan \in Int
  BY DEF DmaInv
<1>5. /\ AllWanted' = AllWanted /\ \A d : Base(d)' = Base(d)
  BY <1>3, SameWanted
<1>6. /\ channel' \in [Chan -> AnyRegisters]
      /\ \A d \in Chan \ {c} : channel'[d] = channel[d]
      /\ IF m = Bytes(channel[c])
         THEN n + m = Bytes(started[c]) /\ enable' = enable \ {c}
         ELSE ChannelAt(c, n + m)' /\ enable' = enable
  BY <1>1, <1>2, <1>4, ChannelMoves
<1>7. /\ delivered' \in Seq(ByteOfDma)
      /\ Len(delivered') = Base(c) + (n + m)
      /\ Len(delivered') <= Len(AllWanted)
      /\ \A i \in 1 .. Len(delivered') : delivered'[i] = AllWanted[i]
  BY <1>1, <1>2, <1>4, DeliveryMoves
<1>8. /\ Base(c) \in Nat /\ Bytes(started[c]) \in Nat \ {0}
      /\ c = 1 \/ order = <<c>> => Len(AllWanted) = Base(c) + Bytes(started[c])
  BY <1>1, <1>4, WantedOf
<1>9. enable' \subseteq enable /\ enable' \subseteq Chan
  BY <1>4, <1>6
<1>10. SetUp'
  BY <1>3, <1>4 DEF SetUp
<1>11. Delivery'
  <2>1. ASSUME enable' = {} PROVE Len(delivered') = Len(AllWanted)
    <3>1. m = Bytes(channel[c]) /\ enable' = enable \ {c}
      BY <1>6, <2>1
    <3>2. c = 1 \/ order = <<c>>
      <4>1. CASE c = 0 /\ order = <<0, 1>>
        <5>1. 1 \in enable /\ 1 \in enable'
          BY <1>4, <3>1, <4>1 DEF AtWork
        <5> QED BY <2>1, <5>1
      <4> QED BY <1>1, <4>1
    <3> QED BY <1>6, <1>7, <1>8, <3>1, <3>2
  <2> QED BY <1>5, <1>7, <2>1 DEF Delivery
<1>12. AtWork'
  <2>1. /\ order' = << >> => enable' = {} /\ uChan' = -1
        /\ order' = <<0>> => enable' \subseteq {0}
        /\ order' = <<1>> => enable' \subseteq {1}
    BY <1>1, <1>3, <1>4, <1>9 DEF AtWork
  <2>2. order' = <<0, 1>> => enable' \in {{0, 1}, {1}, {}}
    BY <1>1, <1>3, <1>4, <1>6 DEF AtWork
  <2>3. uChan' >= 1 => 0 \notin enable'
    BY <1>3, <1>4, <1>9 DEF AtWork
  <2>4. CASE m = Bytes(channel[c]) /\ c = 0
    <3>1. enable' = enable \ {0} /\ Base(0)' = 0
      BY <1>6, <2>4 DEF Base
    <3>2. ASSUME 1 \in enable' PROVE ChannelAt(1, 0)' /\ Len(delivered') = Base(1)' + 0
      <4>1. 1 \in enable /\ order = <<0, 1>> /\ ChannelAt(1, 0)
        BY <1>1, <1>4, <2>4, <3>1, <3>2 DEF AtWork
      <4>2. channel'[1] = channel[1]
        BY <1>6, <2>4 DEF Chan
      <4>3. ChannelAt(1, 0)'
        BY <1>3, <4>1, <4>2 DEF ChannelAt
      <4>4. Base(0) = 0 /\ Base(1)' = Bytes(started[0])
        BY <1>3, <4>1 DEF Base
      <4> QED BY <1>6, <1>7, <1>8, <2>4, <4>3, <4>4
    <3> QED BY <2>1, <2>2, <2>3, <3>1, <3>2 DEF AtWork
  <2>5. CASE m = Bytes(channel[c]) /\ c = 1
    <3>1. enable' = enable \ {1} /\ 0 \notin enable'
      BY <1>1, <1>6, <2>5
    <3> QED BY <2>1, <2>2, <2>3, <3>1 DEF AtWork
  <2>6. CASE m # Bytes(channel[c])
    <3>1. ChannelAt(c, n + m)' /\ enable' = enable /\ n + m \in Nat
      BY <1>2, <1>6, <2>6, BytesType DEF ChannelAt
    <3>2. Len(delivered') = Base(c)' + (n + m)
      BY <1>5, <1>7
    <3>3. CASE c = 0
      <4>1. Base(0)' = 0
        BY DEF Base
      <4>2. 1 \in enable => ChannelAt(1, 0) /\ channel'[1] = channel[1]
        BY <1>4, <1>6, <3>3 DEF AtWork, Chan
      <4>3. 1 \in enable => ChannelAt(1, 0)'
        BY <1>3, <4>2 DEF ChannelAt
      <4>4. 0 + (n + m) = n + m
        BY <3>1
      <4> QED BY <2>1, <2>2, <2>3, <3>1, <3>2, <3>3, <4>1, <4>3, <4>4 DEF AtWork
    <3>4. CASE c = 1
      BY <1>1, <2>1, <2>2, <2>3, <3>1, <3>2, <3>4 DEF AtWork
    <3> QED BY <1>1, <3>3, <3>4
  <2> QED BY <1>1, <2>4, <2>5, <2>6
<1> QED BY <1>3, <1>4, <1>6, <1>9, <1>10, <1>11, <1>12 DEF DmaInv

LEMMA ChunkFits ==
  ASSUME ~Crosses, DmaInv, NEW c \in Chan, c = uChan, c \in enable, slice > 0
  PROVE  /\ Chunk(channel[c]) \in 1 .. Bytes(channel[c])
         /\ Chunk(channel[c]) = Bytes(channel[c]) \/ Chunk(channel[c]) % 4 = 0
<1> DEFINE q == channel[c]
           r == started[c]
           four == ((slice + 3) \div 4) * 4
           n == MinOf(MinOf(Bytes(q), BUFFER), four)
<1>1. PICK k \in Nat : ChannelAt(c, k)
  BY WhoIsAtWork
<1>2. /\ q \in AnyRegisters /\ r \in AnyRegisters /\ q.fixed = r.fixed /\ Bytes(q) = Bytes(r) - k
      /\ q.a1tx = (r.a1tx + Inc(r.fixed) * k) % BANK /\ k < Bytes(r)
      /\ Bytes(q) \in Nat \ {0} /\ Bytes(r) \in Nat /\ BANK \in Nat \ {0} /\ r.fixed \in 0 .. 3
      /\ r.a1tx \in Nat
  BY <1>1, BytesType DEF ChannelAt, AnyRegisters
<1>3. four \in Nat \ {0} /\ four % 4 = 0
  <2>1. slice \in Nat /\ slice > 0
    BY DEF DmaInv
  <2> QED BY <2>1
<1>4. BUFFER \in Nat \ {0} /\ BUFFER % 4 = 0
  BY SnesDMAAssumption
<1>5. n \in 1 .. Bytes(q) /\ (n = Bytes(q) \/ n % 4 = 0)
  <2> HIDE DEF four
  <2> QED BY <1>2, <1>3, <1>4 DEF MinOf
<1>6. Inc(q.fixed) = 1 => BANK - q.a1tx >= Bytes(q) /\ q.a1tx \in Int
  <2> SUFFICES ASSUME Inc(r.fixed) = 1 PROVE BANK - q.a1tx >= Bytes(q) /\ q.a1tx \in Int
    BY <1>2
  <2>1. Inc(r.fixed) * k = k
    BY <1>2, IncTimes
  <2>2. r.a1tx + Bytes(r) <= BANK
    BY DEF DmaInv, SetUp, Polite
  <2>3. r.a1tx + k \in 0 .. BANK - 1
    BY <1>2, <2>2
  <2>4. r.a1tx + k = BANK * 0 + (r.a1tx + k) /\ r.a1tx + k \in Int
    BY <1>2
  <2> HIDE DEF r
  <2>5. q.a1tx = r.a1tx + k
    BY <1>2, <2>1, <2>3, <2>4, DivUnique, SMTT(30)
  <2> QED BY <1>2, <2>2, <2>5
<1>7. Chunk(q) = IF Inc(q.fixed) = 1 THEN MinOf(n, BANK - q.a1tx) ELSE n
  BY DEF Chunk
<1> HIDE DEF n, q
<1>8. Chunk(q) = n
  BY <1>2, <1>5, <1>6, <1>7 DEF MinOf
<1> QED BY <1>5, <1>8 DEF q

\* What the registers s want of a channel.
WantedBy(s, c) == [i \in 1 .. Bytes(s[c]) |-> Item(c, s[c], i)]

LEMMA WantedByType ==
  ASSUME NEW s, NEW c \in Chan, s[c] \in AnyRegisters
  PROVE  WantedBy(s, c) \in Seq(ByteOfDma)
<1>1. PICK b \in Nat \ {0} : b = Bytes(s[c])
  BY BytesType
<1>2. \A i \in 1 .. b : Item(c, s[c], i) \in ByteOfDma
  BY DEF ByteOfDma
<1>3. WantedBy(s, c) \in [1 .. b -> ByteOfDma]
  BY <1>1, <1>2 DEF WantedBy
<1> QED BY <1>1, <1>3, SeqDef

LEMMA DmaInvStart == DmaInit => DmaInv
<1> SUFFICES ASSUME DmaInit PROVE DmaInv
  OBVIOUS
<1> DEFINE zero == [read |-> FALSE, mode |-> 0, fixed |-> 0, a1tx |-> 0, dasx |-> 0]
<1>1. channel = [c \in Chan |-> zero] /\ started = [c \in Chan |-> zero]
      /\ enable = {} /\ slice = 0 /\ uChan = -1 /\ order = << >> /\ delivered = << >>
  BY DEF DmaInit
<1>2. zero \in AnyRegisters
  BY SnesDMAAssumption DEF AnyRegisters
<1>3. Polite(zero)
  BY SnesDMAAssumption DEF Polite, Bytes
<1> HIDE DEF zero
<1>4. SetUp
  BY <1>1, <1>2, <1>3 DEF SetUp
<1>5. AtWork
  BY <1>1 DEF AtWork
<1>6. AllWanted = << >> /\ << >> \in Seq(ByteOfDma) /\ Len(<< >>) = 0
  BY <1>1 DEF AllWanted
<1>7. Delivery
  BY <1>1, <1>6 DEF Delivery
<1> QED BY <1>1, <1>2, <1>4, <1>5, <1>7 DEF DmaInv

\* Nothing is left over when another DMA is set up.
LEMMA EnableDmaStep ==
  ASSUME DmaInv, enable = {}, delivered = << >>,
         NEW on \in (SUBSET Chan) \ {{}}, NEW p \in DmaSettings, NEW q \in DmaSettings,
         EnableDma(on, [c \in Chan |-> IF c = 0 THEN p ELSE q])
  PROVE  DmaInv'
<1> DEFINE regs == [c \in Chan |-> IF c = 0 THEN p ELSE q]
<1>1. /\ enable' = on /\ channel' = regs /\ started' = regs
      /\ order' = IF on = Chan THEN <<0, 1>> ELSE <<CHOOSE c \in Chan : on = {c}>>
      /\ slice' = slice /\ uChan' = uChan /\ delivered' = delivered
  BY DEF EnableDma
<1>2. \A c \in Chan : regs[c] \in AnyRegisters /\ Polite(regs[c])
  <2>1. p \in AnyRegisters /\ q \in AnyRegisters
    BY SnesDMAAssumption DEF DmaSettings, AnyRegisters
  <2>2. Polite(p) /\ Polite(q)
    BY DEF DmaSettings
  <2> QED BY <2>1, <2>2
<1>3. regs \in [Chan -> AnyRegisters]
  BY <1>2
<1> HIDE DEF regs
<1>4. order = << >> /\ uChan = -1
  <2>1. SetUp /\ Delivery /\ AtWork /\ Len(delivered) = 0
    BY DEF DmaInv
  <2>2. Len(AllWanted) = 0
    BY <2>1 DEF Delivery
  <2>3. ASSUME NEW c \in Chan, order \in {<<c>>, <<0, 1>>} PROVE FALSE
    <3>1. Base(c) \in Nat /\ Bytes(started[c]) \in Nat \ {0}
          /\ Base(c) + Bytes(started[c]) <= Len(AllWanted)
      BY <2>1, <2>3, WantedOf
    <3> QED BY <2>2, <3>1
  <2>4. order = << >>
    BY <2>1, <2>3 DEF SetUp, Chan
  <2> QED BY <2>1, <2>4 DEF AtWork
<1>5. \/ on = {0, 1} /\ order' = <<0, 1>>
      \/ on = {0} /\ order' = <<0>>
      \/ on = {1} /\ order' = <<1>>
  <2>1. on = {0, 1} \/ on = {0} \/ on = {1}
    BY DEF Chan
  <2>2. CASE on = {0, 1}
    BY <1>1, <2>2 DEF Chan
  <2>3. CASE on = {0}
    <3>1. on # Chan /\ (CHOOSE c \in Chan : on = {c}) = 0
      BY <2>3 DEF Chan
    <3> QED BY <1>1, <2>3, <3>1
  <2>4. CASE on = {1}
    <3>1. on # Chan /\ (CHOOSE c \in Chan : on = {c}) = 1
      BY <2>4 DEF Chan
    <3> QED BY <1>1, <2>4, <3>1
  <2> QED BY <2>1, <2>2, <2>3, <2>4
<1>6. SetUp'
  BY <1>1, <1>2, <1>5 DEF SetUp
<1>7. \A c \in Chan : ChannelAt(c, 0)'
  <2> SUFFICES ASSUME NEW c \in Chan PROVE ChannelAt(c, 0)'
    OBVIOUS
  <2>1. PICK r : r = regs[c]
    OBVIOUS
  <2>2. r \in AnyRegisters /\ channel'[c] = r /\ started'[c] = r
    BY <1>1, <1>2, <2>1
  <2>3. /\ Bytes(r) \in Nat \ {0} /\ r.fixed \in 0 .. 3 /\ r.a1tx \in 0 .. BANK - 1
        /\ BANK \in Nat \ {0}
    BY <2>2, BytesType DEF AnyRegisters
  <2>4. (r.a1tx + Inc(r.fixed) * 0) % BANK = r.a1tx
    <3>1. PICK i \in Int, a \in 0 .. BANK - 1 : i = Inc(r.fixed) /\ a = r.a1tx
      BY <2>3, IncType
    <3>2. a \in Int /\ i * 0 = 0 /\ BANK * 0 = 0 /\ a = BANK * 0 + a
      BY <2>3
    <3>3. a % BANK = a
      BY <2>3
    <3>4. a + i * 0 = a
      BY <3>2
    <3> QED BY <3>1, <3>3, <3>4
  <2>5. 0 \in 0 .. Bytes(r) - 1 /\ Bytes(r) = Bytes(r) - 0 /\ 0 % 4 = 0
    BY <2>3
  <2> QED BY <2>2, <2>4, <2>5 DEF ChannelAt
<1>8. Len(delivered') = 0 /\ delivered' = << >>
  BY <1>1
<1>9. AtWork'
  <2>1. Base(0)' = 0 /\ (order' # <<0, 1>> => Base(1)' = 0)
    BY DEF Base
  <2>2. <<0>> # <<0, 1>> /\ <<1>> # <<0, 1>> /\ <<0>> # <<1>> /\ <<0>> # << >> /\ <<1>> # << >>
        /\ <<0, 1>> # << >>
    OBVIOUS
  <2>3. /\ order' # << >> /\ uChan' = -1
        /\ order' = <<0>> => enable' \subseteq {0}
        /\ order' = <<1>> => enable' \subseteq {1}
        /\ order' = <<0, 1>> => enable' \in {{0, 1}, {1}, {}}
    BY <1>1, <1>4, <1>5, <2>2
  <2>4. ChannelAt(0, 0)' /\ ChannelAt(1, 0)'
    BY <1>7 DEF Chan
  <2>5. 1 \in enable' /\ 0 \notin enable' => Base(1)' = 0
    BY <1>1, <1>5, <2>1, <2>2
  <2> QED BY <1>8, <2>3, <2>4, <2>5 DEF AtWork
<1>10. Delivery'
  <2>1. PICK s, o : s = regs /\ o = order'
    OBVIOUS
  <2>2. PICK v, w : v = WantedBy(s, 0) /\ w = WantedBy(s, 1)
    OBVIOUS
  <2>3. v \in Seq(ByteOfDma) /\ w \in Seq(ByteOfDma) /\ v \o w \in Seq(ByteOfDma)
    <3>1. s[0] \in AnyRegisters /\ s[1] \in AnyRegisters /\ 0 \in Chan /\ 1 \in Chan
      BY <1>2, <2>1 DEF Chan
    <3>2. v \in Seq(ByteOfDma) /\ w \in Seq(ByteOfDma)
      BY <2>2, <3>1, WantedByType
    <3> QED BY <3>2, ConcatProperties
  <2>4. AllWanted' \in {v \o w, v, w}
    <3>1. CASE o = <<0, 1>>
      <4>1. Len(order') = 2 /\ started' = s
        BY <1>1, <2>1, <3>1
      <4>2. v = Wanted(0)' /\ w = Wanted(1)'
        BY <2>2, <4>1 DEF Wanted, WantedBy, Item
      <4> QED BY <4>1, <4>2 DEF AllWanted
    <3>2. CASE o = <<0>>
      <4>1. order'[1] = 0 /\ Len(order') = 1 /\ started' = s
        BY <1>1, <2>1, <3>2
      <4>2. v = Wanted(order[1])'
        BY <2>2, <4>1 DEF Wanted, WantedBy, Item
      <4> QED BY <4>1, <4>2 DEF AllWanted
    <3>3. CASE o = <<1>>
      <4>1. order'[1] = 1 /\ Len(order') = 1 /\ started' = s
        BY <1>1, <2>1, <3>3
      <4>2. w = Wanted(order[1])'
        BY <2>2, <4>1 DEF Wanted, WantedBy, Item
      <4> QED BY <4>1, <4>2 DEF AllWanted
    <3> QED BY <1>5, <2>1, <3>1, <3>2, <3>3
  <2>5. Len(AllWanted') \in Nat
    <3>1. AllWanted' \in Seq(ByteOfDma)
      BY <2>3, <2>4
    <3> QED BY <3>1
  <2>6. << >> \in Seq(ByteOfDma) /\ enable' # {}
    BY <1>1
  <2> QED BY <1>8, <2>5, <2>6 DEF Delivery
<1> QED BY <1>1, <1>3, <1>6, <1>9, <1>10 DEF DmaInv, Chan

LEMMA DmaInvStep == ASSUME ~Crosses, ~ReadsAlternate PROVE DmaInv /\ [DmaNext]_dmaVars => DmaInv'
<1> SUFFICES ASSUME ~Crosses, ~ReadsAlternate, DmaInv, [DmaNext]_dmaVars PROVE DmaInv'
  OBVIOUS
<1>1. ASSUME NEW on \in (SUBSET Chan) \ {{}}, NEW p \in DmaSettings, NEW q \in DmaSettings,
             enable = {}, delivered = << >>, EnableDma(on, [c \in Chan |-> IF c = 0 THEN p ELSE q])
      PROVE  DmaInv'
  BY <1>1, EnableDmaStep
\* What leaves the channels and what is transferred as they were.
<1>2. ASSUME started' = started, order' = order, channel' = channel, enable' = enable,
             delivered' = delivered, slice' \in Nat, uChan' \in Int,
             uChan' >= 1 => 0 \notin enable, order = << >> => uChan' = -1
      PROVE  DmaInv'
  <2>1. AllWanted' = AllWanted /\ Base(1)' = Base(1)
    BY <1>2, SameWanted
  <2>2. SetUp' /\ Delivery'
    BY <1>2, <2>1 DEF DmaInv, SetUp, Delivery
  <2>3. ASSUME NEW c \in Chan, NEW n \in Nat, ChannelAt(c, n) PROVE ChannelAt(c, n)'
    BY <1>2, <2>3 DEF ChannelAt
  <2>4. AtWork'
    <3>1. 0 \in Chan /\ 1 \in Chan /\ 0 \in Nat
      BY DEF Chan
    <3>2. 0 \in enable' => \E n \in Nat : ChannelAt(0, n)' /\ Len(delivered') = n
      BY <1>2, <2>3, <3>1 DEF DmaInv, AtWork
    <3>3. 1 \in enable' /\ 0 \notin enable' =>
            \E n \in Nat : ChannelAt(1, n)' /\ Len(delivered') = Base(1)' + n
      BY <1>2, <2>1, <2>3, <3>1 DEF DmaInv, AtWork
    <3>4. 1 \in enable' /\ 0 \in enable' => ChannelAt(1, 0)'
      BY <1>2, <2>3, <3>1 DEF DmaInv, AtWork
    <3>5. /\ order' = << >> => enable' = {} /\ uChan' = -1
          /\ order' = <<0>> => enable' \subseteq {0}
          /\ order' = <<1>> => enable' \subseteq {1}
          /\ order' = <<0, 1>> => enable' \in {{0, 1}, {1}, {}}
          /\ uChan' >= 1 => 0 \notin enable'
      BY <1>2 DEF DmaInv, AtWork
    <3> QED BY <3>2, <3>3, <3>4, <3>5 DEF AtWork
  <2> QED BY <1>2, <2>2, <2>4 DEF DmaInv
<1>3. ASSUME NEW n \in SLICES, BeginProcess(n) PROVE DmaInv'
  <2>1. n \in Nat /\ order # << >>
    BY <1>3, SnesDMAAssumption DEF BeginProcess, DmaInv, AtWork
  <2> QED BY <1>2, <1>3, <2>1 DEF BeginProcess
<1>4. CASE NextChannel
  <2>1. uChan \in Int /\ uChan >= 0 /\ enable # {} /\ uChan \notin enable /\ uChan' = uChan + 1
        /\ slice \in Nat
    BY <1>4 DEF NextChannel, DmaInv
  <2>2. order # << >> /\ 0 \notin enable
    BY <2>1 DEF DmaInv, AtWork
  <2> QED BY <1>2, <1>4, <2>1, <2>2 DEF NextChannel
<1>5. CASE EndProcess
  BY <1>2, <1>5 DEF EndProcess, DmaInv
<1>6. CASE TransferChunk
  <2>1. PICK c \in Chan : c = uChan
    BY <1>6 DEF TransferChunk, DmaInv
  <2>2. PICK m : m = Chunk(channel[c])
    OBVIOUS
  <2>3. c \in enable /\ slice > 0 /\ slice \in Nat /\ Transfer(c, m)
    BY <1>6, <2>1, <2>2 DEF TransferChunk, DmaInv
  <2>4. m \in 1 .. Bytes(channel[c]) /\ (m = Bytes(channel[c]) \/ m % 4 = 0)
    BY <2>1, <2>2, <2>3, ChunkFits
  <2>5. slice' \in Nat
    <3>1. m \in Nat
      BY <2>4
    <3> QED BY <2>3, <3>1 DEF Transfer
  <2> QED BY <2>1, <2>3, <2>4, <2>5, TransferDelivers
<1>7. CASE TransferRead
  <2>1. PICK c \in Chan : c = uChan
    BY <1>7 DEF TransferRead, DmaInv
  <2>2. PICK m : m = MinOf(Bytes(channel[c]), slice)
    OBVIOUS
  <2>3. c \in enable /\ slice > 0 /\ slice \in Nat /\ Transfer(c, m) /\ channel[c].read
    BY <1>7, <2>1, <2>2 DEF TransferRead, DmaInv
  <2>4. PICK n \in Nat : ChannelAt(c, n)
    BY <2>1, <2>3, WhoIsAtWork
  <2>5. OnePort(started[c])
    BY <2>3, <2>4 DEF ChannelAt, DmaInv, SetUp, Polite, OnePort
  <2>6. Bytes(channel[c]) \in Nat \ {0}
    BY <2>4, BytesType DEF ChannelAt
  <2>7. m \in 1 .. Bytes(channel[c])
    BY <2>2, <2>3, <2>6 DEF MinOf
  <2>8. slice' \in Nat
    <3>1. m \in Nat
      BY <2>7
    <3> QED BY <2>3, <3>1 DEF Transfer
  <2> QED BY <2>1, <2>3, <2>5, <2>7, <2>8, TransferDelivers
<1>8. CASE AnotherDma
  <2> DEFINE zero == [read |-> FALSE, mode |-> 0, fixed |-> 0, a1tx |-> 0, dasx |-> 0]
  <2>1. channel' = [c \in Chan |-> zero] /\ started' = [c \in Chan |-> zero]
        /\ enable' = {} /\ slice' \in Nat /\ uChan' = -1 /\ order' = << >> /\ delivered' = << >>
    BY <1>8 DEF AnotherDma, DmaInv
  <2>2. zero \in AnyRegisters
    BY SnesDMAAssumption DEF AnyRegisters
  <2>3. Polite(zero)
    BY SnesDMAAssumption DEF Polite, Bytes
  <2> HIDE DEF zero
  <2>4. SetUp' /\ AtWork'
    BY <2>1, <2>2, <2>3 DEF SetUp, AtWork
  <2>5. AllWanted' = << >> /\ << >> \in Seq(ByteOfDma) /\ Len(<< >>) = 0
    BY <2>1 DEF AllWanted
  <2>6. Delivery'
    BY <2>1, <2>5 DEF Delivery
  <2> QED BY <2>1, <2>2, <2>4, <2>6 DEF DmaInv
<1>9. CASE UNCHANGED dmaVars
  <2>1. order = << >> => uChan = -1
    BY DEF DmaInv, AtWork
  <2>2. uChan >= 1 => 0 \notin enable
    BY DEF DmaInv, AtWork
  <2> QED BY <1>2, <1>9, <2>1, <2>2 DEF dmaVars, DmaInv
<1> QED BY <1>1, <1>3, <1>4, <1>5, <1>6, <1>7, <1>8, <1>9 DEF DmaNext

LEMMA DmaInvDelivers == DmaInv => DmaDelivers
<1> SUFFICES ASSUME DmaInv PROVE DmaDelivers
  OBVIOUS
<1>1. /\ SetUp /\ AtWork /\ enable \subseteq Chan
      /\ delivered \in Seq(ByteOfDma) /\ Len(delivered) <= Len(AllWanted)
      /\ \A i \in 1 .. Len(delivered) : delivered[i] = AllWanted[i]
      /\ enable = {} => Len(delivered) = Len(AllWanted)
  BY DEF DmaInv, Delivery
<1>2. AllWanted \in Seq(ByteOfDma)
  <2>1. CASE order = << >>
    BY <2>1 DEF AllWanted
  <2>2. CASE order # << >>
    <3>1. \E c \in Chan : order \in {<<c>>, <<0, 1>>}
      BY <1>1, <2>2 DEF SetUp, Chan
    <3> QED BY <1>1, <3>1, WantedOf
  <2> QED BY <2>1, <2>2
<1>3. delivered = SubSeq(AllWanted, 1, Len(delivered))
  <2>1. PICK n \in Nat : n = Len(delivered)
    BY <1>1
  <2>2. /\ SubSeq(AllWanted, 1, n) \in Seq(ByteOfDma) /\ Len(SubSeq(AllWanted, 1, n)) = n
        /\ \A i \in 1 .. n : SubSeq(AllWanted, 1, n)[i] = AllWanted[i]
    BY <1>1, <1>2, <2>1, SubSeqProperties
  <2> QED BY <1>1, <2>1, <2>2, SeqEqual
<1>4. enable # {} => Len(delivered) < Len(AllWanted)
  <2>1. ASSUME NEW c \in Chan, NEW n \in Nat, ChannelAt(c, n), order \in {<<c>>, <<0, 1>>},
               Len(delivered) = Base(c) + n
        PROVE  Len(delivered) < Len(AllWanted)
    <3>1. /\ Base(c) \in Nat /\ Bytes(started[c]) \in Nat
          /\ Base(c) + Bytes(started[c]) <= Len(AllWanted) /\ Len(AllWanted) \in Nat
      BY <1>1, <1>2, <2>1, WantedOf
    <3>2. n < Bytes(started[c])
      BY <2>1, <3>1 DEF ChannelAt
    <3> QED BY <2>1, <3>1, <3>2
  <2>2. CASE 0 \in enable
    <3>1. PICK n \in Nat : ChannelAt(0, n) /\ Len(delivered) = n
      BY <1>1, <2>2 DEF AtWork
    <3>2. Base(0) = 0 /\ 0 + n = n /\ 0 \in Chan
      BY <3>1 DEF Base, Chan
    <3>3. order \in {<<0>>, <<0, 1>>}
      BY <1>1, <2>2 DEF SetUp, AtWork
    <3> QED BY <2>1, <3>1, <3>2, <3>3
  <2>3. CASE 1 \in enable /\ 0 \notin enable
    <3>1. PICK n \in Nat : ChannelAt(1, n) /\ Len(delivered) = Base(1) + n
      BY <1>1, <2>3 DEF AtWork
    <3>2. order \in {<<1>>, <<0, 1>>} /\ 1 \in Chan
      BY <1>1, <2>3 DEF SetUp, AtWork, Chan
    <3> QED BY <2>1, <3>1, <3>2
  <2> QED BY <1>1, <2>2, <2>3 DEF Chan
<1>5. (enable = {}) = (Len(delivered) = Len(AllWanted))
  BY <1>1, <1>2, <1>4
<1> QED BY <1>1, <1>3, <1>5 DEF DmaDelivers

\* However a DMA is cut into chunks and lines, every byte goes from its address
\* to its port, in order, none twice and none left out; for transfers that stay
\* in their bank and reads of one port, the others being where the code is known
\* to lose its place.
THEOREM DmaDeliversHolds ==
  ASSUME ~Crosses, ~ReadsAlternate
  PROVE  DmaSpec => []DmaDelivers
<1>1. DmaInit => DmaInv
  BY DmaInvStart
<1>2. DmaInv /\ [DmaNext]_dmaVars => DmaInv'
  BY DmaInvStep
<1>3. DmaInv => DmaDelivers
  BY DmaInvDelivers
<1> QED BY <1>1, <1>2, <1>3, PTL DEF DmaSpec

-----------------------------------------------------------------------------
\* Battery-backed RAM and its files.

\* A save that waits for the card has opened the file of the game whose RAM it
\* will read, or has been overtaken; the name the path is made of and the RAM are
\* those of the game that is played, as long as one is.
SaveFor == {"none", "frame", "menu"}
Saves == [file : SramGame \cup {"none"}, for : SaveFor, overtaken : BOOLEAN]
SramInv ==
  /\ card \in [SramGame -> SramValue \cup {NoFile, Cut}] /\ sram \in SramValue
  /\ saving \in Saves
  /\ sramSystem # "none" =>
       sramSystem \in SramGame /\ romName = sramSystem /\ ramOf = sramSystem
  /\ Waiting => saving.overtaken \/ saving.file = SaveName(ramOf)

LEMMA SaveNames == ASSUME NEW game \in SramGame PROVE SaveName(game) \in SramGame
<1>1. CASE game \in SameName
  <2>1. (CHOOSE g \in SameName : TRUE) \in SameName
    BY <1>1
  <2> QED BY <1>1, <2>1, SramAssumption DEF SaveName
<1> QED BY <1>1 DEF SaveName

LEMMA SaveOpensOwnFile ==
  ASSUME SramInv, sramSystem # "none", ramOf' = ramOf, NEW for \in {"frame", "menu"},
         _MainLoopSaveSRAM(for)
  PROVE  saving' \in Saves /\ saving'.file = SaveName(ramOf')
<1>1. sramSystem \in SramGame /\ romName = sramSystem /\ ramOf = sramSystem
  BY DEF SramInv
<1>2. SaveName(romName) \in SramGame
  BY <1>1, SaveNames
<1> QED BY <1>1, <1>2 DEF _MainLoopSaveSRAM, Saves, SaveFor

LEMMA CardStep ==
  ASSUME SramInv, Waiting, SaveDone,
         NEW content \in SramValue \cup {Cut}, card' = [card EXCEPT ![saving.file] = content]
  PROVE  /\ card' \in [SramGame -> SramValue \cup {NoFile, Cut}]
         /\ \A file \in SramGame : card'[file] # card[file] =>
              SaveName(ramOf) = file \/ (saving.overtaken /\ saving.file = file)
<1>1. card \in [SramGame -> SramValue \cup {NoFile, Cut}]
      /\ (saving.overtaken \/ saving.file = SaveName(ramOf))
  BY DEF SramInv
<1>2. card' \in [SramGame -> SramValue \cup {NoFile, Cut}]
  BY <1>1
<1>3. ASSUME NEW file \in SramGame, card'[file] # card[file]
      PROVE  saving.file = file
  BY <1>1, <1>3
<1> QED BY <1>1, <1>2, <1>3

LEMMA DoneKeeps ==
  ASSUME SramInv, SaveDone, card' \in [SramGame -> SramValue \cup {NoFile, Cut}]
  PROVE  SramInv'
<1>1. saving' = NoSave /\ NoSave \in Saves
  BY DEF SaveDone, NoSave, Saves, SaveFor
<1> QED BY <1>1 DEF SaveDone, SramInv, Waiting

LEMMA SramStep ==
  ASSUME SramInv, [SramNext]_sramVars
  PROVE  /\ SramInv'
         /\ \A file \in SramGame : card'[file] # card[file] =>
              SaveName(ramOf) = file \/ (saving.overtaken /\ saving.file = file)
<1> DEFINE Apart == \A file \in SramGame : card'[file] # card[file] =>
                      SaveName(ramOf) = file \/ (saving.overtaken /\ saving.file = file)
<1>1. 0 \in SramValue
  BY SramAssumption
<1>2. card' = card => Apart
  OBVIOUS
<1>3. ASSUME NEW ram \in SramValue, RunSramFrame(ram)
      PROVE  SramInv' /\ card' = card
  <2>1. ~Waiting /\ sram' = ram /\ card' = card /\ romName' = romName /\ ramOf' = ramOf
        /\ sramSystem' = sramSystem
    BY <1>3 DEF RunSramFrame
  <2>2. CASE saving' = saving
    BY <2>1, <2>2 DEF SramInv, Waiting
  <2>3. CASE saving' # saving
    <3>1. sramSystem # "none" /\ _MainLoopSaveSRAM("frame")
      BY <1>3, <2>3 DEF RunSramFrame, _MainLoopCheckSRAM, _MainLoopHasSRAM
    <3>2. saving' \in Saves /\ saving'.file = SaveName(ramOf')
      BY <2>1, <3>1, SaveOpensOwnFile
    <3> QED BY <2>1, <3>2 DEF SramInv
  <2> QED BY <2>1, <2>2, <2>3
<1>4. ASSUME SaveEnds
      PROVE  SramInv' /\ Apart
  <2>1. Waiting /\ SaveDone /\ sram \in SramValue /\ card' = [card EXCEPT ![saving.file] = sram]
    BY <1>4 DEF SaveEnds, SramInv
  <2>2. card' \in [SramGame -> SramValue \cup {NoFile, Cut}] /\ Apart
    BY <2>1, CardStep
  <2> QED BY <2>1, <2>2, DoneKeeps
<1>5. ASSUME SaveFails
      PROVE  SramInv' /\ Apart
  <2>1. Waiting /\ SaveDone
    BY <1>5 DEF SaveFails
  <2>2. CASE card' = card
    BY <1>2, <2>1, <2>2, DoneKeeps DEF SramInv
  <2>3. CASE card' = [card EXCEPT ![saving.file] = Cut]
    <3>1. card' \in [SramGame -> SramValue \cup {NoFile, Cut}] /\ Apart
      BY <2>1, <2>3, CardStep
    <3> QED BY <2>1, <3>1, DoneKeeps
  <2> QED BY <1>5, <2>2, <2>3 DEF SaveFails
<1>6. ASSUME OpenMenu
      PROVE  SramInv' /\ card' = card
  <2>1. UNCHANGED <<sramSystem, romName, sram, card, ramOf>> /\ ~Waiting
    BY <1>6 DEF OpenMenu
  <2>2. CASE saving' = saving
    BY <2>1, <2>2 DEF SramInv, Waiting
  <2>3. CASE saving' # saving
    <3>1. sramSystem # "none" /\ _MainLoopSaveSRAM("menu")
      BY <1>6, <2>3 DEF OpenMenu, _MainLoopHasSRAM
    <3>2. saving' \in Saves /\ saving'.file = SaveName(ramOf')
      BY <2>1, <3>1, SaveOpensOwnFile
    <3> QED BY <2>1, <3>2 DEF SramInv
  <2> QED BY <2>1, <2>2, <2>3
<1>7. CloseMenu => SramInv' /\ card' = card
  BY DEF CloseMenu, SramInv, Waiting
<1>8. ASSUME NEW game \in SramGame, LoadGame(game)
      PROVE  SramInv' /\ card' = card
  <2>1. sram' \in SramValue
    BY <1>1, <1>8 DEF LoadGame, _MainLoopLoadSRAM
  <2> QED BY <1>8, <2>1 DEF LoadGame, Starts, SramInv, Waiting
\* A net game's load that comes while a save waits overtakes it.
<1>9. ASSUME NEW game \in SramGame, NetLoadGame(game)
      PROVE  SramInv' /\ card' = card
  <2>1. /\ card' = card /\ sram' = 0 /\ sramSystem' = game /\ romName' = game /\ ramOf' = game
        /\ saving' = IF Waiting THEN [saving EXCEPT !.overtaken = TRUE] ELSE saving
    BY <1>9 DEF NetLoadGame, Starts
  <2>2. saving' \in Saves /\ (Waiting' => saving'.overtaken)
    <3>1. CASE Waiting
      BY <2>1, <3>1 DEF SramInv, Saves
    <3>2. CASE ~Waiting
      BY <2>1, <3>2 DEF SramInv, Waiting
    <3> QED BY <3>1, <3>2
  <2> QED BY <1>1, <2>1, <2>2 DEF SramInv
<1>10. ASSUME NEW game \in SramGame, LoadGameFails(game) \/ NetLoadFails(game)
       PROVE  SramInv' /\ card' = card
  BY <1>10 DEF LoadGameFails, NetLoadFails, LoadFails, _MainLoopUnloadRom, SramInv, Waiting
<1>11. NetUnloadGame => SramInv' /\ card' = card
  BY DEF NetUnloadGame, _MainLoopUnloadRom, SramInv, Waiting
<1>12. UNCHANGED sramVars => SramInv' /\ card' = card
  BY DEF sramVars, SramInv, Waiting
<1> QED BY <1>2, <1>3, <1>4, <1>5, <1>6, <1>7, <1>8, <1>9, <1>10, <1>11, <1>12 DEF SramNext

\* A file is only overwritten, or half written, by a game whose name is the file's,
\* whenever games are loaded and unloaded, saves fail and callbacks come in; but for
\* the file of a save that waits for the card while a net game is loaded.
THEOREM FilesStayApartHolds == SramSpec => FilesStayApart
<1>1. SramInit => SramInv
  BY SramAssumption DEF SramInit, SramInv, NoFile, NoSave, Waiting, Saves, SaveFor
<1>2. SramInv /\ [SramNext]_sramVars => SramInv'
  BY SramStep
<1>3. SramInv /\ [SramNext]_sramVars
        => [\A file \in SramGame : card'[file] # card[file] =>
              SaveName(ramOf) = file \/ (saving.overtaken /\ saving.file = file)]_sramVars
  BY SramStep
<1> QED BY <1>1, <1>2, <1>3, PTL DEF SramSpec, FilesStayApart

-----------------------------------------------------------------------------
\* The registers of the sound generator, and the writes that wait for it.
VoiceState == [state : {"off", "on", "release", "silence"}, endx : BOOLEAN, envx : {0, 1}]
DspWrite == [reg : {"FLG"}, data : {"RESET", "ON"}, uCycle : Nat]
            \cup [reg : {"KON", "KOFF", "ENDX"}, data : SUBSET Voice, uCycle : Nat]
Generator ==
  [FLG : {"MUTE", "ON"}, KON : SUBSET Voice, KOFF : SUBSET Voice, ENDX : SUBSET Voice,
   ENVX : [Voice -> {0, 1}], voice : [Voice -> VoiceState], queue : QueueOf(DspWrite),
   cycle : Nat, accesses : Nat, chunk : Nat]

SameRegisters(x, y) ==
  x.FLG = y.FLG /\ x.KON = y.KON /\ x.KOFF = y.KOFF /\ x.ENDX = y.ENDX /\ x.ENVX = y.ENVX

\* The registers once all that waits has been written.
Settle(d) == Write8All(d, Pending(d.queue))

\* The inductive invariant: how much of its queue a console's mixer has taken
\* makes no difference to what the registers will be.
DspInv ==
  /\ dsp \in [Console -> Generator]
  /\ \A c, d \in Console : SameRegisters(Settle(dsp[c]), Settle(dsp[d]))
  /\ ProgramsReadTheSame

-----------------------------------------------------------------------------
\* What writes come to is unique, and there is something they come to.
LEMMA WritesFrom ==
  ASSUME NEW d, NEW ws, Len(ws) \in Nat
  PROVE  \E f : /\ f[0] = d /\ \A i \in 1 .. Len(ws) : f[i] = Write8(f[i - 1], ws[i])
                /\ Write8All(d, ws) = f[Len(ws)]
<1> DEFINE step(f, i) == IF i = 0 THEN d ELSE Write8(f[i - 1], ws[i])
           until(n) == \E f : f = [i \in 0 .. n |-> step(f, i)]
<1>1. until(Len(ws))
  <2> DEFINE T == { n \in Nat : ~until(n) }
  <2>1. CASE T = {}
    <3> HIDE DEF until
    <3> QED BY <2>1
  <2>2. CASE T # {}
    <3>1. T \subseteq Nat
      OBVIOUS
    <3>2. PICK n \in T : \A m \in T : n <= m
      BY <2>2, <3>1, LeastOf
    <3>3. n \in Nat /\ ~until(n) /\ \A m \in Nat : m < n => until(m)
      <4> HIDE DEF until
      <4> QED BY <3>2
    <3>4. CASE n = 0
      <4> DEFINE f == [i \in 0 .. n |-> d]
      <4>1. f = [i \in 0 .. n |-> step(f, i)]
        BY <3>4
      <4> QED BY <3>3, <4>1
    <3>5. CASE n # 0
      <4>1. n - 1 \in Nat /\ n - 1 < n
        BY <3>3, <3>5
      <4>2. until(n - 1)
        <5> HIDE DEF until
        <5> QED BY <3>3, <4>1
      <4>3. PICK g : g = [i \in 0 .. n - 1 |-> step(g, i)]
        BY <4>2
      <4> DEFINE f == [i \in 0 .. n |-> IF i = n THEN Write8(g[n - 1], ws[n]) ELSE g[i]]
      <4>4. ASSUME NEW i \in 0 .. n PROVE f[i] = step(f, i)
        <5>1. CASE i = n
          <6>1. f[i] = Write8(g[n - 1], ws[n]) /\ f[n - 1] = g[n - 1]
            BY <3>3, <4>1, <5>1
          <6> QED BY <3>5, <5>1, <6>1
        <5>2. CASE i # n /\ i # 0
          <6>1. i \in 0 .. n - 1 /\ f[i] = g[i] /\ f[i - 1] = g[i - 1]
            BY <3>3, <4>1, <5>2
          <6>2. g[i] = step(g, i)
            BY <4>3, <6>1
          <6> QED BY <5>2, <6>1, <6>2
        <5>3. CASE i = 0
          <6>1. i \in 0 .. n - 1 /\ f[i] = g[i]
            BY <3>3, <3>5, <4>1, <5>3
          <6>2. g[i] = step(g, i)
            BY <4>3, <6>1
          <6> QED BY <5>3, <6>1, <6>2
        <5> QED BY <5>1, <5>2, <5>3
      <4>5. f = [i \in 0 .. n |-> step(f, i)]
        <5> DEFINE h == [i \in 0 .. n |-> step(f, i)]
        <5>1. \A i \in 0 .. n : f[i] = h[i]
          BY <4>4
        <5> QED BY <5>1
      <4> HIDE DEF f
      <4> QED BY <3>3, <4>5
    <3> QED BY <3>4, <3>5
  <2> QED BY <2>1, <2>2
<1> DEFINE after == CHOOSE f : f = [i \in 0 .. Len(ws) |-> step(f, i)]
<1>2. after = [i \in 0 .. Len(ws) |-> step(after, i)]
  BY <1>1
<1>3. Write8All(d, ws) = after[Len(ws)]
  BY DEF Write8All
<1> HIDE DEF after
<1>4. after[0] = d
  BY <1>2
<1>5. ASSUME NEW i \in 1 .. Len(ws) PROVE after[i] = Write8(after[i - 1], ws[i])
  <2>1. i \in 0 .. Len(ws) /\ i # 0
    OBVIOUS
  <2> QED BY <1>2, <2>1
<1> QED BY <1>3, <1>4, <1>5

LEMMA WritesAre ==
  ASSUME NEW d, NEW ws, Len(ws) \in Nat, NEW f,
         f[0] = d, \A i \in 1 .. Len(ws) : f[i] = Write8(f[i - 1], ws[i])
  PROVE  Write8All(d, ws) = f[Len(ws)]
<1>1. PICK g : /\ g[0] = d /\ \A i \in 1 .. Len(ws) : g[i] = Write8(g[i - 1], ws[i])
               /\ Write8All(d, ws) = g[Len(ws)]
  BY WritesFrom
<1> DEFINE T == { i \in 0 .. Len(ws) : f[i] # g[i] }
<1>2. CASE T = {}
  BY <1>1, <1>2
<1>3. CASE T # {}
  <2>1. T \subseteq Nat
    OBVIOUS
  <2>2. PICK n \in T : \A m \in T : n <= m
    BY <1>3, <2>1, LeastOf
  <2>3. n # 0
    BY <1>1, <2>2
  <2>4. n \in 1 .. Len(ws) /\ n - 1 \in 0 .. Len(ws) /\ n - 1 < n
    BY <2>2, <2>3
  <2>5. f[n - 1] = g[n - 1]
    BY <2>2, <2>4
  <2>6. f[n] = g[n]
    BY <1>1, <2>4, <2>5
  <2> QED BY <2>2, <2>6
<1> QED BY <1>2, <1>3

\* One more write; and the first n writes, then the others.
LEMMA WriteOneMore ==
  ASSUME NEW d, NEW E, NEW ws \in Seq(E), NEW w \in E
  PROVE  Write8All(d, Append(ws, w)) = Write8(Write8All(d, ws), w)
<1>1. Len(ws) \in Nat
  OBVIOUS
<1>2. PICK f : /\ f[0] = d /\ \A i \in 1 .. Len(ws) : f[i] = Write8(f[i - 1], ws[i])
               /\ Write8All(d, ws) = f[Len(ws)]
  BY <1>1, WritesFrom
<1> DEFINE n == Len(ws)
           r == Append(ws, w)
           g == [i \in 0 .. n + 1 |-> IF i = n + 1 THEN Write8(f[n], w) ELSE f[i]]
<1>3. Len(r) = n + 1 /\ r[n + 1] = w /\ \A i \in 1 .. n : r[i] = ws[i]
  BY AppendProperties
<1>4. g[0] = d /\ g[n + 1] = Write8(f[n], w)
  BY <1>1, <1>2
<1>5. ASSUME NEW i \in 1 .. n + 1 PROVE g[i] = Write8(g[i - 1], r[i])
  <2>1. i - 1 \in 0 .. n /\ i - 1 # n + 1 /\ g[i - 1] = f[i - 1]
    BY <1>1
  <2>2. CASE i = n + 1
    <3>1. i - 1 = n
      BY <1>1, <2>2
    <3> QED BY <1>3, <1>4, <2>1, <2>2, <3>1
  <2>3. CASE i # n + 1
    <3>1. i \in 1 .. n /\ g[i] = f[i]
      BY <1>1, <2>3
    <3> QED BY <1>2, <1>3, <2>1, <3>1
  <2> QED BY <2>2, <2>3
<1> HIDE DEF g, r
<1>6. Write8All(d, r) = g[n + 1]
  BY <1>1, <1>3, <1>4, <1>5, WritesAre
<1> QED BY <1>2, <1>4, <1>6 DEF r

LEMMA WriteInTwo ==
  ASSUME NEW d, NEW ws, Len(ws) \in Nat, NEW n \in 0 .. Len(ws), NEW front, NEW rest,
         Len(front) = n, \A i \in 1 .. n : front[i] = ws[i],
         Len(rest) = Len(ws) - n, \A i \in 1 .. Len(ws) - n : rest[i] = ws[n + i]
  PROVE  Write8All(Write8All(d, front), rest) = Write8All(d, ws)
<1>1. PICK f : /\ f[0] = d /\ \A i \in 1 .. Len(ws) : f[i] = Write8(f[i - 1], ws[i])
               /\ Write8All(d, ws) = f[Len(ws)]
  BY WritesFrom
<1>2. Write8All(d, front) = f[n]
  <2>1. \A i \in 1 .. n : i \in 1 .. Len(ws)
    OBVIOUS
  <2>2. \A i \in 1 .. Len(front) : f[i] = Write8(f[i - 1], front[i])
    <3>1. Len(front) = n /\ \A i \in 1 .. n : front[i] = ws[i]
      OBVIOUS
    <3>2. \A i \in 1 .. n : f[i] = Write8(f[i - 1], ws[i])
      BY <1>1, <2>1
    <3> QED BY <3>1, <3>2
  <2>3. Len(front) \in Nat
    OBVIOUS
  <2>4. f[0] = d
    BY <1>1
  <2>5. Write8All(d, front) = f[Len(front)]
    BY <2>2, <2>3, <2>4, WritesAre, SMTT(30)
  <2> QED BY <2>5
<1> DEFINE l == Len(ws) - n
           g == [i \in 0 .. l |-> f[n + i]]
<1>3. l \in Nat /\ n + l = Len(ws)
  OBVIOUS
<1>4. ASSUME NEW i \in 1 .. l PROVE g[i] = Write8(g[i - 1], rest[i])
  <2>1. n + i \in 1 .. Len(ws) /\ (n + i) - 1 = n + (i - 1) /\ i - 1 \in 0 .. l /\ i \in 0 .. l
    BY <1>3
  <2>2. g[i] = f[n + i] /\ g[i - 1] = f[n + (i - 1)]
    BY <2>1
  <2> QED BY <1>1, <2>1, <2>2
<1>5. g[0] = f[n] /\ g[l] = f[Len(ws)]
  BY <1>3
<1> HIDE DEF g
<1>6. Write8All(f[n], rest) = g[l]
  BY <1>3, <1>4, <1>5, WritesAre
<1> QED BY <1>1, <1>2, <1>5, <1>6

-----------------------------------------------------------------------------
\* What a write does to the registers depends on them alone.
LEMMA WriteType ==
  ASSUME NEW d \in Generator, NEW w \in DspWrite
  PROVE  /\ Write8(d, w) \in Generator /\ Write8(d, w).queue = d.queue
         /\ Write8(d, w).cycle = d.cycle /\ Write8(d, w).accesses = d.accesses
         /\ Write8(d, w).chunk = d.chunk
<1>1. ASSUME NEW vs \in SUBSET Voice
      PROVE  KeyOn(d.voice, vs) \in [Voice -> VoiceState] /\ KeyOff(d.voice, vs) \in [Voice -> VoiceState]
  <2>1. d.voice \in [Voice -> VoiceState]
    BY DEF Generator
  <2>2. ASSUME NEW s \in VoiceState
        PROVE  /\ [s EXCEPT !.state = "on", !.endx = FALSE] \in VoiceState
               /\ [s EXCEPT !.state = "release"] \in VoiceState
    BY DEF VoiceState
  <2>3. \A v \in Voice : d.voice[v] \in VoiceState
    BY <2>1
  <2> QED BY <2>2, <2>3 DEF KeyOn, KeyOff
<1>2. CASE w.reg = "FLG" /\ w.data = "RESET"
  <2>1. Write8(d, w) = [d EXCEPT !.FLG = "MUTE", !.KON = {}, !.KOFF = {}, !.ENDX = {}]
    BY <1>2 DEF Write8
  <2> QED BY <2>1 DEF Generator
<1>3. CASE w.reg = "FLG" /\ w.data # "RESET"
  <2>1. Write8(d, w) = [d EXCEPT !.FLG = w.data] /\ w.data = "ON"
    BY <1>3 DEF Write8, DspWrite
  <2> QED BY <2>1 DEF Generator
<1>4. CASE w.reg = "KON"
  <2>1. w.data \in SUBSET Voice
    BY <1>4 DEF DspWrite
  <2>2. Write8(d, w) = [d EXCEPT !.KON = w.data, !.ENDX = d.ENDX \ w.data, !.voice = KeyOn(d.voice, w.data)]
    BY <1>4 DEF Write8
  <2>3. d.ENDX \ w.data \in SUBSET Voice /\ KeyOn(d.voice, w.data) \in [Voice -> VoiceState]
    BY <1>1, <2>1 DEF Generator
  <2> QED BY <2>1, <2>2, <2>3 DEF Generator
<1>5. CASE w.reg = "KOFF"
  <2>1. w.data \in SUBSET Voice
    BY <1>5 DEF DspWrite
  <2>2. Write8(d, w) = [d EXCEPT !.KOFF = w.data, !.voice = KeyOff(d.voice, w.data)]
    BY <1>5 DEF Write8
  <2>3. KeyOff(d.voice, w.data) \in [Voice -> VoiceState]
    BY <1>1, <2>1
  <2> QED BY <2>1, <2>2, <2>3 DEF Generator
<1>6. CASE w.reg = "ENDX"
  <2>1. Write8(d, w) = [d EXCEPT !.ENDX = {}]
    BY <1>6 DEF Write8
  <2> QED BY <2>1 DEF Generator
<1> QED BY <1>2, <1>3, <1>4, <1>5, <1>6 DEF DspWrite

LEMMA WriteSame ==
  ASSUME NEW x \in Generator, NEW y \in Generator, SameRegisters(x, y),
         NEW w \in DspWrite, NEW z \in DspWrite, w.reg = z.reg, w.data = z.data
  PROVE  SameRegisters(Write8(x, w), Write8(y, z))
<1>1. CASE w.reg = "FLG" /\ w.data = "RESET"
  <2>1. /\ Write8(x, w) = [x EXCEPT !.FLG = "MUTE", !.KON = {}, !.KOFF = {}, !.ENDX = {}]
        /\ Write8(y, z) = [y EXCEPT !.FLG = "MUTE", !.KON = {}, !.KOFF = {}, !.ENDX = {}]
    BY <1>1 DEF Write8
  <2> QED BY <2>1 DEF Generator, SameRegisters
<1>2. CASE w.reg = "FLG" /\ w.data # "RESET"
  <2>1. /\ Write8(x, w) = [x EXCEPT !.FLG = w.data]
        /\ Write8(y, z) = [y EXCEPT !.FLG = w.data]
    BY <1>2 DEF Write8
  <2> QED BY <2>1 DEF Generator, SameRegisters
<1>3. CASE w.reg = "KON"
  <2>1. /\ Write8(x, w) = [x EXCEPT !.KON = w.data, !.ENDX = x.ENDX \ w.data, !.voice = KeyOn(x.voice, w.data)]
        /\ Write8(y, z) = [y EXCEPT !.KON = w.data, !.ENDX = y.ENDX \ w.data, !.voice = KeyOn(y.voice, w.data)]
    BY <1>3 DEF Write8
  <2> QED BY <2>1 DEF Generator, SameRegisters
<1>4. CASE w.reg = "KOFF"
  <2>1. /\ Write8(x, w) = [x EXCEPT !.KOFF = w.data, !.voice = KeyOff(x.voice, w.data)]
        /\ Write8(y, z) = [y EXCEPT !.KOFF = w.data, !.voice = KeyOff(y.voice, w.data)]
    BY <1>4 DEF Write8
  <2> QED BY <2>1 DEF Generator, SameRegisters
<1>5. CASE w.reg = "ENDX"
  <2>1. /\ Write8(x, w) = [x EXCEPT !.ENDX = {}]
        /\ Write8(y, z) = [y EXCEPT !.ENDX = {}]
    BY <1>5 DEF Write8
  <2> QED BY <2>1 DEF Generator, SameRegisters
<1> QED BY <1>1, <1>2, <1>3, <1>4, <1>5 DEF DspWrite

LEMMA WritesSame ==
  ASSUME NEW x \in Generator, NEW y \in Generator, SameRegisters(x, y),
         NEW ws, Len(ws) \in Nat, \A i \in 1 .. Len(ws) : ws[i] \in DspWrite
  PROVE  /\ Write8All(x, ws) \in Generator
         /\ Write8All(x, ws).queue = x.queue /\ Write8All(x, ws).cycle = x.cycle
         /\ Write8All(x, ws).accesses = x.accesses /\ Write8All(x, ws).chunk = x.chunk
         /\ SameRegisters(Write8All(x, ws), Write8All(y, ws))
<1>1. PICK f : /\ f[0] = x /\ \A i \in 1 .. Len(ws) : f[i] = Write8(f[i - 1], ws[i])
               /\ Write8All(x, ws) = f[Len(ws)]
  BY WritesFrom
<1>2. PICK g : /\ g[0] = y /\ \A i \in 1 .. Len(ws) : g[i] = Write8(g[i - 1], ws[i])
               /\ Write8All(y, ws) = g[Len(ws)]
  BY WritesFrom
<1> DEFINE good(i) == /\ f[i] \in Generator /\ g[i] \in Generator /\ SameRegisters(f[i], g[i])
                      /\ f[i].queue = x.queue /\ f[i].cycle = x.cycle
                      /\ f[i].accesses = x.accesses /\ f[i].chunk = x.chunk
           T == { i \in 0 .. Len(ws) : ~good(i) }
<1>3. good(0)
  BY <1>1, <1>2
<1>4. ASSUME NEW i \in 1 .. Len(ws), good(i - 1) PROVE good(i)
  <2>1. f[i] = Write8(f[i - 1], ws[i]) /\ g[i] = Write8(g[i - 1], ws[i]) /\ ws[i] \in DspWrite
    BY <1>1, <1>2
  <2> QED BY <1>4, <2>1, WriteType, WriteSame
<1> HIDE DEF good
<1>5. CASE T = {}
  <2>1. good(Len(ws))
    BY <1>5
  <2> QED BY <1>1, <1>2, <2>1 DEF good
<1>6. CASE T # {}
  <2>1. T \subseteq Nat
    OBVIOUS
  <2>2. PICK n \in T : \A m \in T : n <= m
    BY <1>6, <2>1, LeastOf
  <2>3. n # 0
    BY <1>3, <2>2
  <2>4. n \in 1 .. Len(ws) /\ n - 1 \in 0 .. Len(ws) /\ n - 1 < n
    BY <2>2, <2>3
  <2>5. good(n - 1)
    BY <2>2, <2>4
  <2> QED BY <1>4, <2>2, <2>4, <2>5
<1> QED BY <1>5, <1>6

\* What waits is written whenever it is taken.
LEMMA SettleType ==
  ASSUME NEW d \in Generator
  PROVE  /\ d.queue \in QueueOf(DspWrite) /\ Len(Pending(d.queue)) \in Nat
         /\ \A i \in 1 .. Len(Pending(d.queue)) : Pending(d.queue)[i] \in DspWrite
         /\ Settle(d) \in Generator /\ Settle(d).queue = d.queue /\ Settle(d).cycle = d.cycle
         /\ Settle(d).accesses = d.accesses /\ Settle(d).chunk = d.chunk
<1>1. d.queue \in QueueOf(DspWrite)
  BY DEF Generator
<1>2. /\ Len(Pending(d.queue)) \in Nat
      /\ \A i \in 1 .. Len(Pending(d.queue)) : Pending(d.queue)[i] \in DspWrite
  BY <1>1, PendingType
<1> QED BY <1>1, <1>2, WritesSame DEF Settle, SameRegisters

LEMMA SettleSame ==
  ASSUME NEW x \in Generator, NEW y \in Generator, SameRegisters(x, y), x.queue = y.queue
  PROVE  SameRegisters(Settle(x), Settle(y))
BY SettleType, WritesSame DEF Settle

LEMMA NothingWrites ==
  ASSUME NEW d, NEW ws, Len(ws) = 0
  PROVE  Write8All(d, ws) = d
<1> DEFINE f == [i \in {0} |-> d]
<1>1. Write8All(d, ws) = f[Len(ws)]
  <2>1. f[0] = d /\ \A i \in 1 .. Len(ws) : f[i] = Write8(f[i - 1], ws[i])
    OBVIOUS
  <2>2. Len(ws) \in Nat
    OBVIOUS
  <2> HIDE DEF f
  <2> QED BY <2>1, <2>2, WritesAre
<1> QED BY <1>1

LEMMA SyncAllSettles ==
  ASSUME NEW d \in Generator
  PROVE  /\ SyncAll(d) \in Generator /\ SyncAll(d).cycle = d.cycle
         /\ SyncAll(d).accesses = d.accesses /\ SyncAll(d).chunk = d.chunk
         /\ SyncAll(d).queue = SNQueueReset
         /\ SameRegisters(SyncAll(d), Settle(d))
         /\ Settle(SyncAll(d)) = SyncAll(d)
<1>1. SNQueueReset \in QueueOf(DspWrite) /\ Pending(SNQueueReset) = << >>
  <2>1. << >> \in Seq(DspWrite) /\ Len(<< >>) = 0
    OBVIOUS
  <2>2. SNQueueReset \in QueueOf(DspWrite)
    BY <2>1 DEF QueueOf, SNQueueReset
  <2> QED BY <2>2, EmptyPending DEF IsEmpty, SNQueueReset
<1>2. SyncAll(d) = [Settle(d) EXCEPT !.queue = SNQueueReset]
  BY DEF SyncAll, Settle
<1>3. /\ SyncAll(d) \in Generator /\ SyncAll(d).cycle = d.cycle
      /\ SyncAll(d).accesses = d.accesses /\ SyncAll(d).chunk = d.chunk
      /\ SyncAll(d).queue = SNQueueReset /\ SameRegisters(SyncAll(d), Settle(d))
  BY <1>1, <1>2, SettleType DEF Generator, SameRegisters
<1>4. Settle(SyncAll(d)) = SyncAll(d)
  BY <1>1, <1>3, NothingWrites DEF Settle
<1> QED BY <1>3, <1>4

LEMMA SyncToSettles ==
  ASSUME NEW d \in Generator, NEW t
  PROVE  /\ SyncTo(d, t) \in Generator /\ SyncTo(d, t).chunk = d.chunk
         /\ SameRegisters(Settle(SyncTo(d, t)), Settle(d))
<1> DEFINE P == Pending(d.queue)
           n == CountBefore(d.queue, t)
           first == SubSeq(P, 1, n)
           b == Write8All(d, first)
           q == DequeueBefore(d.queue, t)
<1>1. /\ d.queue \in QueueOf(DspWrite) /\ Len(P) \in Nat /\ P \in Seq(DspWrite)
      /\ \A i \in 1 .. Len(P) : P[i] \in DspWrite
  BY SettleType, PendingType
<1>2. n \in 0 .. Len(P)
  BY <1>1, CountSplits
<1>3. Len(first) = n /\ \A i \in 1 .. n : first[i] = P[i]
  BY <1>1, <1>2
<1>4. /\ q \in QueueOf(DspWrite) /\ Len(Pending(q)) = Len(P) - n
      /\ \A k \in 1 .. Len(P) - n : Pending(q)[k] = P[n + k]
  BY <1>1, DequeueTakes
<1>5. b \in Generator /\ b.queue = d.queue /\ b.chunk = d.chunk
  <2>1. Len(first) \in Nat /\ \A i \in 1 .. Len(first) : first[i] \in DspWrite
    BY <1>1, <1>2, <1>3
  <2>2. SameRegisters(d, d)
    BY DEF SameRegisters
  <2> HIDE DEF first
  <2> QED BY <2>1, <2>2, WritesSame
<1>6. Write8All(b, Pending(q)) = Settle(d)
  <2> HIDE DEF n, first, P
  <2>1. Write8All(b, Pending(q)) = Write8All(d, P)
    BY <1>1, <1>2, <1>3, <1>4, WriteInTwo
  <2> QED BY <2>1 DEF Settle, P
<1>7. SyncTo(d, t) = [b EXCEPT !.queue = q]
  BY <1>5 DEF SyncTo
<1> HIDE DEF b, q, n, first, P
<1>8. SyncTo(d, t) \in Generator /\ SyncTo(d, t).chunk = d.chunk /\ SyncTo(d, t).queue = q
      /\ SameRegisters(SyncTo(d, t), b)
  BY <1>4, <1>5, <1>7 DEF Generator, SameRegisters
<1>9. SameRegisters(Write8All(SyncTo(d, t), Pending(q)), Write8All(b, Pending(q)))
  <2>1. Len(Pending(q)) \in Nat /\ \A i \in 1 .. Len(Pending(q)) : Pending(q)[i] \in DspWrite
    BY <1>4, PendingType
  <2> QED BY <1>5, <1>8, <2>1, WritesSame
<1> QED BY <1>6, <1>8, <1>9 DEF Settle

-----------------------------------------------------------------------------
\* What a program does, and the mixer, with one console's registers.
LEMMA EnqueueSettles ==
  ASSUME NEW x \in Generator, NEW y \in Generator, SameRegisters(Settle(x), Settle(y)),
         NEW w \in DspWrites
  PROVE  /\ EnqueueWrite(x, w) \in Generator
         /\ SameRegisters(Settle(EnqueueWrite(x, w)), Settle(EnqueueWrite(y, w)))
<1> DEFINE room(d) == IF HasRoom(d.queue) THEN d ELSE SyncAll(d)
           queued(d) == [reg |-> w.reg, data |-> w.data, uCycle |-> d.cycle]
<1>1. ASSUME NEW d \in Generator
      PROVE  /\ EnqueueWrite(d, w) \in Generator /\ queued(d) \in DspWrite
             /\ room(d) \in Generator /\ SameRegisters(Settle(room(d)), Settle(d))
             /\ Settle(room(d)) \in Generator
             /\ SameRegisters(Settle(EnqueueWrite(d, w)), Write8(Settle(room(d)), queued(d)))
  <2>1. room(d) \in Generator
    BY SyncAllSettles
  <2>2. SameRegisters(Settle(room(d)), Settle(d))
    <3>1. CASE HasRoom(d.queue)
      BY <3>1 DEF SameRegisters
    <3>2. CASE ~HasRoom(d.queue)
      BY <3>2, SyncAllSettles
    <3> QED BY <3>1, <3>2
  <2>3. queued(d) \in DspWrite
    <3>1. d.cycle \in Nat
      BY DEF Generator
    <3> QED BY <3>1 DEF DspWrites, DspWrite
  <2>4. EnqueueWrite(d, w) = [room(d) EXCEPT !.queue = Enqueue(room(d).queue, queued(d))]
    BY DEF EnqueueWrite
  <2> HIDE DEF room, queued
  <2> DEFINE q == room(d).queue
             e == EnqueueWrite(d, w)
  <2>5. q \in QueueOf(DspWrite) /\ Pending(q) \in Seq(DspWrite)
    BY <2>1, SettleType, PendingType
  <2>6. /\ Enqueue(q, queued(d)) \in QueueOf(DspWrite)
        /\ Pending(Enqueue(q, queued(d))) = Append(Pending(q), queued(d))
    BY <2>3, <2>5, EnqueueAppends
  <2>7. e \in Generator /\ e.queue = Enqueue(q, queued(d)) /\ SameRegisters(e, room(d))
    BY <2>1, <2>4, <2>6 DEF Generator, SameRegisters
  <2> HIDE DEF e, q
  <2>8. Settle(e) = Write8(Write8All(e, Pending(q)), queued(d))
    <3>1. Settle(e) = Write8All(e, Append(Pending(q), queued(d)))
      BY <2>6, <2>7 DEF Settle
    <3> QED BY <2>3, <2>5, <3>1, WriteOneMore
  <2>9. /\ Write8All(e, Pending(q)) \in Generator /\ Settle(room(d)) \in Generator
        /\ SameRegisters(Write8All(e, Pending(q)), Settle(room(d)))
    <3>1. Len(Pending(q)) \in Nat /\ \A i \in 1 .. Len(Pending(q)) : Pending(q)[i] \in DspWrite
      BY <2>5, PendingType
    <3> QED BY <2>1, <2>7, <3>1, WritesSame, SettleType DEF Settle, q
  <2>10. SameRegisters(Settle(e), Write8(Settle(room(d)), queued(d)))
    BY <2>3, <2>8, <2>9, WriteSame
  <2> QED BY <2>1, <2>2, <2>3, <2>7, <2>9, <2>10 DEF e
<1>2. SameRegisters(Settle(room(x)), Settle(room(y)))
  BY <1>1 DEF SameRegisters
<1>3. queued(x).reg = queued(y).reg /\ queued(x).data = queued(y).data
  OBVIOUS
<1> HIDE DEF room, queued
<1>4. SameRegisters(Write8(Settle(room(x)), queued(x)), Write8(Settle(room(y)), queued(y)))
  BY <1>1, <1>2, <1>3, WriteSame
<1> QED BY <1>1, <1>4 DEF SameRegisters

LEMMA LaterSettles ==
  ASSUME NEW d \in Generator, NEW n \in Nat
  PROVE  Later(d, n) \in Generator /\ SameRegisters(Settle(Later(d, n)), Settle(d))
<1>1. /\ Later(d, n) \in Generator /\ SameRegisters(Later(d, n), d)
      /\ Later(d, n).queue = d.queue
  <2>1. d.cycle + n \in Nat /\ d.accesses + 1 \in Nat
    BY DEF Generator
  <2>2. Later(d, n) = [d EXCEPT !.cycle = d.cycle + n, !.accesses = d.accesses + 1]
    BY DEF Later
  <2> QED BY <2>1, <2>2 DEF Generator, SameRegisters
<1> QED BY <1>1, SettleSame

LEMMA MixSettles ==
  ASSUME NEW x \in Generator, NEW ended \in SUBSET Voice
  PROVE  LET d == SyncTo(x, x.chunk)
             e == [d EXCEPT !.voice = Mixed(d, ended), !.chunk = @ + 1]
         IN  e \in Generator /\ SameRegisters(Settle(e), Settle(x))
<1> DEFINE d == SyncTo(x, x.chunk)
           e == [d EXCEPT !.voice = Mixed(d, ended), !.chunk = @ + 1]
<1>1. d \in Generator /\ SameRegisters(Settle(d), Settle(x))
  BY SyncToSettles
<1> HIDE DEF d
<1>2. Mixed(d, ended) \in [Voice -> VoiceState]
  <2>1. d.voice \in [Voice -> VoiceState]
    BY <1>1 DEF Generator
  <2>2. [state |-> "silence", endx |-> TRUE, envx |-> 0] \in VoiceState
    BY DEF VoiceState
  <2>3. ASSUME NEW s \in VoiceState PROVE [s EXCEPT !.envx = 1] \in VoiceState
    BY DEF VoiceState
  <2> QED BY <2>1, <2>2, <2>3 DEF Mixed
<1>3. d.chunk + 1 \in Nat
  BY <1>1 DEF Generator
<1>4. e \in Generator /\ SameRegisters(e, d) /\ e.queue = d.queue
  BY <1>1, <1>2, <1>3 DEF Generator, SameRegisters
<1> HIDE DEF e
<1>5. SameRegisters(Settle(e), Settle(d))
  BY <1>1, <1>4, SettleSame
<1>6. SameRegisters(Settle(e), Settle(x))
  BY <1>1, <1>5 DEF SameRegisters
<1> QED BY <1>4, <1>6 DEF d, e

LEMMA FrameSettles ==
  ASSUME NEW x \in Generator, NEW y \in Generator, SameRegisters(Settle(x), Settle(y))
  PROVE  LET e(d) == [UpdateFlags(SyncAll(d), FrameMode("PLAY"))
                        EXCEPT !.cycle = 0, !.accesses = 0, !.chunk = 0]
         IN  e(x) \in Generator /\ SameRegisters(Settle(e(x)), Settle(e(y)))
<1> DEFINE e(d) == [UpdateFlags(SyncAll(d), FrameMode("PLAY"))
                      EXCEPT !.cycle = 0, !.accesses = 0, !.chunk = 0]
<1>1. ASSUME NEW d \in Generator
      PROVE  /\ e(d) \in Generator /\ SyncAll(d) \in Generator /\ Settle(e(d)) = e(d)
             /\ SameRegisters(e(d), [SyncAll(d) EXCEPT !.ENVX = [v \in Voice |-> 0]])
  <2> DEFINE s == SyncAll(d)
  <2>1. s \in Generator /\ s.queue = SNQueueReset
    BY SyncAllSettles
  <2> HIDE DEF s
  <2>2. UpdateFlags(s, FrameMode("PLAY")) = [s EXCEPT !.ENVX = [v \in Voice |-> 0]]
    BY DEF UpdateFlags, FrameMode
  <2>3. [v \in Voice |-> 0] \in [Voice -> {0, 1}]
    OBVIOUS
  <2>4. PICK t : t = [s EXCEPT !.ENVX = [v \in Voice |-> 0]]
    OBVIOUS
  <2>5. /\ e(d) \in Generator /\ e(d).queue = SNQueueReset
        /\ SameRegisters(e(d), [s EXCEPT !.ENVX = [v \in Voice |-> 0]])
    <3>1. t \in Generator /\ t.queue = SNQueueReset
      BY <2>1, <2>3, <2>4 DEF Generator
    <3>2. e(d) = [t EXCEPT !.cycle = 0, !.accesses = 0, !.chunk = 0]
      BY <2>2, <2>4 DEF s
    <3> HIDE DEF e
    <3>3. e(d) \in Generator /\ e(d).queue = SNQueueReset /\ SameRegisters(e(d), t)
      <4>1. PICK f : f = e(d)
        OBVIOUS
      <4>2. f = [t EXCEPT !.cycle = 0, !.accesses = 0, !.chunk = 0]
        BY <3>2, <4>1
      <4>3. f \in Generator /\ f.queue = SNQueueReset /\ SameRegisters(f, t)
        BY <3>1, <4>2 DEF Generator, SameRegisters
      <4> QED BY <4>1, <4>3
    <3> QED BY <2>4, <3>3
  <2> HIDE DEF e
  <2>6. Len(Pending(SNQueueReset)) = 0
    BY DEF Pending, SNQueueReset
  <2>7. Settle(e(d)) = e(d)
    BY <2>5, <2>6, NothingWrites DEF Settle
  <2> QED BY <2>1, <2>5, <2>7 DEF s
<1>2. SameRegisters(SyncAll(x), SyncAll(y))
  BY SyncAllSettles DEF SameRegisters
<1>3. SameRegisters([SyncAll(x) EXCEPT !.ENVX = [v \in Voice |-> 0]],
                    [SyncAll(y) EXCEPT !.ENVX = [v \in Voice |-> 0]])
  <2>1. PICK a \in Generator, b \in Generator : a = SyncAll(x) /\ b = SyncAll(y)
    BY <1>1
  <2> QED BY <1>2, <2>1 DEF SameRegisters, Generator
<1> HIDE DEF e
<1>4. SameRegisters(Settle(e(x)), Settle(e(y)))
  BY <1>1, <1>3 DEF SameRegisters
<1> QED BY <1>1, <1>4 DEF e

-----------------------------------------------------------------------------
LEMMA DspStep ==
  ASSUME DspInv, [DspNext]_dspVars
  PROVE  DspInv'
<1>1. /\ \A c \in Console : dsp[c] \in Generator
      /\ \A c, d \in Console : SameRegisters(Settle(dsp[c]), Settle(dsp[d]))
      /\ \A c, d \in Console : dspAnswer[c] = dspAnswer[d]
  BY DEF DspInv, ProgramsReadTheSame
<1>2. ASSUME NEW w \in DspWrites, NEW n \in {0, 1}, WriteDsp(w, n) PROVE DspInv'
  <2>1. dsp' = [c \in Console |-> EnqueueWrite(Later(dsp[c], n), w)] /\ dspAnswer' = dspAnswer
    BY <1>2 DEF WriteDsp
  <2>2. ASSUME NEW c \in Console
        PROVE  Later(dsp[c], n) \in Generator
               /\ SameRegisters(Settle(Later(dsp[c], n)), Settle(dsp[c]))
    BY <1>1, LaterSettles
  <2>3. \A c, d \in Console : SameRegisters(Settle(Later(dsp[c], n)), Settle(Later(dsp[d], n)))
    BY <1>1, <2>2 DEF SameRegisters
  <2>4. ASSUME NEW c \in Console, NEW d \in Console
        PROVE  /\ EnqueueWrite(Later(dsp[c], n), w) \in Generator
               /\ SameRegisters(Settle(EnqueueWrite(Later(dsp[c], n), w)),
                                Settle(EnqueueWrite(Later(dsp[d], n), w)))
    BY <2>2, <2>3, EnqueueSettles
  <2>5. ProgramsReadTheSame'
    BY <1>1, <2>1 DEF ProgramsReadTheSame
  <2> QED BY <2>1, <2>4, <2>5 DEF DspInv
<1>3. ASSUME NEW r \in Registers8, ReadDsp(r) PROVE DspInv'
  <2>1. /\ dsp' = [c \in Console |-> SyncAll(Later(dsp[c], 0))]
        /\ dspAnswer' = [c \in Console |-> dsp'[c][r]]
    BY <1>3 DEF ReadDsp
  <2>2. ASSUME NEW c \in Console
        PROVE  /\ dsp'[c] \in Generator /\ SameRegisters(dsp'[c], Settle(dsp[c]))
               /\ SameRegisters(Settle(dsp'[c]), Settle(dsp[c]))
    <3>1. Later(dsp[c], 0) \in Generator /\ SameRegisters(Settle(Later(dsp[c], 0)), Settle(dsp[c]))
      BY <1>1, LaterSettles
    <3>2. dsp'[c] = SyncAll(Later(dsp[c], 0))
      BY <2>1
    <3> QED BY <3>1, <3>2, SyncAllSettles DEF SameRegisters
  <2>3. \A c, d \in Console : /\ SameRegisters(dsp'[c], dsp'[d])
                               /\ SameRegisters(Settle(dsp'[c]), Settle(dsp'[d]))
    BY <1>1, <2>2 DEF SameRegisters
  <2>4. \A c, d \in Console : dsp'[c][r] = dsp'[d][r]
    <3>1. r = "FLG" \/ r = "KON" \/ r = "KOFF" \/ r = "ENDX" \/ r = "ENVX"
      BY DEF Registers8
    <3> QED BY <2>3, <3>1 DEF SameRegisters
  <2>5. ProgramsReadTheSame'
    BY <2>1, <2>4 DEF ProgramsReadTheSame
  <2>6. dsp' \in [Console -> Generator]
    BY <2>1, <2>2
  <2> QED BY <2>3, <2>5, <2>6 DEF DspInv
<1>4. ASSUME NEW k \in Console, MixChunk(k) PROVE DspInv'
  <2>1. PICK ended \in SUBSET Voice :
          dsp' = [dsp EXCEPT ![k] = [SyncTo(dsp[k], dsp[k].chunk)
                                       EXCEPT !.voice = Mixed(SyncTo(dsp[k], dsp[k].chunk), ended),
                                              !.chunk = @ + 1]]
    BY <1>4 DEF MixChunk
  <2>2. PICK e : e = [SyncTo(dsp[k], dsp[k].chunk)
                        EXCEPT !.voice = Mixed(SyncTo(dsp[k], dsp[k].chunk), ended), !.chunk = @ + 1]
    OBVIOUS
  <2>3. e \in Generator /\ SameRegisters(Settle(e), Settle(dsp[k]))
    BY <1>1, <2>2, MixSettles
  <2>4. dsp' = [dsp EXCEPT ![k] = e]
    BY <2>1, <2>2
  <2>5. \A c \in Console : SameRegisters(Settle(dsp'[c]), Settle(dsp[c]))
    BY <2>3, <2>4 DEF SameRegisters, DspInv
  <2>6. \A c, d \in Console : SameRegisters(Settle(dsp'[c]), Settle(dsp'[d]))
    BY <1>1, <2>5 DEF SameRegisters
  <2>7. dsp' \in [Console -> Generator]
    BY <2>3, <2>4 DEF DspInv
  <2>8. ProgramsReadTheSame'
    BY <1>1, <1>4 DEF MixChunk, ProgramsReadTheSame
  <2> QED BY <2>6, <2>7, <2>8 DEF DspInv
<1>5. CASE EndDspFrame
  <2> DEFINE e(d) == [UpdateFlags(SyncAll(d), FrameMode("PLAY"))
                        EXCEPT !.cycle = 0, !.accesses = 0, !.chunk = 0]
  <2>1. dsp' = [c \in Console |-> e(dsp[c])] /\ dspAnswer' = dspAnswer
    BY <1>5 DEF EndDspFrame
  <2>2. ASSUME NEW c \in Console, NEW d \in Console
        PROVE  e(dsp[c]) \in Generator /\ SameRegisters(Settle(e(dsp[c])), Settle(e(dsp[d])))
    BY <1>1, FrameSettles
  <2> HIDE DEF e
  <2>3. ProgramsReadTheSame'
    BY <1>1, <2>1 DEF ProgramsReadTheSame
  <2> QED BY <2>1, <2>2, <2>3 DEF DspInv
<1>6. CASE UNCHANGED dspVars
  BY <1>6 DEF dspVars, DspInv, ProgramsReadTheSame
<1> QED BY <1>2, <1>3, <1>4, <1>5, <1>6 DEF DspNext

\* The programs of consoles that share a game read the same from the sound
\* generator, for any consoles and voices, however many samples each of them
\* mixes in a frame and whatever its voices come to: the mixer takes queued
\* writes early, but tells the registers nothing while a net game is played.
THEOREM ProgramsReadTheSameHolds == DspSpec => []ProgramsReadTheSame
<1>1. DspInit => DspInv
  <2> SUFFICES ASSUME DspInit PROVE DspInv
    OBVIOUS
  <2>1. dsp = [c \in Console |-> DspReset] /\ dspAnswer = [c \in Console |-> {}]
    BY DEF DspInit
  <2>2. SNQueueReset \in QueueOf(DspWrite)
    <3>1. << >> \in Seq(DspWrite) /\ Len(<< >>) = 0
      OBVIOUS
    <3> QED BY <3>1 DEF QueueOf, SNQueueReset
  <2>3. DspReset \in Generator
    <3>1. Off \in VoiceState
      BY DEF Off, VoiceState
    <3> QED BY <2>2, <3>1 DEF DspReset, Generator
  <2>4. dsp \in [Console -> Generator] /\ \A c \in Console : dsp[c] = DspReset
    BY <2>1, <2>3
  <2> QED BY <2>1, <2>4 DEF DspInv, SameRegisters, ProgramsReadTheSame
<1>2. DspInv /\ [DspNext]_dspVars => DspInv'
  BY DspStep
<1>3. DspInv => ProgramsReadTheSame
  BY DEF DspInv
<1> QED BY <1>1, <1>2, <1>3, PTL DEF DspSpec
-----------------------------------------------------------------------------
\* Every time RDNMI and its enable bit come to be set together the program is
\* given one NMI, for every length of a line, of a frame and of a DMA.

USE DEF registers

LEMMA TypeStep ==
  ASSUME SignalTypeOK, [SignalNext]_signalVars
  PROVE  SignalTypeOK'
<1>a. /\ PART_CYCLES \in Nat \ {0} /\ MAX_DMA \in Nat \ {0}
      /\ PICTURE \in Nat \ {0} /\ FRAME \in Nat /\ PICTURE < FRAME
  BY SnesSignalsAssumption
<1>b. SignalNext => owed' \in BOOLEAN
  BY DEF SignalNext, Owes
\* An instruction that leaves these signals.
<1>c. ASSUME NEW u, u \subseteq {"NMI", "NMIEDGE", "IRQ", "DMA", "WAI"}, Executes(u)
      PROVE  /\ uSignal' \subseteq {"NMI", "NMIEDGE", "IRQ", "DMA", "WAI"}
             /\ cycles' \in 0 .. PART_CYCLES
             /\ point' \in {"top", "one", "nmi", "run"}
             /\ scanline' \in 0 .. FRAME - 1 /\ irqAhead' \in BOOLEAN
  BY <1>a, <1>c DEF Executes, After, SignalTypeOK
<1>1. ASSUME SignalNext, NEW b \in BOOLEAN, OtherOp(b) PROVE SignalTypeOK'
  BY <1>1, <1>b, <1>c DEF OtherOp, SignalTypeOK
<1>2. ASSUME SignalNext, NEW nmi \in BOOLEAN, NEW irq \in BOOLEAN, WriteNmitimen(nmi, irq)
      PROVE  SignalTypeOK'
  <2> DEFINE u == SignalNMI(IF irq THEN uSignal ELSE uSignal \ {"IRQ"}, rdnmi /\ nmi)
  <2>1. u \subseteq {"NMI", "NMIEDGE", "IRQ", "DMA", "WAI"}
    BY DEF SignalNMI, SignalTypeOK
  <2>2. Executes(u)
    BY <1>2 DEF WriteNmitimen
  <2> QED BY <1>2, <1>b, <1>c, <2>1, <2>2 DEF WriteNmitimen, SignalTypeOK
<1>3. ASSUME SignalNext, ReadRdnmi PROVE SignalTypeOK'
  <2>1. SignalNMI(uSignal, FALSE) \subseteq {"NMI", "NMIEDGE", "IRQ", "DMA", "WAI"}
    BY DEF SignalNMI, SignalTypeOK
  <2> QED BY <1>3, <1>b, <1>c, <2>1 DEF ReadRdnmi, SignalTypeOK
<1>4. ASSUME SignalNext, ClearTimeup PROVE SignalTypeOK'
  <2>1. uSignal \ {"IRQ"} \subseteq {"NMI", "NMIEDGE", "IRQ", "DMA", "WAI"}
    BY DEF SignalTypeOK
  <2> QED BY <1>4, <1>b, <1>c, <2>1 DEF ClearTimeup, SignalTypeOK
<1>5. ASSUME SignalNext, Wai PROVE SignalTypeOK'
  BY <1>a, <1>5, <1>b DEF Wai, SignalTypeOK
<1>6. ASSUME SignalNext, NEW n \in {0, 1, MAX_DMA}, WriteMdmaen(n) PROVE SignalTypeOK'
  <2>1. (IF n # 0 THEN uSignal \cup {"DMA"} ELSE uSignal)
          \subseteq {"NMI", "NMIEDGE", "IRQ", "DMA", "WAI"}
    BY DEF SignalTypeOK
  <2>2. n \in 0 .. MAX_DMA
    BY <1>a
  <2> QED BY <1>6, <1>b, <1>c, <2>1, <2>2 DEF WriteMdmaen, SignalTypeOK
<1>7. ASSUME SignalNext, ServeDma PROVE SignalTypeOK'
  BY <1>a, <1>7, <1>b DEF ServeDma, SignalTypeOK
<1>8. ASSUME SignalNext, ServeEdge \/ ServeNMI \/ ServeIRQ PROVE SignalTypeOK'
  <2>1. cycles' \in 0 .. PART_CYCLES
    BY <1>a, <1>8 DEF ServeEdge, ServeNMI, ServeIRQ, SignalTypeOK
  <2>2. CASE ServeEdge
    BY <1>8, <1>b, <2>1, <2>2 DEF ServeEdge, SignalTypeOK
  <2>3. CASE ServeNMI
    BY <1>8, <1>b, <2>1, <2>3 DEF ServeNMI, SignalTypeOK
  <2>4. CASE ServeIRQ
    BY <1>8, <1>b, <2>1, <2>4 DEF ServeIRQ, SignalTypeOK
  <2> QED BY <1>8, <2>2, <2>3, <2>4
<1>9. ASSUME SignalNext, RaiseIRQ PROVE SignalTypeOK'
  <2>1. cycles' \in 0 .. PART_CYCLES
    BY <1>a, <1>9 DEF RaiseIRQ
  <2> QED BY <1>9, <1>b, <2>1 DEF RaiseIRQ, SignalTypeOK
<1>10. ASSUME SignalNext, NEW irq \in BOOLEAN, NextScanline(irq) PROVE SignalTypeOK'
  <2>1. scanline' \in 0 .. FRAME - 1
    BY <1>a, <1>10 DEF NextScanline, SignalTypeOK
  <2>2. uSignal' \subseteq {"NMI", "NMIEDGE", "IRQ", "DMA", "WAI"}
    BY <1>10 DEF NextScanline, LineSignals, SignalNMI, SignalTypeOK
  <2>3. cycles' \in 0 .. PART_CYCLES
    BY <1>a, <1>10 DEF NextScanline
  <2>4. rdnmi' \in BOOLEAN /\ irqAhead' \in BOOLEAN
    BY <1>10 DEF NextScanline, SignalTypeOK
  <2> QED BY <1>10, <1>b, <2>1, <2>2, <2>3, <2>4 DEF NextScanline, SignalTypeOK
<1>11. CASE UNCHANGED signalVars
  BY <1>11 DEF signalVars, SignalTypeOK
<1> QED
  BY <1>1, <1>2, <1>3, <1>4, <1>5, <1>6, <1>7, <1>8, <1>9, <1>10, <1>11 DEF SignalNext, Instruction

\* What SignalNMI does to the signal and to its edge.
LEMMA SignalFollows ==
  ASSUME NEW u, NEW b \in BOOLEAN, "NMIEDGE" \in u => "NMI" \in u
  PROVE  /\ "NMI" \in SignalNMI(u, b) <=> b
         /\ "NMIEDGE" \in SignalNMI(u, b) <=> b /\ ("NMI" \notin u \/ "NMIEDGE" \in u)
  BY DEF SignalNMI

\* An instruction that leaves the signal as the two bits are, and sets the edge
\* with the signal only.
LEMMA InstructionStep ==
  ASSUME SignalTypeOK, SignalInv, Owes, NEW u, Executes(u),
         "NMI" \in u <=> Level',
         "NMIEDGE" \in u <=> Level' /\ (~Level \/ "NMIEDGE" \in uSignal)
  PROVE  SignalInv'
<1>1. uSignal' = u /\ point \in {"one", "run"}
  BY DEF Executes
<1>2. CASE point = "one"
  <2>1. point' = "nmi"
    BY <1>2 DEF Executes, After
  <2>2. owed /\ owed'
    BY <1>2, <2>1 DEF SignalInv, NmiOncePerEdge, Owes
  <2> QED BY <1>1, <2>1, <2>2 DEF SignalInv, NmiOncePerEdge
<1>3. CASE point = "run"
  <2>1. point' \in {"top", "run"}
    BY <1>3 DEF Executes, After
  <2>2. owed <=> "NMIEDGE" \in uSignal
    BY <1>3 DEF SignalInv, NmiOncePerEdge
  <2>3. owed' <=> (Level' /\ ~Level) \/ (owed /\ Level')
    BY <1>3 DEF Owes
  <2>4. owed' <=> "NMIEDGE" \in u
    BY <2>2, <2>3
  <2> QED BY <1>1, <2>1, <2>4 DEF SignalInv, NmiOncePerEdge
<1> QED BY <1>1, <1>2, <1>3

LEMMA InvStep ==
  ASSUME SignalTypeOK, SignalInv, [SignalNext]_signalVars
  PROVE  SignalInv'
<1>a. /\ Level \in BOOLEAN /\ ("NMI" \in uSignal <=> Level)
      /\ "NMIEDGE" \in uSignal => "NMI" \in uSignal
  BY DEF SignalInv, Level, SignalTypeOK
\* What leaves the bits, the signal and its edge alone.
<1>b. ASSUME NEW u, Executes(u), UNCHANGED <<rdnmi, nmiEnable>>, Owes,
             "NMI" \in u <=> "NMI" \in uSignal,
             "NMIEDGE" \in u <=> "NMIEDGE" \in uSignal
      PROVE  SignalInv'
  <2>1. Level' = Level
    BY <1>b DEF Level
  <2> QED BY <1>a, <1>b, <2>1, InstructionStep
<1>1. ASSUME Owes, NEW b \in BOOLEAN, OtherOp(b) PROVE SignalInv'
  BY <1>1, <1>b DEF OtherOp
<1>2. ASSUME Owes, NEW nmi \in BOOLEAN, NEW irq \in BOOLEAN, WriteNmitimen(nmi, irq)
      PROVE  SignalInv'
  <2> DEFINE v == IF irq THEN uSignal ELSE uSignal \ {"IRQ"}
             u == SignalNMI(v, rdnmi /\ nmi)
  <2>1. Executes(u) /\ (Level' <=> rdnmi /\ nmi)
    BY <1>2 DEF WriteNmitimen, Level
  <2>2. /\ "NMI" \in v <=> "NMI" \in uSignal
        /\ "NMIEDGE" \in v <=> "NMIEDGE" \in uSignal
    OBVIOUS
  <2>3. (rdnmi /\ nmi) \in BOOLEAN
    OBVIOUS
  <2> HIDE DEF v
  <2>4. /\ "NMI" \in u <=> rdnmi /\ nmi
        /\ "NMIEDGE" \in u <=> (rdnmi /\ nmi) /\ ("NMI" \notin v \/ "NMIEDGE" \in v)
    BY <1>a, <2>2, <2>3, SignalFollows
  <2> HIDE DEF u
  <2> QED BY <1>a, <1>2, <2>1, <2>2, <2>4, InstructionStep
<1>3. ASSUME Owes, ReadRdnmi PROVE SignalInv'
  <2>1. Executes(SignalNMI(uSignal, FALSE)) /\ ~Level'
    BY <1>3 DEF ReadRdnmi, Level
  <2>2. /\ "NMI" \notin SignalNMI(uSignal, FALSE)
        /\ "NMIEDGE" \notin SignalNMI(uSignal, FALSE)
    BY DEF SignalNMI
  <2> QED BY <1>3, <2>1, <2>2, InstructionStep
<1>4. ASSUME Owes, ClearTimeup PROVE SignalInv'
  <2>1. /\ "NMI" \in uSignal \ {"IRQ"} <=> "NMI" \in uSignal
        /\ "NMIEDGE" \in uSignal \ {"IRQ"} <=> "NMIEDGE" \in uSignal
    OBVIOUS
  <2> QED BY <1>4, <1>b, <2>1 DEF ClearTimeup
<1>5. ASSUME Owes, NEW n, WriteMdmaen(n) PROVE SignalInv'
  <2> DEFINE u == IF n # 0 THEN uSignal \cup {"DMA"} ELSE uSignal
  <2>1. /\ "NMI" \in u <=> "NMI" \in uSignal
        /\ "NMIEDGE" \in u <=> "NMIEDGE" \in uSignal
    OBVIOUS
  <2>2. Executes(u) /\ UNCHANGED <<rdnmi, nmiEnable>>
    BY <1>5 DEF WriteMdmaen
  <2> HIDE DEF u
  <2> QED BY <1>5, <1>b, <2>1, <2>2
<1>6. ASSUME Owes, Wai PROVE SignalInv'
  <2>1. /\ point \in {"one", "run"} /\ UNCHANGED <<rdnmi, nmiEnable>>
        /\ "NMI" \in uSignal' <=> "NMI" \in uSignal
        /\ "NMIEDGE" \in uSignal' <=> "NMIEDGE" \in uSignal
        /\ IF point = "one" THEN point' = "nmi" ELSE point' \in {"top", "run"}
    BY <1>6 DEF Wai
  <2>2. Level' = Level
    BY <2>1 DEF Level
  <2> QED BY <1>a, <1>6, <2>1, <2>2 DEF SignalInv, NmiOncePerEdge, Owes
<1>7. ASSUME Owes, ServeDma PROVE SignalInv'
  <2>1. /\ point = "top" /\ point' = "top" /\ UNCHANGED <<rdnmi, nmiEnable>>
        /\ "NMI" \in uSignal' <=> "NMI" \in uSignal
        /\ "NMIEDGE" \in uSignal' <=> "NMIEDGE" \in uSignal
    BY <1>7 DEF ServeDma
  <2>2. Level' = Level
    BY <2>1 DEF Level
  <2> QED BY <1>a, <1>7, <2>1, <2>2 DEF SignalInv, NmiOncePerEdge, Owes
<1>8. ASSUME Owes, ServeEdge PROVE SignalInv'
  <2>1. /\ point = "top" /\ point' \in {"one", "nmi"} /\ UNCHANGED <<rdnmi, nmiEnable>>
        /\ uSignal' = uSignal /\ "NMIEDGE" \in uSignal
    BY <1>8 DEF ServeEdge
  <2>2. Level' = Level
    BY <2>1 DEF Level
  <2> QED BY <1>a, <1>8, <2>1, <2>2 DEF SignalInv, NmiOncePerEdge, Owes
<1>9. ASSUME Owes, ServeNMI PROVE SignalInv'
  <2>1. /\ point = "nmi" /\ point' = "run" /\ UNCHANGED <<rdnmi, nmiEnable>>
        /\ "NMI" \in uSignal' <=> "NMI" \in uSignal
        /\ "NMIEDGE" \notin uSignal'
    BY <1>9 DEF ServeNMI
  <2>2. Level' = Level
    BY <2>1 DEF Level
  <2> QED BY <1>a, <1>9, <2>1, <2>2 DEF SignalInv, NmiOncePerEdge, Owes
<1>10. ASSUME Owes, ServeIRQ PROVE SignalInv'
  <2>1. /\ point = "top" /\ point' = "run" /\ UNCHANGED <<rdnmi, nmiEnable>>
        /\ "NMI" \in uSignal' <=> "NMI" \in uSignal
        /\ "NMIEDGE" \in uSignal' <=> "NMIEDGE" \in uSignal
    BY <1>10 DEF ServeIRQ
  <2>2. Level' = Level
    BY <2>1 DEF Level
  <2> QED BY <1>a, <1>10, <2>1, <2>2 DEF SignalInv, NmiOncePerEdge, Owes
<1>11. ASSUME Owes, RaiseIRQ PROVE SignalInv'
  <2>1. /\ point \in {"top", "run"} /\ point' = "top" /\ UNCHANGED <<rdnmi, nmiEnable>>
        /\ "NMI" \in uSignal' <=> "NMI" \in uSignal
        /\ "NMIEDGE" \in uSignal' <=> "NMIEDGE" \in uSignal
    BY <1>11 DEF RaiseIRQ, Returned
  <2>2. Level' = Level
    BY <2>1 DEF Level
  <2> QED BY <1>a, <1>11, <2>1, <2>2 DEF SignalInv, NmiOncePerEdge, Owes
<1>12. ASSUME Owes, NEW irq \in BOOLEAN, NextScanline(irq) PROVE SignalInv'
  <2>1. /\ point \in {"top", "run"} /\ point' = "top"
        /\ nmiEnable' = nmiEnable /\ uSignal' = LineSignals(scanline')
        /\ rdnmi' = IF scanline' = PICTURE THEN TRUE
                    ELSE IF scanline' = 0 THEN FALSE ELSE rdnmi
    BY <1>12 DEF NextScanline, Returned
  <2>2. /\ "NMI" \in uSignal' <=> Level'
        /\ "NMIEDGE" \in uSignal' <=> Level' /\ (~Level \/ "NMIEDGE" \in uSignal)
    <3>1. CASE scanline' = PICTURE
      <4>1. uSignal' = SignalNMI(uSignal, nmiEnable) /\ (Level' <=> nmiEnable)
        BY <2>1, <3>1 DEF LineSignals, Level
      <4>2. nmiEnable \in BOOLEAN
        BY DEF SignalTypeOK
      <4> QED BY <1>a, <4>1, <4>2, SignalFollows
    <3>2. CASE scanline' # PICTURE /\ scanline' = 0
      <4>1. uSignal' = SignalNMI(uSignal, FALSE) /\ ~Level'
        BY <2>1, <3>2 DEF LineSignals, Level
      <4> QED BY <1>a, <4>1, SignalFollows
    <3>3. CASE scanline' # PICTURE /\ scanline' # 0
      <4>1. uSignal' = uSignal /\ Level' = Level
        BY <2>1, <3>3 DEF LineSignals, Level
      <4> QED BY <1>a, <4>1
    <3> QED BY <3>1, <3>2, <3>3
  <2>3. owed <=> "NMIEDGE" \in uSignal
    BY <2>1 DEF SignalInv, NmiOncePerEdge
  <2>4. owed' <=> (Level' /\ ~Level) \/ (owed /\ Level')
    BY <1>12, <2>1 DEF Owes
  <2>5. owed' <=> "NMIEDGE" \in uSignal'
    BY <2>2, <2>3, <2>4
  <2> QED BY <2>1, <2>2, <2>5 DEF SignalInv, NmiOncePerEdge
<1>13. CASE UNCHANGED signalVars
  BY <1>13 DEF signalVars, SignalInv, NmiOncePerEdge, Level
<1> QED
  BY <1>1, <1>2, <1>3, <1>4, <1>5, <1>6, <1>7, <1>8, <1>9, <1>10, <1>11, <1>12, <1>13
  DEF SignalNext, Instruction

-----------------------------------------------------------------------------
\* The signals, the registers behind them and where ExecuteCPU is stay in step.
THEOREM SignalsAgree == SignalSpec => [](SignalTypeOK /\ SignalInv)
<1>1. SignalInit => SignalTypeOK /\ SignalInv
  <2> SUFFICES ASSUME SignalInit PROVE SignalTypeOK /\ SignalInv
    OBVIOUS
  <2>1. SignalTypeOK
    <3>1. 0 \in 0 .. MAX_DMA /\ PART_CYCLES \in 0 .. PART_CYCLES /\ 0 \in 0 .. FRAME - 1
      BY SnesSignalsAssumption
    <3> QED BY <3>1 DEF SignalInit, SignalTypeOK
  <2>2. SignalInv
    BY DEF SignalInit, SignalInv, NmiOncePerEdge, Level
  <2> QED BY <2>1, <2>2
<1>2. (SignalTypeOK /\ SignalInv) /\ [SignalNext]_signalVars => (SignalTypeOK /\ SignalInv)'
  BY TypeStep, InvStep
<1> QED BY <1>1, <1>2, PTL DEF SignalSpec

\* One NMI for every time RDNMI and its enable bit come to be set together.
THEOREM NmiOncePerEdgeHolds == SignalSpec => []NmiOncePerEdge
<1>1. SignalInv => NmiOncePerEdge
  BY DEF SignalInv
<1> QED BY <1>1, SignalsAgree, PTL
=============================================================================
