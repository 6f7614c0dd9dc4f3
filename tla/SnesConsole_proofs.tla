-------------------------- MODULE SnesConsole_proofs -------------------------
(***************************************************************************)
(* Three parts of the console that MCConsole runs side by side.            *)
(*                                                                         *)
(* The picture, for any number of lines, any length of the queue and any   *)
(* accesses: what the PPU draws behind the CPU is what it would draw if    *)
(* every access were performed at once (SnesPicture).                      *)
(*                                                                         *)
(* The memory map (SnesMemMap), for a cartridge of any mapping and size:   *)
(* every page shows the memory that the tables say, and a line that        *)
(* describes more than a cartridge has repeats what it has.                *)
(*                                                                         *)
(* ADC and SBC (SNCpuAdder), of any operands in a register                 *)
(* of any width: the sums and differences are exact and the interpreters   *)
(* agree, digit by digit.                                                  *)
(***************************************************************************)
EXTENDS SnesPPU, SnesMemMap, SNCpuAdder, SNQueue_proofs, SequenceTheorems, FiniteSetTheorems, TLAPS

Entry == [uCycle : 0 .. FRAME_LINES - 1, write : PpuWrite]
Op == PpuWrite \cup PpuRead \cup {"EndFrame"}

\* The writes that entries of the queue stand for.
Writes(es) == [k \in 1 .. Len(es) |-> es[k].write]

LEMMA WritesType ==
  ASSUME NEW es \in Seq(Entry)
  PROVE  Writes(es) \in Seq(Op) /\ Len(Writes(es)) = Len(es)
<1>1. Len(es) \in Nat /\ \A k \in 1 .. Len(es) : es[k].write \in Op
  <2>1. \A k \in 1 .. Len(es) : es[k] \in Entry
    BY ElementOfSeq
  <2> QED BY <2>1 DEF Entry, Op
<1> QED BY <1>1 DEF Writes

LEMMA WritesAppend ==
  ASSUME NEW es \in Seq(Entry), NEW e \in Entry
  PROVE  Writes(Append(es, e)) = Append(Writes(es), e.write)
<1> DEFINE ws == Writes(Append(es, e))
           as == Append(Writes(es), e.write)
<1>1. /\ Append(es, e) \in Seq(Entry) /\ Len(Append(es, e)) = Len(es) + 1
      /\ \A i \in 1 .. Len(es) : Append(es, e)[i] = es[i]
      /\ Append(es, e)[Len(es) + 1] = e /\ Len(es) \in Nat
  BY AppendProperties
<1>2. e.write \in Op
  BY DEF Entry, Op
<1>3. /\ ws \in Seq(Op) /\ Len(ws) = Len(es) + 1
      /\ Writes(es) \in Seq(Op) /\ Len(Writes(es)) = Len(es)
  BY <1>1, WritesType
<1>4. /\ as \in Seq(Op) /\ Len(as) = Len(es) + 1
      /\ \A i \in 1 .. Len(es) : as[i] = Writes(es)[i]
      /\ as[Len(es) + 1] = e.write
  BY <1>2, <1>3, AppendProperties
<1>5. ASSUME NEW i \in 1 .. Len(es) + 1 PROVE ws[i] = as[i]
  <2>1. ws[i] = Append(es, e)[i].write
    BY <1>1 DEF Writes
  <2>2. CASE i = Len(es) + 1
    BY <1>1, <1>4, <2>1, <2>2
  <2>3. CASE i # Len(es) + 1
    <3>1. i \in 1 .. Len(es)
      BY <1>1, <2>3
    <3>2. as[i] = es[i].write
      BY <1>4, <3>1 DEF Writes
    <3> QED BY <1>1, <2>1, <3>1, <3>2
  <2> QED BY <2>2, <2>3
<1> QED BY <1>3, <1>4, <1>5, SeqEqual

\* The types of what SyncPPU makes of a state.
LEMMA SyncType ==
  ASSUME PpuTypeOK, NEW uLine \in Nat
  PROVE  /\ ppuQueue \in QueueOf(Entry) /\ PendingOps = Writes(Pending(ppuQueue))
         /\ SyncPerformed \in Seq(Op)
         /\ SyncDrawn(uLine) \in [1 .. PICTURE_LINES -> Nat]
<1>1. ppuQueue \in QueueOf(Entry)
  BY DEF PpuTypeOK, QueueOf, Entry
<1>2. PendingOps = Writes(Pending(ppuQueue))
  BY DEF PendingOps, Writes
<1>3. PendingOps \in Seq(Op) /\ performed \in Seq(Op) /\ Len(performed) \in Nat
  BY <1>1, <1>2, PendingType, WritesType DEF PpuTypeOK, Op
<1>4. SyncPerformed \in Seq(Op)
  BY <1>3, ConcatProperties DEF SyncPerformed
<1>5. \A r \in 1 .. PICTURE_LINES : CountBefore(ppuQueue, r) \in Nat
  BY <1>1, CountType
<1>6. ASSUME NEW r \in 1 .. PICTURE_LINES
      PROVE  (IF ~ppuVBlank /\ r \in ppuLine .. uLine
                THEN Len(performed) + CountBefore(ppuQueue, r) ELSE drawn[r]) \in Nat
  <2>1. drawn[r] \in Nat
    BY DEF PpuTypeOK
  <2>2. CountBefore(ppuQueue, r) \in Nat
    BY <1>5
  <2> QED BY <1>3, <2>1, <2>2
<1>7. SyncDrawn(uLine) \in [1 .. PICTURE_LINES -> Nat]
  BY <1>6 DEF SyncDrawn
<1> QED BY <1>1, <1>2, <1>4, <1>7

\* After SyncPPU nothing is pending and no line is left to draw.
LEMMA SyncCatchesUp ==
  ASSUME PpuTypeOK
  PROVE  /\ SyncLine(cpuLine) \in 0 .. PICTURE_LINES + 2 \/ ~PpuInv
         /\ ~ppuVBlank => SyncLine(cpuLine) > cpuLine
         /\ PpuInv /\ ~ppuVBlank => SyncLine(cpuLine) = cpuLine + 1
<1>1. cpuLine \in Nat /\ ppuLine \in 0 .. PICTURE_LINES + 2 /\ PICTURE_LINES \in Nat
  BY SnesPPUAssumption DEF PpuTypeOK
<1>2. PpuInv /\ ~ppuVBlank => cpuLine <= PICTURE_LINES /\ ppuLine <= cpuLine + 1
  BY <1>1 DEF PpuInv
<1> QED BY <1>1, <1>2 DEF SyncLine

LEMMA PpuInitInv == PpuInit => PpuTypeOK /\ PpuInv
<1> SUFFICES ASSUME PpuInit PROVE PpuTypeOK /\ PpuInv
  OBVIOUS
<1>1. /\ ppuQueue = [elements |-> << >>, iHead |-> 0] /\ cpuLine = 0 /\ ppuLine = 0
      /\ ~ppuVBlank /\ ~dma /\ performed = << >> /\ ppuVBlank \in BOOLEAN /\ dma \in BOOLEAN
  BY DEF PpuInit, SNQueueReset
<1>2. drawn \in [1 .. PICTURE_LINES -> Nat]
  BY DEF PpuInit
<1>3. ppuQueue \in QueueOf(Entry) /\ IsEmpty(ppuQueue) /\ Len(ppuQueue.elements) = 0
  <2>1. << >> \in Seq(Entry) /\ Len(<< >>) = 0
    BY EmptySeq
  <2> QED BY <1>1, <2>1 DEF QueueOf, IsEmpty
<1>4. << >> \in Seq(Op)
  BY EmptySeq
<1>5. PpuTypeOK
  BY <1>1, <1>2, <1>3, <1>4, SnesPPUAssumption, SNQueueAssumption
     DEF PpuTypeOK, QueueOf, Entry, Op
<1>6. Len(Pending(ppuQueue)) = 0
  BY <1>3, EmptyPending, EmptySeq
<1>7. PpuInv
  BY <1>1, <1>6, SnesPPUAssumption DEF PpuInv
<1> QED BY <1>5, <1>7

-----------------------------------------------------------------------------
\* The queue stays within its array, and holds nothing of a later line.
LEMMA EnqueueFits ==
  ASSUME NEW E, NEW q \in QueueOf(E), NEW e \in E,
         Len(q.elements) <= SNQUEUE_SIZE, HasRoom(q)
  PROVE  Len(Enqueue(q, e).elements) <= SNQUEUE_SIZE
<1>1. CASE IsEmpty(q)
  <2>1. Enqueue(q, e).elements = <<e>>
    BY <1>1 DEF Enqueue
  <2> QED BY <2>1, SNQueueAssumption
<1>2. CASE ~IsEmpty(q)
  <2>1. Enqueue(q, e).elements = Append(q.elements, e)
    BY <1>2 DEF Enqueue, QueueOf
  <2>2. q.elements \in Seq(E) /\ Len(q.elements) \in Nat /\ Len(q.elements) < SNQUEUE_SIZE
    BY <1>2 DEF HasRoom, QueueOf
  <2> QED BY <2>1, <2>2, AppendProperties, SNQueueAssumption
<1> QED BY <1>1, <1>2

LEMMA EmptyFits ==
  ASSUME PpuTypeOK
  PROVE  /\ DequeueAll(ppuQueue) \in QueueOf(Entry)
         /\ HasRoom(DequeueAll(ppuQueue)) /\ Pending(DequeueAll(ppuQueue)) = << >>
         /\ Len(DequeueAll(ppuQueue).elements) <= SNQUEUE_SIZE
<1>1. ppuQueue \in QueueOf(Entry)
  BY DEF PpuTypeOK, QueueOf, Entry
<1>2. DequeueAll(ppuQueue).elements = ppuQueue.elements
  BY <1>1 DEF DequeueAll, QueueOf
<1> QED BY <1>1, <1>2, DequeueAllEmpties DEF HasRoom, PpuTypeOK

\* A state whose queue and line are as they should be.
LEMMA QueueOK ==
  ASSUME ppuQueue' \in QueueOf(Entry), Len(ppuQueue.elements)' <= SNQUEUE_SIZE,
         cpuLine' \in 0 .. FRAME_LINES - 1, ppuLine' \in 0 .. PICTURE_LINES + 2,
         ppuVBlank' \in BOOLEAN, dma' \in BOOLEAN,
         performed' \in Seq(Op), drawn' \in [1 .. PICTURE_LINES -> Nat]
  PROVE  PpuTypeOK'
  BY DEF PpuTypeOK, QueueOf, Entry, Op

LEMMA PpuInvStep == PpuTypeOK /\ PpuInv /\ [PpuNext]_ppuVars => PpuTypeOK' /\ PpuInv'
<1> SUFFICES ASSUME PpuTypeOK, PpuInv, [PpuNext]_ppuVars PROVE PpuTypeOK' /\ PpuInv'
  OBVIOUS
<1>a. /\ PICTURE_LINES \in Nat \ {0} /\ FRAME_LINES \in Nat
      /\ PICTURE_LINES + 1 < FRAME_LINES
  BY SnesPPUAssumption
<1>b. /\ cpuLine \in 0 .. FRAME_LINES - 1 /\ ppuLine \in 0 .. PICTURE_LINES + 2
      /\ ppuVBlank \in BOOLEAN /\ dma \in BOOLEAN /\ performed \in Seq(Op)
      /\ drawn \in [1 .. PICTURE_LINES -> Nat] /\ cpuLine \in Nat
      /\ ppuQueue \in QueueOf(Entry) /\ Len(ppuQueue.elements) <= SNQUEUE_SIZE
  BY <1>a DEF PpuTypeOK, QueueOf, Entry, Op
<1>c. /\ SyncPerformed \in Seq(Op)
      /\ SyncDrawn(cpuLine) \in [1 .. PICTURE_LINES -> Nat]
      /\ SyncDrawn(cpuLine + 1) \in [1 .. PICTURE_LINES -> Nat]
  <2>1. cpuLine \in Nat /\ cpuLine + 1 \in Nat
    BY <1>b
  <2>2. SyncPerformed \in Seq(Op) /\ SyncDrawn(cpuLine) \in [1 .. PICTURE_LINES -> Nat]
    BY <2>1, SyncType
  <2>3. SyncDrawn(cpuLine + 1) \in [1 .. PICTURE_LINES -> Nat]
    BY <2>1, SyncType
  <2> QED BY <2>2, <2>3
<1>d. /\ SyncLine(cpuLine) \in 0 .. PICTURE_LINES + 2
      /\ ~ppuVBlank => SyncLine(cpuLine) = cpuLine + 1
  BY SyncCatchesUp
<1>e. /\ ppuVBlank <=> cpuLine > PICTURE_LINES
      /\ ~ppuVBlank => ppuLine <= cpuLine + 1
      /\ dma => ppuVBlank \/ ppuLine > cpuLine
      /\ \A k \in 1 .. Len(Pending(ppuQueue)) : Pending(ppuQueue)[k].uCycle <= cpuLine
  BY DEF PpuInv
<1>f. Len(<< >>) = 0 /\ << >> \in Seq(Op)
  BY EmptySeq
\* A queue that is synchronised.
<1>g. ASSUME ppuQueue' = DequeueAll(ppuQueue)
      PROVE  /\ ppuQueue' \in QueueOf(Entry) /\ Len(ppuQueue.elements)' <= SNQUEUE_SIZE
             /\ Len(Pending(ppuQueue)') = 0
  BY <1>f, <1>g, EmptyFits
\* SyncPPU, and then operations on the PPU.
<1>h. ASSUME NEW ops \in Seq(Op), SyncThen(ops), dma' \in BOOLEAN,
             UNCHANGED <<cpuLine, ppuVBlank>>
      PROVE  PpuTypeOK' /\ PpuInv'
  <2>1. performed' \in Seq(Op)
    BY <1>c, <1>h, ConcatProperties DEF SyncThen
  <2>2. /\ ppuQueue' \in QueueOf(Entry) /\ Len(ppuQueue.elements)' <= SNQUEUE_SIZE
        /\ Len(Pending(ppuQueue)') = 0
    BY <1>g, <1>h DEF SyncThen
  <2>3. ppuLine' = SyncLine(cpuLine) /\ drawn' = SyncDrawn(cpuLine)
    BY <1>h DEF SyncThen
  <2>4. PpuTypeOK'
    BY <1>b, <1>c, <1>d, <1>h, <2>1, <2>2, <2>3, QueueOK
  <2>5. PpuInv'
    BY <1>b, <1>d, <1>e, <1>h, <2>2, <2>3 DEF PpuInv
  <2> QED BY <2>4, <2>5
<1>1. ASSUME NEW w \in PpuWrite, WritePpu(w) PROVE PpuTypeOK' /\ PpuInv'
  <2> DEFINE e == [uCycle |-> cpuLine, write |-> w]
  <2>0. e \in Entry /\ e.uCycle = cpuLine
    BY <1>b DEF Entry
  <2>1. UNCHANGED <<cpuLine, ppuVBlank, dma>>
    BY <1>1 DEF WritePpu
  <2>2. CASE HasRoom(ppuQueue) /\ ppuQueue' = Enqueue(ppuQueue, e)
              /\ UNCHANGED <<ppuLine, performed, drawn>>
    <3>1. /\ ppuQueue' \in QueueOf(Entry) /\ Len(ppuQueue.elements)' <= SNQUEUE_SIZE
          /\ Pending(ppuQueue)' = Append(Pending(ppuQueue), e)
      BY <1>b, <2>0, <2>2, EnqueueAppends, EnqueueFits
    <3>2. Pending(ppuQueue) \in Seq(Entry) /\ Len(Pending(ppuQueue)) \in Nat
      BY <1>b, PendingType
    <3>3. \A k \in 1 .. Len(Pending(ppuQueue))' : Pending(ppuQueue)'[k].uCycle <= cpuLine
      <4>1. /\ Len(Pending(ppuQueue)') = Len(Pending(ppuQueue)) + 1
            /\ \A k \in 1 .. Len(Pending(ppuQueue)) : Pending(ppuQueue)'[k] = Pending(ppuQueue)[k]
            /\ Pending(ppuQueue)'[Len(Pending(ppuQueue)) + 1] = e
        BY <2>0, <3>1, <3>2, AppendProperties
      <4>2. ASSUME NEW k \in 1 .. Len(Pending(ppuQueue))'
            PROVE  Pending(ppuQueue)'[k].uCycle <= cpuLine
        <5>1. k = Len(Pending(ppuQueue)) + 1 \/ k \in 1 .. Len(Pending(ppuQueue))
          BY <3>2, <4>1
        <5>2. CASE k = Len(Pending(ppuQueue)) + 1
          BY <1>b, <2>0, <4>1, <5>2
        <5>3. CASE k \in 1 .. Len(Pending(ppuQueue))
          BY <1>e, <4>1, <5>3
        <5> QED BY <5>1, <5>2, <5>3
      <4> QED BY <4>2
    <3>4. PpuTypeOK'
      BY <1>b, <2>1, <2>2, <3>1, QueueOK
    <3>5. PpuInv'
      BY <1>e, <2>1, <2>2, <3>3 DEF PpuInv
    <3> QED BY <3>4, <3>5
  <2>3. CASE /\ performed' = SyncPerformed /\ drawn' = SyncDrawn(cpuLine)
             /\ ppuLine' = SyncLine(cpuLine)
             /\ ppuQueue' = Enqueue(DequeueAll(ppuQueue), e)
    <3>1. /\ ppuQueue' \in QueueOf(Entry) /\ Len(ppuQueue.elements)' <= SNQUEUE_SIZE
          /\ Pending(ppuQueue)' = Append(<< >>, e)
      BY <2>0, <2>3, EmptyFits, EnqueueAppends, EnqueueFits
    <3>2. Len(Pending(ppuQueue))' = 1 /\ Pending(ppuQueue)'[1] = e
      BY <3>1
    <3>3. PpuTypeOK'
      BY <1>b, <1>c, <1>d, <2>1, <2>3, <3>1, QueueOK
    <3>4. \A k \in 1 .. Len(Pending(ppuQueue))' : Pending(ppuQueue)'[k].uCycle <= cpuLine
      BY <1>b, <2>0, <3>2
    <3>5. PpuInv'
      BY <1>b, <1>d, <1>e, <2>1, <2>3, <3>4 DEF PpuInv
    <3> QED BY <3>3, <3>5
  <2> QED BY <1>1, <2>2, <2>3 DEF WritePpu
<1>2. ASSUME NEW w \in PpuWrite, DmaWrite(w) PROVE PpuTypeOK' /\ PpuInv'
  <2>1. performed' \in Seq(Op)
    BY <1>2, <1>b, AppendProperties DEF DmaWrite, Op
  <2>2. UNCHANGED <<cpuLine, ppuLine, ppuVBlank, ppuQueue, dma, drawn>>
    BY <1>2 DEF DmaWrite
  <2>3. PpuTypeOK'
    BY <1>b, <2>1, <2>2, QueueOK
  <2> QED BY <1>e, <2>2, <2>3 DEF PpuInv
<1>3. ASSUME NEW a \in PpuRead, ReadPpu(a) PROVE PpuTypeOK' /\ PpuInv'
  <2>1. <<a>> \in Seq(Op)
    BY DEF Op
  <2> QED BY <1>3, <1>b, <1>h, <2>1 DEF ReadPpu
<1>4. CASE BeginDma
  BY <1>4, <1>f, <1>h DEF BeginDma
<1>5. CASE EndDma
  <2>1. ~dma' /\ dma' \in BOOLEAN
        /\ UNCHANGED <<cpuLine, ppuLine, ppuVBlank, ppuQueue, performed, drawn>>
    BY <1>5 DEF EndDma
  <2>2. PpuTypeOK'
    BY <1>b, <2>1, QueueOK
  <2> QED BY <1>e, <2>1, <2>2 DEF PpuInv
<1>6. CASE EndLine
  <2>1. /\ ~dma /\ cpuLine # PICTURE_LINES /\ cpuLine + 1 < FRAME_LINES
        /\ cpuLine' = cpuLine + 1
        /\ UNCHANGED <<ppuLine, ppuVBlank, ppuQueue, dma, performed, drawn>>
    BY <1>6 DEF EndLine
  <2>2. cpuLine' \in 0 .. FRAME_LINES - 1
    BY <1>a, <1>b, <2>1
  <2>3. PpuTypeOK'
    BY <1>b, <2>1, <2>2, QueueOK
  <2>4. \A k \in 1 .. Len(Pending(ppuQueue)) : Pending(ppuQueue)[k] \in Entry
    BY <1>b, PendingType
  <2>5. \A k \in 1 .. Len(Pending(ppuQueue)) : Pending(ppuQueue)[k].uCycle <= cpuLine + 1
    <3>1. \A k \in 1 .. Len(Pending(ppuQueue)) : Pending(ppuQueue)[k].uCycle \in Int
      BY <1>a, <2>4 DEF Entry
    <3> QED BY <1>b, <1>e, <3>1
  <2>6. (ppuVBlank <=> cpuLine + 1 > PICTURE_LINES) /\ (~ppuVBlank => ppuLine <= cpuLine + 2)
    BY <1>a, <1>b, <1>e, <2>1
  <2>7. cpuLine + 2 = cpuLine' + 1
    BY <1>b, <2>1
  <2>8. ~ppuVBlank' => ppuLine' <= cpuLine' + 1
    BY <2>1, <2>6, <2>7
  <2>9. \A k \in 1 .. Len(Pending(ppuQueue))' : Pending(ppuQueue)'[k].uCycle <= cpuLine'
    BY <2>1, <2>5
  <2>10. PpuInv'
    BY <2>1, <2>6, <2>8, <2>9 DEF PpuInv
  <2> QED BY <2>3, <2>10
<1>7. CASE EndPicture
  <2>1. /\ ~dma /\ dma' = dma /\ cpuLine = PICTURE_LINES /\ cpuLine' = cpuLine + 1
        /\ performed' = Append(SyncPerformed, "EndFrame") /\ drawn' = SyncDrawn(cpuLine + 1)
        /\ ppuLine' = SyncLine(cpuLine + 1) /\ ppuQueue' = DequeueAll(ppuQueue)
        /\ ppuVBlank' = TRUE
    BY <1>7 DEF EndPicture
  <2>2. performed' \in Seq(Op)
    BY <1>c, <2>1, AppendProperties DEF Op
  <2>3. ppuLine' \in 0 .. PICTURE_LINES + 2
    BY <1>a, <1>b, <2>1 DEF SyncLine
  <2>4. cpuLine' \in 0 .. FRAME_LINES - 1 /\ cpuLine' > PICTURE_LINES
    BY <1>a, <1>b, <2>1
  <2>5. PpuTypeOK'
    BY <1>b, <1>c, <1>g, <2>1, <2>2, <2>3, <2>4, QueueOK
  <2>6. Len(Pending(ppuQueue)') = 0
    BY <1>g, <2>1
  <2>7. PpuInv'
    BY <2>1, <2>4, <2>6 DEF PpuInv
  <2> QED BY <2>5, <2>7
<1>8. CASE EndVBlank
  <2>1. /\ ~dma /\ dma' = dma /\ cpuLine' = 0 /\ ppuLine' = 0 /\ ppuVBlank' = FALSE
        /\ performed' = << >> /\ drawn' = SyncDrawn(cpuLine + 1)
        /\ ppuQueue' = DequeueAll(ppuQueue)
    BY <1>8 DEF EndVBlank
  <2>2. cpuLine' \in 0 .. FRAME_LINES - 1 /\ ppuLine' \in 0 .. PICTURE_LINES + 2
        /\ ~(cpuLine' > PICTURE_LINES) /\ ppuLine' <= cpuLine' + 1
    BY <1>a, <2>1
  <2>3. PpuTypeOK'
    BY <1>b, <1>c, <1>f, <1>g, <2>1, <2>2, QueueOK
  <2>4. Len(Pending(ppuQueue)') = 0
    BY <1>g, <2>1
  <2>5. PpuInv'
    BY <2>1, <2>2, <2>4 DEF PpuInv
  <2> QED BY <2>3, <2>5
<1>9. CASE UNCHANGED ppuVars
  <2>1. UNCHANGED <<cpuLine, ppuLine, ppuVBlank, ppuQueue, dma, performed, drawn>>
    BY <1>9 DEF ppuVars
  <2>2. PpuTypeOK'
    BY <1>b, <2>1, QueueOK
  <2> QED BY <1>e, <2>1, <2>2 DEF PpuInv
<1> QED BY <1>1, <1>2, <1>3, <1>4, <1>5, <1>6, <1>7, <1>8, <1>9 DEF PpuNext

-----------------------------------------------------------------------------
\* SyncPPU performs at once what it was going to be, and draws what it would.
LEMMA SyncIsInvisible ==
  ASSUME PpuTypeOK, PpuInv, NEW ops \in Seq(Op), SyncThen(ops),
         UNCHANGED <<cpuLine, ppuVBlank>>
  PROVE  /\ SyncPerformed' = SyncPerformed \o ops
         /\ SyncDrawn(cpuLine)' = SyncDrawn(cpuLine)
<1>1. Pending(ppuQueue)' = << >>
  BY EmptyFits DEF SyncThen
<1>2. PendingOps' = << >>
  <2>1. Len(Pending(ppuQueue)') = 0
    BY <1>1, EmptySeq
  <2>2. PendingOps' = [k \in 1 .. 0 |-> Pending(ppuQueue)'[k].write]
    BY <2>1 DEF PendingOps
  <2> QED BY <2>2
<1>3. SyncPerformed' = SyncPerformed \o ops
  <2>1. cpuLine \in Nat
    BY SnesPPUAssumption DEF PpuTypeOK
  <2>2. SyncPerformed \o ops \in Seq(Op)
    BY <2>1, SyncType, ConcatProperties
  <2>3. performed' = SyncPerformed \o ops
    BY DEF SyncThen
  <2>4. SyncPerformed' = (SyncPerformed \o ops) \o << >>
    BY <1>2, <2>3 DEF SyncPerformed
  <2> QED BY <2>2, <2>4, ConcatEmptySeq
<1>4. ASSUME NEW r \in 1 .. PICTURE_LINES
      PROVE  ~(~ppuVBlank' /\ r \in ppuLine' .. cpuLine')
  <2>1. ppuLine' = SyncLine(cpuLine) /\ cpuLine \in Nat
    BY SnesPPUAssumption DEF SyncThen, PpuTypeOK
  <2>2. ~ppuVBlank => ppuLine' > cpuLine /\ ppuLine' \in Nat
    BY <2>1, SyncCatchesUp
  <2> QED BY <2>1, <2>2
<1>5. SyncDrawn(cpuLine)' = [r \in 1 .. PICTURE_LINES |-> drawn'[r]]
  BY <1>4 DEF SyncDrawn
<1>6. drawn' = SyncDrawn(cpuLine)
  BY DEF SyncThen
<1>7. SyncDrawn(cpuLine)' = [r \in 1 .. PICTURE_LINES |-> SyncDrawn(cpuLine)[r]]
  BY <1>5, <1>6
<1>8. SyncDrawn(cpuLine) = [r \in 1 .. PICTURE_LINES |-> SyncDrawn(cpuLine)[r]]
  BY DEF SyncDrawn
<1> QED BY <1>3, <1>7, <1>8

\* Every step of the console is a step of the picture, or none.
LEMMA PictureStep ==
  ASSUME ~DmaMixes, PpuTypeOK, PpuInv, PpuTypeOK', PpuInv', [PpuNext]_ppuVars
  PROVE  [Picture!Next]_(Picture!vars)
<1>a. /\ PICTURE_LINES \in Nat \ {0} /\ FRAME_LINES \in Nat
      /\ PICTURE_LINES + 1 < FRAME_LINES
      /\ cpuLine \in Nat /\ cpuLine \in 0 .. FRAME_LINES - 1
      /\ ppuLine \in Nat /\ performed \in Seq(Op) /\ Len(performed) \in Nat
  BY SnesPPUAssumption DEF PpuTypeOK, Op
<1>b. /\ ppuQueue \in QueueOf(Entry) /\ PendingOps = Writes(Pending(ppuQueue))
      /\ SyncPerformed \in Seq(Op) /\ Pending(ppuQueue) \in Seq(Entry)
      /\ PendingOps \in Seq(Op) /\ Len(PendingOps) = Len(Pending(ppuQueue))
  BY <1>a, SyncType, PendingType, WritesType
<1>c. /\ ppuVBlank <=> cpuLine > PICTURE_LINES
      /\ ~ppuVBlank => ppuLine <= cpuLine + 1
      /\ dma => ppuVBlank \/ ppuLine > cpuLine
      /\ \A k \in 1 .. Len(Pending(ppuQueue)) : Pending(ppuQueue)[k].uCycle <= cpuLine
  BY DEF PpuInv
\* An access, and a step that nothing can be seen of.
<1>d. ASSUME NEW a \in PpuWrite \cup PpuRead, cpuLine' = cpuLine,
             SyncPerformed' = Append(SyncPerformed, a),
             SyncDrawn(cpuLine)' = SyncDrawn(cpuLine)
      PROVE  Picture!Next
  BY <1>d DEF Picture!Next, Picture!Access
<1>e. ASSUME cpuLine' = cpuLine, SyncPerformed' = SyncPerformed,
             SyncDrawn(cpuLine)' = SyncDrawn(cpuLine)
      PROVE  UNCHANGED Picture!vars
  BY <1>e DEF Picture!vars
\* The next line, and what of the lines is drawn then.
<1>f. ASSUME cpuLine' = cpuLine + 1, cpuLine + 1 < FRAME_LINES,
             SyncPerformed' = IF cpuLine = PICTURE_LINES
                              THEN Append(SyncPerformed, "EndFrame") ELSE SyncPerformed,
             \A r \in 1 .. PICTURE_LINES :
               SyncDrawn(cpuLine)'[r] = IF r = cpuLine + 1 THEN Len(SyncPerformed)
                                        ELSE SyncDrawn(cpuLine)[r]
      PROVE  Picture!Next
  <2>1. DOMAIN SyncDrawn(cpuLine) = 1 .. PICTURE_LINES
    BY DEF SyncDrawn
  <2>2. SyncDrawn(cpuLine)' = [r \in 1 .. PICTURE_LINES |-> SyncDrawn(cpuLine)'[r]]
    BY DEF SyncDrawn
  <2>3. SyncDrawn(cpuLine)' = [r \in DOMAIN SyncDrawn(cpuLine) |->
                                IF r = cpuLine + 1 THEN Len(SyncPerformed)
                                ELSE SyncDrawn(cpuLine)[r]]
    BY <1>f, <2>1, <2>2
  <2> QED BY <1>f, <2>3 DEF Picture!Next, Picture!NextLine
<1>1. ASSUME NEW w \in PpuWrite, WritePpu(w) PROVE Picture!Next
  <2> DEFINE e == [uCycle |-> cpuLine, write |-> w]
  <2>0. e \in Entry /\ e.uCycle = cpuLine /\ e.write = w /\ w \in Op
    BY <1>a DEF Entry, Op
  <2>1. cpuLine' = cpuLine /\ ppuVBlank' = ppuVBlank
    BY <1>1 DEF WritePpu
  <2>2. CASE ppuQueue' = Enqueue(ppuQueue, e) /\ UNCHANGED <<ppuLine, performed, drawn>>
    <3>1. Pending(ppuQueue)' = Append(Pending(ppuQueue), e)
      BY <1>b, <2>0, <2>2, EnqueueAppends
    <3>2. PendingOps' = Append(PendingOps, w)
      <4>1. PendingOps' = Writes(Pending(ppuQueue)')
        BY DEF PendingOps, Writes
      <4> QED BY <1>b, <2>0, <3>1, <4>1, WritesAppend
    <3>3. SyncPerformed' = Append(SyncPerformed, w)
      <4>1. SyncPerformed' = performed \o (PendingOps \o <<w>>)
        BY <1>b, <2>0, <2>2, <3>2, AppendIsConcat DEF SyncPerformed
      <4>2. <<w>> \in Seq(Op)
        BY <2>0
      <4>3. SyncPerformed' = SyncPerformed \o <<w>>
        BY <1>a, <1>b, <4>1, <4>2, ConcatAssociative DEF SyncPerformed
      <4> QED BY <1>b, <2>0, <4>3, AppendIsConcat
    <3>4. SyncDrawn(cpuLine)' = SyncDrawn(cpuLine)
      <4>1. ASSUME NEW r \in 1 .. PICTURE_LINES, r \in ppuLine .. cpuLine
            PROVE  CountBefore(ppuQueue, r)' = CountBefore(ppuQueue, r)
        <5>1. ~(e.uCycle < r)
          BY <1>a, <2>0, <4>1
        <5> QED BY <1>b, <2>0, <2>2, <5>1, CountEnqueue
      <4> QED BY <2>1, <2>2, <4>1 DEF SyncDrawn
    <3> QED BY <1>d, <2>1, <3>3, <3>4
  <2>3. CASE /\ performed' = SyncPerformed /\ drawn' = SyncDrawn(cpuLine)
             /\ ppuLine' = SyncLine(cpuLine)
             /\ ppuQueue' = Enqueue(DequeueAll(ppuQueue), e)
    <3>1. Pending(ppuQueue)' = Append(<< >>, e)
      BY <2>0, <2>3, EmptyFits, EnqueueAppends
    <3>2. PendingOps' = <<w>>
      <4>1. Len(Pending(ppuQueue)') = 1 /\ Pending(ppuQueue)'[1] = e
        BY <3>1
      <4>2. PendingOps' = [k \in 1 .. 1 |-> w]
        BY <2>0, <4>1 DEF PendingOps
      <4> QED BY <4>2
    <3>3. SyncPerformed' = Append(SyncPerformed, w)
      BY <1>b, <2>0, <2>3, <3>2, AppendIsConcat DEF SyncPerformed
    <3>4. \A r \in 1 .. PICTURE_LINES : ~(~ppuVBlank' /\ r \in ppuLine' .. cpuLine')
      <4>1. ~ppuVBlank => ppuLine' > cpuLine /\ ppuLine' \in Nat
        BY <1>a, <2>3, SyncCatchesUp
      <4> QED BY <1>a, <2>1, <4>1
    <3>5. SyncDrawn(cpuLine)' = [r \in 1 .. PICTURE_LINES |-> drawn'[r]]
      BY <3>4 DEF SyncDrawn
    <3>6. SyncDrawn(cpuLine) = [r \in 1 .. PICTURE_LINES |-> SyncDrawn(cpuLine)[r]]
      BY DEF SyncDrawn
    <3> QED BY <1>d, <2>1, <2>3, <3>3, <3>5, <3>6
  <2> QED BY <1>1, <2>2, <2>3 DEF WritePpu
<1>2. ASSUME NEW w \in PpuWrite, DmaWrite(w) PROVE Picture!Next
  <2>1. /\ dma /\ IsEmpty(ppuQueue) /\ performed' = Append(performed, w)
        /\ UNCHANGED <<cpuLine, ppuLine, ppuVBlank, ppuQueue, dma, drawn>>
    BY <1>2 DEF DmaWrite
  <2>2. w \in Op /\ Append(performed, w) \in Seq(Op)
    BY <1>a, AppendProperties DEF Op
  <2>3. PendingOps = << >> /\ PendingOps' = << >>
    <3>1. Len(Pending(ppuQueue)) = 0 /\ Pending(ppuQueue)' = Pending(ppuQueue)
      BY <1>b, <2>1, EmptyPending, EmptySeq
    <3>2. PendingOps = [k \in 1 .. 0 |-> Pending(ppuQueue)[k].write]
      BY <3>1 DEF PendingOps
    <3>3. PendingOps' = PendingOps
      BY <3>1 DEF PendingOps
    <3> QED BY <3>2, <3>3
  <2>4. SyncPerformed' = Append(SyncPerformed, w)
    <3>1. SyncPerformed = performed /\ SyncPerformed' = Append(performed, w)
      BY <1>a, <2>1, <2>2, <2>3, ConcatEmptySeq DEF SyncPerformed
    <3> QED BY <3>1
  <2>5. \A r \in 1 .. PICTURE_LINES : ~(~ppuVBlank /\ r \in ppuLine .. cpuLine)
    BY <1>a, <1>c, <2>1
  <2>6. SyncDrawn(cpuLine)' = SyncDrawn(cpuLine)
    BY <2>1, <2>5 DEF SyncDrawn
  <2> QED BY <1>d, <2>1, <2>4, <2>6
<1>3. ASSUME NEW a \in PpuRead, ReadPpu(a) PROVE Picture!Next
  <2>1. <<a>> \in Seq(Op) /\ a \in Op
    BY DEF Op
  <2>2. SyncThen(<<a>>) /\ UNCHANGED <<cpuLine, ppuVBlank>>
    BY <1>3 DEF ReadPpu
  <2>3. /\ SyncPerformed' = SyncPerformed \o <<a>>
        /\ SyncDrawn(cpuLine)' = SyncDrawn(cpuLine)
    BY <2>1, <2>2, SyncIsInvisible
  <2> QED BY <1>b, <1>d, <2>1, <2>2, <2>3, AppendIsConcat
<1>4. CASE BeginDma
  <2>1. SyncThen(<< >>) /\ UNCHANGED <<cpuLine, ppuVBlank>>
    BY <1>4 DEF BeginDma
  <2>2. /\ SyncPerformed' = SyncPerformed \o << >>
        /\ SyncDrawn(cpuLine)' = SyncDrawn(cpuLine)
    BY <2>1, SyncIsInvisible, EmptySeq
  <2> QED BY <1>b, <1>e, <2>1, <2>2, ConcatEmptySeq
<1>5. CASE EndDma
  <2>1. UNCHANGED <<cpuLine, ppuLine, ppuVBlank, ppuQueue, performed, drawn>>
    BY <1>5 DEF EndDma
  <2> QED BY <1>e, <2>1 DEF SyncPerformed, SyncDrawn, PendingOps
<1>6. CASE EndLine
  <2>1. /\ cpuLine # PICTURE_LINES /\ cpuLine + 1 < FRAME_LINES
        /\ cpuLine' = cpuLine + 1
        /\ UNCHANGED <<ppuLine, ppuVBlank, ppuQueue, performed, drawn>>
    BY <1>6 DEF EndLine
  <2>2. SyncPerformed' = SyncPerformed
    BY <2>1 DEF SyncPerformed, PendingOps
  <2>3. CountBefore(ppuQueue, cpuLine + 1) = Len(Pending(ppuQueue))
    <3>1. \A k \in 1 .. Len(Pending(ppuQueue)) : Pending(ppuQueue)[k].uCycle < cpuLine + 1
      <4>1. ASSUME NEW k \in 1 .. Len(Pending(ppuQueue))
            PROVE  Pending(ppuQueue)[k].uCycle \in Int
        <5>1. Pending(ppuQueue)[k] \in Entry
          BY <1>b, PendingType
        <5>2. Pending(ppuQueue)[k].uCycle \in 0 .. FRAME_LINES - 1
          BY <5>1 DEF Entry
        <5> QED BY <1>a, <5>2
      <4> QED BY <1>a, <1>c, <4>1
    <3> QED BY <1>b, <3>1, CountAll
  <2>4. Len(SyncPerformed) = Len(performed) + Len(Pending(ppuQueue))
    BY <1>a, <1>b, ConcatProperties DEF SyncPerformed
  <2>5. ASSUME NEW r \in 1 .. PICTURE_LINES
        PROVE  SyncDrawn(cpuLine)'[r] = IF r = cpuLine + 1 THEN Len(SyncPerformed)
                                        ELSE SyncDrawn(cpuLine)[r]
    <3>1. SyncDrawn(cpuLine)'[r] = IF ~ppuVBlank /\ r \in ppuLine .. cpuLine + 1
                                   THEN Len(performed) + CountBefore(ppuQueue, r) ELSE drawn[r]
      BY <2>1 DEF SyncDrawn
    <3>2. SyncDrawn(cpuLine)[r] = IF ~ppuVBlank /\ r \in ppuLine .. cpuLine
                                  THEN Len(performed) + CountBefore(ppuQueue, r) ELSE drawn[r]
      BY DEF SyncDrawn
    <3>3. CASE r = cpuLine + 1
      <4>1. ~ppuVBlank /\ r \in ppuLine .. cpuLine + 1
        BY <1>a, <1>c, <3>3
      <4> QED BY <2>3, <2>4, <3>1, <3>3, <4>1
    <3>4. CASE r # cpuLine + 1
      <4>1. r \in ppuLine .. cpuLine + 1 <=> r \in ppuLine .. cpuLine
        BY <1>a, <3>4
      <4> QED BY <3>1, <3>2, <3>4, <4>1
    <3> QED BY <3>3, <3>4
  <2> QED BY <1>f, <2>1, <2>2, <2>5
<1>7. CASE EndPicture
  <2>1. /\ cpuLine = PICTURE_LINES /\ cpuLine' = cpuLine + 1
        /\ performed' = Append(SyncPerformed, "EndFrame") /\ drawn' = SyncDrawn(cpuLine + 1)
        /\ ppuQueue' = DequeueAll(ppuQueue) /\ ppuVBlank' = TRUE
    BY <1>7 DEF EndPicture
  <2>2. cpuLine + 1 < FRAME_LINES
    BY <1>a, <2>1
  <2>3. PendingOps' = << >>
    <3>1. Len(Pending(ppuQueue)') = 0
      BY <2>1, EmptyFits, EmptySeq
    <3>2. PendingOps' = [k \in 1 .. 0 |-> Pending(ppuQueue)'[k].write]
      BY <3>1 DEF PendingOps
    <3> QED BY <3>2
  <2>4. SyncPerformed' = Append(SyncPerformed, "EndFrame")
    <3>1. Append(SyncPerformed, "EndFrame") \in Seq(Op)
      BY <1>b, AppendProperties DEF Op
    <3> QED BY <2>1, <2>3, <3>1, ConcatEmptySeq DEF SyncPerformed
  <2>5. ASSUME NEW r \in 1 .. PICTURE_LINES
        PROVE  SyncDrawn(cpuLine)'[r] = IF r = cpuLine + 1 THEN Len(SyncPerformed)
                                        ELSE SyncDrawn(cpuLine)[r]
    <3>1. r # cpuLine + 1 /\ (r \in ppuLine .. cpuLine + 1 <=> r \in ppuLine .. cpuLine)
      BY <1>a, <2>1
    <3>2. SyncDrawn(cpuLine)'[r] = SyncDrawn(cpuLine + 1)[r]
      BY <2>1 DEF SyncDrawn
    <3>3. SyncDrawn(cpuLine + 1)[r] = SyncDrawn(cpuLine)[r]
      BY <3>1 DEF SyncDrawn
    <3> QED BY <3>1, <3>2, <3>3
  <2> QED BY <1>f, <2>1, <2>2, <2>4, <2>5
<1>8. CASE EndVBlank
  <2>1. /\ cpuLine + 1 = FRAME_LINES /\ cpuLine' = 0 /\ ppuLine' = 0 /\ ppuVBlank' = FALSE
        /\ performed' = << >> /\ drawn' = SyncDrawn(cpuLine + 1)
        /\ ppuQueue' = DequeueAll(ppuQueue)
    BY <1>8 DEF EndVBlank
  <2>2. SyncPerformed' = << >>
    <3>1. Len(Pending(ppuQueue)') = 0
      BY <2>1, EmptyFits, EmptySeq
    <3>2. PendingOps' = [k \in 1 .. 0 |-> Pending(ppuQueue)'[k].write]
      BY <3>1 DEF PendingOps
    <3>3. PendingOps' = << >>
      BY <3>2
    <3>4. << >> \in Seq(Op)
      BY EmptySeq
    <3> QED BY <2>1, <3>3, <3>4, ConcatEmptySeq DEF SyncPerformed
  <2>3. ppuVBlank
    BY <1>a, <1>c, <2>1
  <2>4. \A r \in 1 .. PICTURE_LINES : ~(r \in ppuLine' .. cpuLine')
    BY <2>1
  <2>5. SyncDrawn(cpuLine)' = SyncDrawn(cpuLine)
    <3>1. SyncDrawn(cpuLine)' = [r \in 1 .. PICTURE_LINES |-> drawn'[r]]
      BY <2>4 DEF SyncDrawn
    <3>2. \A r \in 1 .. PICTURE_LINES : drawn'[r] = SyncDrawn(cpuLine)[r]
      BY <2>1, <2>3 DEF SyncDrawn
    <3>3. SyncDrawn(cpuLine) = [r \in 1 .. PICTURE_LINES |-> SyncDrawn(cpuLine)[r]]
      BY DEF SyncDrawn
    <3> QED BY <3>1, <3>2, <3>3
  <2> QED BY <2>1, <2>2, <2>5 DEF Picture!Next, Picture!NextFrame
<1>9. CASE UNCHANGED ppuVars
  <2>1. UNCHANGED <<cpuLine, ppuLine, ppuVBlank, ppuQueue, dma, performed, drawn>>
    BY <1>9 DEF ppuVars
  <2> QED BY <1>e, <2>1 DEF SyncPerformed, SyncDrawn, PendingOps
<1> QED BY <1>1, <1>2, <1>3, <1>4, <1>5, <1>6, <1>7, <1>8, <1>9 DEF PpuNext

-----------------------------------------------------------------------------
\* The types of CPU line, PPU line and queue, how far the PPU is behind, and that
\* nothing queued is of a line to come.
THEOREM PpuInvariant == PpuSpec => [](PpuTypeOK /\ PpuInv)
<1>1. PpuInit => PpuTypeOK /\ PpuInv
  BY PpuInitInv
<1>2. PpuTypeOK /\ PpuInv /\ [PpuNext]_ppuVars => (PpuTypeOK /\ PpuInv)'
  BY PpuInvStep
<1> QED BY <1>1, <1>2, PTL DEF PpuSpec

\* The console core with its queue, its PPU that lags behind and its DMA that
\* goes past the queue shows the picture of one that performs every access at
\* once (SyncPPU, Write2000, Read2000, ExecuteFrame).
THEOREM ImplementsPicture == ASSUME ~DmaMixes PROVE PpuSpec => PictureSpec
<1>1. PpuInit => Picture!Init
  <2> SUFFICES ASSUME PpuInit PROVE Picture!Init
    OBVIOUS
  <2>1. PpuTypeOK /\ cpuLine = 0 /\ performed = << >> /\ ppuQueue = [elements |-> << >>, iHead |-> 0]
    BY PpuInitInv DEF PpuInit, SNQueueReset
  <2>2. ppuQueue \in QueueOf(Entry) /\ IsEmpty(ppuQueue)
    BY <2>1, EmptySeq DEF PpuTypeOK, QueueOf, Entry, IsEmpty
  <2>3. Len(Pending(ppuQueue)) = 0
    BY <2>2, EmptyPending, EmptySeq
  <2>4. PendingOps = << >>
    <3>1. PendingOps = [k \in 1 .. 0 |-> Pending(ppuQueue)[k].write]
      BY <2>3 DEF PendingOps
    <3> QED BY <3>1
  <2>5. SyncPerformed = << >>
    <3>1. << >> \in Seq(Op)
      BY EmptySeq
    <3> QED BY <2>1, <2>4, <3>1, ConcatEmptySeq DEF SyncPerformed
  <2>6. SyncDrawn(cpuLine) = [r \in 1 .. PICTURE_LINES |-> 0]
    <3>1. \A r \in 1 .. PICTURE_LINES : ~(r \in ppuLine .. cpuLine)
      BY DEF PpuInit
    <3> QED BY <3>1 DEF SyncDrawn, PpuInit
  <2> QED BY <2>1, <2>5, <2>6 DEF Picture!Init
<1>2. PpuTypeOK /\ PpuInv /\ (PpuTypeOK /\ PpuInv)' /\ [PpuNext]_ppuVars
        => [Picture!Next]_(Picture!vars)
  BY PictureStep
<1> QED BY <1>1, <1>2, PpuInvariant, PTL DEF PpuSpec, PictureSpec, Picture!Spec

-----------------------------------------------------------------------------
\* The memory map

\* The two tables, line by line.
LEMMA LoRomLines ==
  /\ DOMAIN LoRom = 1 .. 12
  /\ LoRom[1] = Line(0, 111, 4, 7, "ROM") /\ LoRom[2] = Line(128, 239, 4, 7, "ROM")
  /\ LoRom[3] = Line(64, 111, 0, 3, "ROM") /\ LoRom[4] = Line(192, 239, 0, 3, "ROM")
  /\ LoRom[5] = Line(112, 119, 0, 3, "SRAM") /\ LoRom[6] = Line(126, 127, 0, 7, "RAM")
  /\ LoRom[7] = Line(0, 63, 0, 0, "LORAM") /\ LoRom[8] = Line(0, 63, 1, 1, "PPU0")
  /\ LoRom[9] = Line(0, 63, 2, 2, "PPU1") /\ LoRom[10] = Line(128, 191, 0, 0, "LORAM")
  /\ LoRom[11] = Line(128, 191, 1, 1, "PPU0") /\ LoRom[12] = Line(128, 191, 2, 2, "PPU1")
BY DEF LoRom, RegisterLines

LEMMA HiRomLines ==
  /\ DOMAIN HiRom = 1 .. 20
  /\ HiRom[1] = Line(0, 63, 0, 7, "ROM") /\ HiRom[2] = Line(64, 111, 0, 7, "ROM")
  /\ HiRom[3] = Line(128, 191, 0, 7, "ROM") /\ HiRom[4] = Line(192, 255, 0, 7, "ROM")
  /\ HiRom[5] = Line(112, 119, 0, 3, "SRAM")
  /\ \A n \in 6 .. 9 : HiRom[n] = Line(16 * (n - 6), 16 * (n - 6) + 15, 3, 3, "SRAM")
  /\ \A n \in 10 .. 13 : HiRom[n] = Line(16 * (n - 2), 16 * (n - 2) + 15, 3, 3, "SRAM")
  /\ HiRom[14] = Line(126, 127, 0, 7, "RAM")
  /\ HiRom[15] = Line(0, 63, 0, 0, "LORAM") /\ HiRom[16] = Line(0, 63, 1, 1, "PPU0")
  /\ HiRom[17] = Line(0, 63, 2, 2, "PPU1") /\ HiRom[18] = Line(128, 191, 0, 0, "LORAM")
  /\ HiRom[19] = Line(128, 191, 1, 1, "PPU0") /\ HiRom[20] = Line(128, 191, 2, 2, "PPU1")
BY DEF HiRom, RegisterLines

\* The last line that covers a page is the one that it shows.
LEMMA WinnerIs ==
  ASSUME NEW T \in SUBSET Nat, NEW n \in T, \A m \in T : m <= n
  PROVE  Winner(T) = n
<1>1. \A k \in T : (\A m \in T : m <= k) => k = n
  OBVIOUS
<1> QED BY <1>1 DEF Winner

\* What a line shows in a page that it covers.
InLine(r, line, b, p) ==
  [type |-> line.type,
   kb |-> Offset(r, line, b) + (IF Repeats(r, line) THEN (8 * (p - line.p1)) % Part(r, line)
                                ELSE 8 * (p - line.p1))]

\* A later line wins: the last one that covers a page shows it.
LEMMA LastLineShows ==
  ASSUME NEW r, NEW b, NEW p, NEW n \in Nat, DOMAIN Table(r) \subseteq Nat,
         n \in DOMAIN Table(r), Covers(r, Table(r)[n], b, p),
         \A m \in DOMAIN Table(r) : Covers(r, Table(r)[m], b, p) => m <= n
  PROVE  Shows(r, b, p) = InLine(r, Table(r)[n], b, p)
<1> DEFINE lines == {m \in DOMAIN Table(r) : Covers(r, Table(r)[m], b, p)}
<1>1. lines \in SUBSET Nat /\ n \in lines /\ \A m \in lines : m <= n
  OBVIOUS
<1>2. Winner(lines) = n
  <2> HIDE DEF lines
  <2> QED BY <1>1, WinnerIs
<1>3. Shows(r, b, p) = IF lines = {} THEN [type |-> "NONE", kb |-> 0]
                       ELSE InLine(r, Table(r)[Winner(lines)], b, p)
  BY DEF Shows, InLine
<1> HIDE DEF lines
<1> QED BY <1>1, <1>2, <1>3

\* A page that some line covers shows what one of the lines says.
LEMMA ALineShows ==
  ASSUME NEW r, NEW b, NEW p, NEW N \in Nat, DOMAIN Table(r) = 1 .. N
  PROVE  \/ Shows(r, b, p) = [type |-> "NONE", kb |-> 0]
         \/ \E n \in 1 .. N : /\ Covers(r, Table(r)[n], b, p)
                              /\ Shows(r, b, p) = InLine(r, Table(r)[n], b, p)
<1> DEFINE lines == {m \in 1 .. N : Covers(r, Table(r)[m], b, p)}
           T == {N - m : m \in lines}
<1>1. CASE lines = {}
  BY <1>1 DEF Shows
<1>2. CASE lines # {}
  <2>1. T \subseteq Nat /\ T # {}
    BY <1>2
  <2>2. PICK x \in T : \A y \in T : x <= y
    <3> HIDE DEF T
    <3> QED BY <2>1, LeastOf
  <2>3. PICK n \in lines : x = N - n
    OBVIOUS
  <2>4. ASSUME NEW m \in lines PROVE m <= n
    <3>1. N - m \in T /\ m \in Int /\ n \in Int
      OBVIOUS
    <3> HIDE DEF T, lines
    <3> QED BY <2>2, <2>3, <3>1
  <2>5. Shows(r, b, p) = InLine(r, Table(r)[n], b, p)
    BY <2>4, LastLineShows
  <2> QED BY <2>5
<1> QED BY <1>1, <1>2

-----------------------------------------------------------------------------
\* A ROM that the program has loaded.
Cartridge ==
  { r \in [mapping : {"LOROM", "HIROM"}, kb : 1 .. BUFFER_KB, sram : {0, 2, 4, 8}] :
      r.kb % 8 = 0 }

\* What LoadRom gives is a cartridge of either mapping that fits the buffer.
LEMMA LoadedIsCartridge ==
  ASSUME NEW file \in GameFile, CanLoad(file)
  PROVE  LoadedRom(file) \in Cartridge
<1>1. RomBytes(file) \in RomKB
  <2>1. file.kb \in RomKB /\ file.swc \in {0} \cup RomKB
    BY DEF GameFile
  <2> QED BY <2>1 DEF RomBytes
<1>2. RomBytes(file) \in 1 .. BUFFER_KB /\ RomBytes(file) % 8 = 0
  BY <1>1, MemMapAssumption
<1>3. file.sram \in {0, 2, 4, 8}
  <2>1. file.sram \in SramKB
    BY DEF GameFile
  <2>2. SramKB \subseteq {0, 2, 4, 8}
    BY MemMapAssumption
  <2> QED BY <2>1, <2>2
<1>4. LoadedRom(file) =
        [mapping |-> LoadedRom(file).mapping, kb |-> RomBytes(file), sram |-> LoadedRom(file).sram]
      /\ LoadedRom(file).mapping \in {"LOROM", "HIROM"}
      /\ LoadedRom(file).sram \in {0, file.sram}
  BY DEF LoadedRom
<1> QED BY <1>2, <1>3, <1>4 DEF Cartridge

\* How much of its memory a line shows in a bank, when the memory is smaller than its
\* part and when it is not.
LEMMA PartOfRom ==
  ASSUME NEW r \in Cartridge, NEW line, line.type = "ROM", NEW kb \in {32, 64},
         8 * (line.p2 - line.p1 + 1) = kb
  PROVE  /\ ~Repeats(r, line)
         /\ r.kb <= kb => Part(r, line) = r.kb /\ Parts(r, line) = 1
         /\ r.kb > kb => Part(r, line) = kb /\ Parts(r, line) = (r.kb + kb - 1) \div kb
<1>1. r.kb \in Nat \ {0} /\ MemKB(r, line.type) = r.kb
  BY DEF Cartridge, MemKB
<1>2. Part(r, line) = IF kb >= r.kb THEN r.kb ELSE kb
  BY <1>1 DEF Part
<1>3. r.kb <= kb => Parts(r, line) = 1
  <2> SUFFICES ASSUME r.kb <= kb PROVE (r.kb + r.kb - 1) \div r.kb = 1
    BY <1>1, <1>2 DEF Parts
  <2> QED BY <1>1
<1> QED BY <1>1, <1>2, <1>3 DEF Repeats, Parts

\* Where page n of a ROM is: in a bank of a line whose part has w pages.
LEMMA RomPageAt ==
  ASSUME NEW r \in Cartridge, NEW line, line.type = "ROM", NEW w \in {4, 8},
         line.p1 \in Nat, line.p2 = line.p1 + w - 1, line.b1 \in Nat, line.b2 \in Nat,
         NEW n \in Nat, 8 * n < r.kb, line.b1 + (n \div w) <= line.b2
  PROVE  LET b == line.b1 + (n \div w)
             p == line.p1 + (n % w)
         IN  /\ b \in line.b1 .. line.b2 /\ p \in line.p1 .. line.p2
             /\ Covers(r, line, b, p)
             /\ InLine(r, line, b, p) = [type |-> "ROM", kb |-> 8 * n]
<1> DEFINE b == line.b1 + (n \div w)
           p == line.p1 + (n % w)
<1>1. /\ n \div w \in Nat /\ n % w \in 0 .. w - 1 /\ n = w * (n \div w) + (n % w)
  <2>1. w \in Nat \ {0} /\ n \in Int
    OBVIOUS
  <2>2. n \div w \in Int /\ n % w \in 0 .. w - 1 /\ n = w * (n \div w) + (n % w)
    BY <2>1, DivMod
  <2>3. CASE w = 4
    BY <2>2, <2>3
  <2>4. CASE w = 8
    BY <2>2, <2>4
  <2> QED BY <2>3, <2>4
<1>2. b \in line.b1 .. line.b2 /\ p \in line.p1 .. line.p2 /\ p - line.p1 = n % w
      /\ b - line.b1 = n \div w
  BY <1>1
<1>3. r.kb \in Nat \ {0} /\ r.kb % 8 = 0
  BY DEF Cartridge
<1>4. 8 * (line.p2 - line.p1 + 1) = 8 * w /\ 8 * w \in {32, 64}
  OBVIOUS
<1>5. /\ ~Repeats(r, line)
      /\ r.kb <= 8 * w => Part(r, line) = r.kb /\ Parts(r, line) = 1
      /\ r.kb > 8 * w => Part(r, line) = 8 * w /\ Parts(r, line) = (r.kb + 8 * w - 1) \div (8 * w)
  BY <1>4, PartOfRom
<1> HIDE DEF b, p
<1>6. CASE r.kb <= 8 * w
  <2>1. n < w
    BY <1>3, <1>6
  <2>2. n \div w = 0 /\ n % w = n
    BY <2>1
  <2>3. Offset(r, line, b) = 0
    BY <1>2, <1>3, <1>5, <1>6, <2>2 DEF Offset
  <2>4. n < Aligned(r.kb) /\ Aligned(r.kb) \in Nat
    BY <1>3 DEF Aligned
  <2>5. Part(r, line) > 0 /\ p < line.p1 + Aligned(Part(r, line))
    <3>1. p \in Int /\ p = line.p1 + n
      BY <1>2, <2>2 DEF p
    <3> QED BY <1>3, <1>5, <1>6, <2>4, <3>1
  <2>6. Covers(r, line, b, p)
    BY <1>2, <2>5 DEF Covers
  <2> QED BY <1>2, <1>5, <2>2, <2>3, <2>6 DEF InLine, b, p
<1>7. CASE r.kb > 8 * w
  <2>1. Part(r, line) = 8 * w /\ Parts(r, line) \in Nat /\ Parts(r, line) > n \div w
    BY <1>3, <1>5, <1>7
  <2>2. (n \div w) % Parts(r, line) = n \div w
    BY <1>1, <2>1
  <2>3. Offset(r, line, b) = 8 * w * (n \div w)
    BY <1>2, <2>1, <2>2 DEF Offset
  <2>4. Aligned(8 * w) = w
    BY DEF Aligned
  <2>7. Part(r, line) > 0 /\ p < line.p1 + Aligned(Part(r, line))
    BY <1>1, <1>2, <2>1, <2>4
  <2>5. Covers(r, line, b, p)
    BY <1>2, <2>7 DEF Covers
  <2>6. 8 * w * (n \div w) + 8 * (n % w) = 8 * n
    <3>1. CASE w = 4
      BY <1>1, <3>1
    <3>2. CASE w = 8
      BY <1>1, <3>2
    <3> QED BY <3>1, <3>2
  <2> QED BY <1>2, <1>5, <2>3, <2>5, <2>6 DEF InLine, b, p
<1> QED BY <1>3, <1>6, <1>7

\* The types of a cartridge's fields.
LEMMA CartridgeTypes ==
  ASSUME NEW r \in Cartridge
  PROVE  /\ r.kb \in Nat \ {0} /\ r.kb <= 4096 /\ r.kb <= BUFFER_KB /\ r.kb % 8 = 0
         /\ r.mapping \in {"LOROM", "HIROM"} /\ r.sram \in {0, 2, 4, 8}
<1>1. BUFFER_KB \in Nat /\ BUFFER_KB <= 4096
  BY MemMapAssumption
<1>2. r.kb \in 1 .. BUFFER_KB /\ r.kb % 8 = 0
  BY DEF Cartridge
<1>3. r.mapping \in {"LOROM", "HIROM"} /\ r.sram \in {0, 2, 4, 8}
  BY DEF Cartridge
<1> QED BY <1>1, <1>2, <1>3

\* Some page of some bank shows this of that memory.
IsShown(r, type, kb) ==
  \E b \in 0 .. 255, p \in 0 .. 7 : Shows(r, b, p) = [type |-> type, kb |-> kb]

LEMMA ShownHere ==
  ASSUME NEW r, NEW type, NEW kb, NEW b \in 0 .. 255, NEW p \in 0 .. 7,
         Shows(r, b, p) = [type |-> type, kb |-> kb]
  PROVE  IsShown(r, type, kb)
BY ZenonT(20) DEF IsShown

LEMMA TableAndRoom ==
  ASSUME NEW r \in Cartridge
  PROVE  \/ Table(r) = LoRom /\ Room(r) = 3584
         \/ Table(r) = HiRom /\ Room(r) = BUFFER_KB
BY CartridgeTypes DEF Table, Room

\* Every page of a ROM is shown, of a LoROM if the banks have room for it.
LEMMA RomIsShown ==
  ASSUME NEW r \in Cartridge, NEW n \in Nat, 8 * n < r.kb,
         8 * n < Room(r)
  PROVE  IsShown(r, "ROM", 8 * n)
<1>1. r.kb \in Nat /\ r.kb <= 4096
  BY CartridgeTypes
<1>2. CASE Table(r) = LoRom /\ Room(r) = 3584
  <2> DEFINE line == Line(128, 239, 4, 7, "ROM")
             bank == 128 + (n \div 4)
             page == 4 + (n % 4)
  <2>1. /\ line.type = "ROM" /\ line.p1 = 4 /\ line.p2 = 7 /\ line.b1 = 128 /\ line.b2 = 239
    BY DEF Line
  <2>2. n \div 4 \in 0 .. 111 /\ n % 4 \in 0 .. 3
    BY <1>2
  <2>3. Covers(r, line, bank, page) /\ InLine(r, line, bank, page) = [type |-> "ROM", kb |-> 8 * n]
    <3> HIDE DEF line
    <3> QED BY <2>1, <2>2, RomPageAt
  <2>4. bank \in 128 .. 239 /\ page \in 4 .. 7
    BY <2>2
  <2>5. Table(r) = LoRom /\ DOMAIN Table(r) = 1 .. 12 /\ Table(r)[2] = line
    BY <1>2, LoRomLines
  <2> HIDE DEF bank, page, line
  <2>6. ASSUME NEW m \in 3 .. 12 PROVE ~Covers(r, Table(r)[m], bank, page)
    BY <2>4, <2>5, LoRomLines DEF Covers, Line
  <2>7. Shows(r, bank, page) = InLine(r, line, bank, page)
    BY <2>3, <2>5, <2>6, LastLineShows
  <2>8. bank \in 0 .. 255 /\ page \in 0 .. 7 /\ Shows(r, bank, page) = [type |-> "ROM", kb |-> 8 * n]
    BY <2>3, <2>4, <2>7
  <2> QED BY <2>8, ShownHere
<1>3. CASE Table(r) = HiRom
  <2> DEFINE line == Line(192, 255, 0, 7, "ROM")
             bank == 192 + (n \div 8)
             page == n % 8
  <2>1. /\ line.type = "ROM" /\ line.p1 = 0 /\ line.p2 = 7 /\ line.b1 = 192 /\ line.b2 = 255
    BY DEF Line
  <2>2. n \div 8 \in 0 .. 63 /\ n % 8 \in 0 .. 7 /\ 0 + (n % 8) = n % 8
    BY <1>1
  <2>3. Covers(r, line, bank, page) /\ InLine(r, line, bank, page) = [type |-> "ROM", kb |-> 8 * n]
    <3> HIDE DEF line
    <3> QED BY <2>1, <2>2, RomPageAt
  <2>4. bank \in 192 .. 255 /\ page \in 0 .. 7
    BY <2>2
  <2>5. Table(r) = HiRom /\ DOMAIN Table(r) = 1 .. 20 /\ Table(r)[4] = line
    BY <1>3, HiRomLines
  <2> HIDE DEF bank, page, line
  <2>6. ASSUME NEW m \in 5 .. 20 PROVE ~Covers(r, Table(r)[m], bank, page)
    <3>1. CASE m \in 6 .. 9
      BY <2>4, <2>5, <3>1, HiRomLines DEF Covers, Line
    <3>2. CASE m \in 10 .. 13
      BY <2>4, <2>5, <3>2, HiRomLines DEF Covers, Line
    <3>3. CASE m \in {5} \cup 14 .. 20
      BY <2>4, <2>5, <3>3, HiRomLines DEF Covers, Line
    <3> QED BY <3>1, <3>2, <3>3
  <2>7. Shows(r, bank, page) = InLine(r, line, bank, page)
    <3>1. \A m \in DOMAIN Table(r) : Covers(r, Table(r)[m], bank, page) => m <= 4
      BY <2>5, <2>6
    <3>2. DOMAIN Table(r) \subseteq Nat /\ 4 \in DOMAIN Table(r)
      BY <2>5
    <3>3. Covers(r, Table(r)[4], bank, page)
      BY <2>3, <2>5
    <3>4. Shows(r, bank, page) = InLine(r, Table(r)[4], bank, page)
      BY <3>1, <3>2, <3>3, LastLineShows
    <3> QED BY <2>5, <3>4
  <2>8. bank \in 0 .. 255 /\ page \in 0 .. 7 /\ Shows(r, bank, page) = [type |-> "ROM", kb |-> 8 * n]
    BY <2>3, <2>4, <2>7
  <2> QED BY <2>8, ShownHere
<1> QED BY <1>2, <1>3, TableAndRoom

\* Nothing of a ROM is shown from beyond the buffer it is in.
LEMMA RomInBuffer ==
  ASSUME NEW r \in Cartridge, NEW line, line.type = "ROM", NEW w \in {4, 8},
         line.p1 \in Nat, line.p2 = line.p1 + w - 1, line.b1 \in Nat, line.b2 \in Nat,
         NEW b \in Nat, NEW p \in Nat, Covers(r, line, b, p)
  PROVE  InLine(r, line, b, p).kb \in Nat /\ InLine(r, line, b, p).kb + 8 <= BUFFER_KB
<1>1. r.kb \in Nat \ {0} /\ r.kb % 8 = 0 /\ r.kb <= BUFFER_KB
      /\ BUFFER_KB \in Nat
  BY MemMapAssumption DEF Cartridge
<1>2. 8 * (line.p2 - line.p1 + 1) = 8 * w /\ 8 * w \in {32, 64}
  OBVIOUS
<1>3. /\ ~Repeats(r, line)
      /\ r.kb <= 8 * w => Part(r, line) = r.kb /\ Parts(r, line) = 1
      /\ r.kb > 8 * w => Part(r, line) = 8 * w /\ Parts(r, line) = (r.kb + 8 * w - 1) \div (8 * w)
  BY <1>2, PartOfRom
<1>4. /\ b \in line.b1 .. line.b2 /\ p \in line.p1 .. line.p2
      /\ p < line.p1 + Aligned(Part(r, line))
  BY <1>3 DEF Covers
<1> DEFINE i == b - line.b1
           k == p - line.p1
<1>5. i \in Nat /\ k \in Nat /\ k < w
  BY <1>4
<1>6. InLine(r, line, b, p).kb = Offset(r, line, b) + 8 * k
  BY <1>3 DEF InLine
<1>7. CASE r.kb <= 8 * w
  <2>1. Offset(r, line, b) = 0
    BY <1>1, <1>3, <1>5, <1>7 DEF Offset
  <2>2. Aligned(r.kb) \in Nat /\ 8 * Aligned(r.kb) = r.kb
    BY <1>1 DEF Aligned
  <2>3. k < Aligned(r.kb)
    BY <1>3, <1>4, <1>7, <2>2
  <2> HIDE DEF k
  <2> QED BY <1>1, <1>5, <1>6, <2>1, <2>2, <2>3
<1>8. CASE r.kb > 8 * w
  <2> DEFINE j == i % Parts(r, line)
  <2>1. Parts(r, line) \in Nat \ {0} /\ 8 * w * Parts(r, line) <= BUFFER_KB
    <3>1. CASE w = 4
      BY <1>1, <1>3, <1>8, <3>1, MemMapAssumption
    <3>2. CASE w = 8
      BY <1>1, <1>3, <1>8, <3>2, MemMapAssumption
    <3> QED BY <3>1, <3>2
  <2>2. j \in 0 .. Parts(r, line) - 1
    <3>1. i \in Int
      BY <1>5
    <3> HIDE DEF i
    <3> QED BY <2>1, <3>1, DivMod
  <2>3. Offset(r, line, b) = j * (8 * w)
    BY <1>3, <1>8 DEF Offset
  <2> HIDE DEF i, j, k
  <2>4. j * (8 * w) + 8 * k + 8 <= 8 * w * Parts(r, line) /\ j * (8 * w) \in Nat
    <3>1. CASE w = 4
      BY <1>5, <2>1, <2>2, <3>1
    <3>2. CASE w = 8
      BY <1>5, <2>1, <2>2, <3>2
    <3> QED BY <3>1, <3>2
  <2> QED BY <1>1, <1>5, <1>6, <2>1, <2>3, <2>4
<1> QED BY <1>1, <1>7, <1>8

\* What each line of a table is, by the memory that it maps.
IsRomLine(line, w) ==
  /\ line.type = "ROM" /\ w \in {4, 8}
  /\ line.p1 \in Nat /\ line.p2 = line.p1 + w - 1 /\ line.b1 \in Nat /\ line.b2 \in Nat
IsSramLine(line, w) ==
  /\ line.type = "SRAM" /\ w \in {1, 4}
  /\ line.p1 \in Nat /\ line.p2 = line.p1 + w - 1 /\ line.b1 \in Nat /\ line.b2 \in Nat
IsLine(line) ==
  \/ \E w \in {4, 8} : IsRomLine(line, w)
  \/ \E w \in {1, 4} : IsSramLine(line, w)
  \/ line = Line(126, 127, 0, 7, "RAM")
  \/ line.type \in {"LORAM", "PPU0", "PPU1"}

\* Every line of a table maps one of the four kinds of memory.
LEMMA LinesAre ==
  ASSUME NEW r \in Cartridge
  PROVE  \E N \in Nat : DOMAIN Table(r) = 1 .. N /\ \A n \in 1 .. N : IsLine(Table(r)[n])
<1>1. \A b1 \in Nat, b2 \in Nat : IsLine(Line(b1, b2, 4, 7, "ROM"))
                                   /\ IsLine(Line(b1, b2, 0, 3, "ROM"))
  <2>1. \A b1 \in Nat, b2 \in Nat : IsRomLine(Line(b1, b2, 4, 7, "ROM"), 4)
                                   /\ IsRomLine(Line(b1, b2, 0, 3, "ROM"), 4)
    BY DEF IsRomLine, Line
  <2> QED BY <2>1 DEF IsLine
<1>2. \A b1 \in Nat, b2 \in Nat : IsLine(Line(b1, b2, 0, 7, "ROM"))
  <2>1. \A b1 \in Nat, b2 \in Nat : IsRomLine(Line(b1, b2, 0, 7, "ROM"), 8)
    BY DEF IsRomLine, Line
  <2> QED BY <2>1 DEF IsLine
<1>3. \A b1 \in Nat, b2 \in Nat : IsLine(Line(b1, b2, 0, 3, "SRAM"))
                                   /\ IsLine(Line(b1, b2, 3, 3, "SRAM"))
  <2>1. \A b1 \in Nat, b2 \in Nat : IsSramLine(Line(b1, b2, 0, 3, "SRAM"), 4)
                                   /\ IsSramLine(Line(b1, b2, 3, 3, "SRAM"), 1)
    BY DEF IsSramLine, Line
  <2> QED BY <2>1 DEF IsLine
<1>4. \A b1 \in Nat, b2 \in Nat : IsLine(Line(b1, b2, 0, 0, "LORAM"))
         /\ IsLine(Line(b1, b2, 1, 1, "PPU0")) /\ IsLine(Line(b1, b2, 2, 2, "PPU1"))
  BY DEF IsLine, Line
<1>5. IsLine(Line(126, 127, 0, 7, "RAM"))
  BY DEF IsLine
<1>6. CASE Table(r) = LoRom
  <2>1. \A n \in 1 .. 12 : IsLine(LoRom[n])
    <3>1. \A n \in 1 .. 12 : n \in {1, 2, 3, 4, 5, 6, 7, 8, 9, 10, 11, 12}
      OBVIOUS
    <3> QED BY <1>1, <1>3, <1>4, <1>5, <3>1, LoRomLines
  <2> QED BY <1>6, <2>1, LoRomLines
<1>7. CASE Table(r) = HiRom
  <2>1. \A n \in 6 .. 9 : IsLine(HiRom[n])
    <3>1. \A n \in 6 .. 9 : 16 * (n - 6) \in Nat /\ 16 * (n - 6) + 15 \in Nat
      OBVIOUS
    <3> QED BY <1>3, <3>1, HiRomLines
  <2>2. \A n \in 10 .. 13 : IsLine(HiRom[n])
    <3>1. \A n \in 10 .. 13 : 16 * (n - 2) \in Nat /\ 16 * (n - 2) + 15 \in Nat
      OBVIOUS
    <3> QED BY <1>3, <3>1, HiRomLines
  <2>3. \A n \in (1 .. 5) \cup (14 .. 20) : IsLine(HiRom[n])
    <3>1. \A n \in (1 .. 5) \cup (14 .. 20) : n \in {1, 2, 3, 4, 5, 14, 15, 16, 17, 18, 19, 20}
      OBVIOUS
    <3> QED BY <1>2, <1>3, <1>4, <1>5, <3>1, HiRomLines
  <2>4. \A n \in 1 .. 20 : IsLine(HiRom[n])
    BY <2>1, <2>2, <2>3
  <2> QED BY <1>7, <2>4, HiRomLines
<1> QED BY <1>6, <1>7, TableAndRoom

\* What a page shows comes from a line that covers it.
LEMMA ShownIsInLine ==
  ASSUME NEW r \in Cartridge, NEW b, NEW p, Shows(r, b, p).type # "NONE"
  PROVE  \E line : /\ IsLine(line) /\ Covers(r, line, b, p)
                   /\ Shows(r, b, p) = InLine(r, line, b, p)
                   /\ Shows(r, b, p).type = line.type
<1>1. PICK N \in Nat : DOMAIN Table(r) = 1 .. N /\ \A n \in 1 .. N : IsLine(Table(r)[n])
  BY LinesAre
<1>2. PICK n \in 1 .. N : /\ Covers(r, Table(r)[n], b, p)
                          /\ Shows(r, b, p) = InLine(r, Table(r)[n], b, p)
  BY <1>1, ALineShows
<1>3. InLine(r, Table(r)[n], b, p).type = Table(r)[n].type
  BY DEF InLine
<1> QED BY <1>1, <1>2, <1>3

\* A page that shows ROM shows no more than the buffer.
LEMMA ShownRom ==
  ASSUME NEW r \in Cartridge, NEW b \in 0 .. 255, NEW p \in 0 .. 7, Shows(r, b, p).type = "ROM"
  PROVE  Shows(r, b, p).kb \in Nat /\ Shows(r, b, p).kb + 8 <= BUFFER_KB
<1>1. PICK line : /\ IsLine(line) /\ Covers(r, line, b, p)
                  /\ Shows(r, b, p) = InLine(r, line, b, p) /\ line.type = "ROM"
  BY ShownIsInLine
<1>2. PICK w \in {4, 8} : IsRomLine(line, w)
  <2>1. Line(126, 127, 0, 7, "RAM").type = "RAM"
    BY DEF Line
  <2>2. \A v : ~IsSramLine(line, v)
    BY <1>1 DEF IsSramLine
  <2> QED BY <1>1, <2>1, <2>2 DEF IsLine
<1> QED BY <1>1, <1>2, RomInBuffer DEF IsRomLine

-----------------------------------------------------------------------------
\* The RAM
RamLine == Line(126, 127, 0, 7, "RAM")
IsInRam(r, b, p) ==
  /\ Covers(r, RamLine, b, p) <=> b \in 126 .. 127
  /\ b \in 126 .. 127 => InLine(r, RamLine, b, p) = [type |-> "RAM", kb |-> 8 * (8 * (b - 126) + p)]

LEMMA RamLineShows ==
  ASSUME NEW r, NEW b \in 0 .. 255, NEW p \in 0 .. 7
  PROVE  IsInRam(r, b, p)
<1>0. PICK line : line = RamLine
  OBVIOUS
<1>1. /\ line.type = "RAM" /\ line.b1 = 126 /\ line.b2 = 127 /\ line.p1 = 0 /\ line.p2 = 7
  BY <1>0 DEF Line, RamLine
<1>2. MemKB(r, line.type) = 128
  BY <1>1 DEF MemKB, RAM_KB
<1>3. Part(r, line) = 64
  BY <1>1, <1>2 DEF Part
<1>4. Parts(r, line) = 2
  BY <1>2, <1>3 DEF Parts
<1>5. ~Repeats(r, line)
  BY <1>1 DEF Repeats
<1>6. Aligned(64) = 8
  BY DEF Aligned
<1>7. Covers(r, line, b, p) <=> b \in 126 .. 127
  BY <1>1, <1>3, <1>5, <1>6 DEF Covers
<1>8. ASSUME b \in 126 .. 127
      PROVE  InLine(r, line, b, p) = [type |-> "RAM", kb |-> 8 * (8 * (b - 126) + p)]
  <2>1. (b - 126) % 2 = b - 126
    BY <1>8
  <2>2. Offset(r, line, b) = 64 * (b - 126)
    BY <1>1, <1>3, <1>4, <2>1 DEF Offset
  <2> QED BY <1>1, <1>5, <2>2 DEF InLine
<1> QED BY <1>0, <1>7, <1>8 DEF IsInRam

\* A page that shows work RAM shows a part of it.
LEMMA ShownRam ==
  ASSUME NEW r \in Cartridge, NEW b \in 0 .. 255, NEW p \in 0 .. 7, Shows(r, b, p).type = "RAM"
  PROVE  Shows(r, b, p).kb \in PagesOf(RAM_KB)
<1>1. PICK line : /\ IsLine(line) /\ Covers(r, line, b, p)
                  /\ Shows(r, b, p) = InLine(r, line, b, p) /\ line.type = "RAM"
  BY ShownIsInLine
<1>2. line = RamLine
  BY <1>1 DEF IsLine, IsRomLine, IsSramLine, RamLine
<1>3. b \in 126 .. 127 /\ Shows(r, b, p).kb = 8 * (8 * (b - 126) + p)
  <2>1. IsInRam(r, b, p)
    BY RamLineShows
  <2>2. b \in 126 .. 127
    BY <1>1, <1>2, <2>1 DEF IsInRam
  <2>3. Shows(r, b, p) = [type |-> "RAM", kb |-> 8 * (8 * (b - 126) + p)]
    BY <1>1, <1>2, <2>1, <2>2 DEF IsInRam
  <2> QED BY <2>2, <2>3
<1>4. Aligned(RAM_KB) = 16 /\ 8 * (b - 126) + p \in 0 .. 15
  BY <1>3 DEF Aligned, RAM_KB
<1> QED BY <1>3, <1>4 DEF PagesOf

\* Every page of the work RAM is visible.
LEMMA RamIsShown ==
  ASSUME NEW r \in Cartridge, NEW n \in 0 .. 15
  PROVE  IsShown(r, "RAM", 8 * n)
<1> DEFINE bank == 126 + (n \div 8)
           page == n % 8
<1>1. bank \in 126 .. 127 /\ page \in 0 .. 7 /\ 8 * (bank - 126) + page = n
  OBVIOUS
<1> HIDE DEF bank, page
<1>2. \E k \in DOMAIN Table(r) : /\ DOMAIN Table(r) \subseteq Nat
                                 /\ Table(r)[k] = RamLine
                                 /\ \A m \in DOMAIN Table(r) : Covers(r, Table(r)[m], bank, page) => m <= k
  <2>1. CASE Table(r) = LoRom
    <3>1. ASSUME NEW m \in 7 .. 12 PROVE ~Covers(r, Table(r)[m], bank, page)
      BY <1>1, <2>1, LoRomLines DEF Covers, Line
    <3> QED BY <2>1, <3>1, LoRomLines DEF RamLine
  <2>2. CASE Table(r) = HiRom
    <3>1. ASSUME NEW m \in 15 .. 20 PROVE ~Covers(r, Table(r)[m], bank, page)
      BY <1>1, <2>2, HiRomLines DEF Covers, Line
    <3> QED BY <2>2, <3>1, HiRomLines DEF RamLine
  <2> QED BY <2>1, <2>2, TableAndRoom
<1>3. PICK k \in DOMAIN Table(r) : /\ DOMAIN Table(r) \subseteq Nat
                                 /\ Table(r)[k] = RamLine
                                 /\ \A m \in DOMAIN Table(r) : Covers(r, Table(r)[m], bank, page) => m <= k
  BY <1>2
<1>4. bank \in 0 .. 255
  BY <1>1
<1>5. Covers(r, Table(r)[k], bank, page)
      /\ InLine(r, Table(r)[k], bank, page) = [type |-> "RAM", kb |-> 8 * (8 * (bank - 126) + page)]
  <2>1. IsInRam(r, bank, page)
    BY <1>1, <1>4, RamLineShows
  <2> QED BY <1>1, <1>3, <2>1 DEF IsInRam
<1>6. Shows(r, bank, page) = InLine(r, Table(r)[k], bank, page)
  BY <1>3, <1>5, LastLineShows
<1> QED BY <1>1, <1>4, <1>5, <1>6, ShownHere

-----------------------------------------------------------------------------
\* The battery-backed RAM
LEMMA SramLine ==
  ASSUME NEW r \in Cartridge, NEW line, NEW w, IsSramLine(line, w), NEW b \in 0 .. 255, NEW p \in 0 .. 7
  PROVE  /\ Covers(r, line, b, p) => r.sram > 0 /\ InLine(r, line, b, p) = [type |-> "SRAM", kb |-> 0]
         /\ r.sram > 0 /\ b \in line.b1 .. line.b2 /\ p = line.p1 => Covers(r, line, b, p)
<1>1. /\ line.type = "SRAM" /\ line.p1 \in Nat /\ line.p2 \in Nat /\ line.b1 \in Nat /\ line.b2 \in Nat
      /\ 8 * (line.p2 - line.p1 + 1) >= 8 /\ line.p1 <= line.p2
  BY DEF IsSramLine
<1>2. PICK kb \in {0, 2, 4, 8} : r.sram = kb /\ MemKB(r, line.type) = kb
  BY <1>1, CartridgeTypes DEF MemKB
<1>3. Part(r, line) = kb
  BY <1>1, <1>2 DEF Part
<1>4. kb > 0 => Parts(r, line) = 1
  <2>1. CASE kb = 2
    BY <1>2, <1>3, <2>1 DEF Parts
  <2>2. CASE kb = 4
    BY <1>2, <1>3, <2>2 DEF Parts
  <2>3. CASE kb = 8
    BY <1>2, <1>3, <2>3 DEF Parts
  <2> QED BY <2>1, <2>2, <2>3
<1>5. Repeats(r, line) <=> kb % 8 = 0
  BY <1>1, <1>3 DEF Repeats
<1>6. kb \in {2, 4} => Aligned(kb) = 1
  BY DEF Aligned
<1>7. ASSUME Covers(r, line, b, p)
      PROVE  r.sram > 0 /\ InLine(r, line, b, p) = [type |-> "SRAM", kb |-> 0]
  <2>1. b \in line.b1 .. line.b2 /\ p \in line.p1 .. line.p2 /\ kb > 0
        /\ (kb % 8 = 0 \/ p < line.p1 + Aligned(kb))
    BY <1>3, <1>5, <1>7 DEF Covers
  <2>2. (b - line.b1) % 1 = 0
    BY <1>1, <2>1
  <2>3. Offset(r, line, b) = 0
    BY <1>3, <1>4, <2>1, <2>2 DEF Offset
  <2>4. CASE kb = 8
    <3>1. (8 * (p - line.p1)) % 8 = 0
      BY <1>1, <2>1
    <3> QED BY <1>1, <1>2, <1>3, <1>5, <2>3, <2>4, <3>1 DEF InLine
  <2>5. CASE kb \in {2, 4}
    <3>1. p = line.p1 /\ ~(kb % 8 = 0)
      BY <1>1, <1>6, <2>1, <2>5
    <3>2. 8 * (p - line.p1) = 0
      BY <1>1, <3>1
    <3> QED BY <1>1, <1>2, <1>5, <2>1, <2>3, <3>1, <3>2 DEF InLine
  <2> QED BY <2>1, <2>4, <2>5
<1>8. ASSUME r.sram > 0, b \in line.b1 .. line.b2, p = line.p1
      PROVE  Covers(r, line, b, p)
  <2>1. kb = 8 \/ kb \in {2, 4}
    BY <1>2, <1>8
  <2>2. kb % 8 = 0 \/ p < line.p1 + Aligned(kb)
    BY <1>1, <1>6, <1>8, <2>1
  <2> QED BY <1>1, <1>2, <1>3, <1>5, <1>8, <2>2 DEF Covers
<1> QED BY <1>7, <1>8

\* A page shows battery-backed RAM only when the cartridge has some.
LEMMA ShownSram ==
  ASSUME NEW r \in Cartridge, NEW b \in 0 .. 255, NEW p \in 0 .. 7, Shows(r, b, p).type = "SRAM"
  PROVE  r.sram > 0 /\ Shows(r, b, p).kb = 0
<1>1. PICK line : /\ IsLine(line) /\ Covers(r, line, b, p)
                  /\ Shows(r, b, p) = InLine(r, line, b, p) /\ line.type = "SRAM"
  BY ShownIsInLine
<1>2. PICK w \in {1, 4} : IsSramLine(line, w)
  <2>1. Line(126, 127, 0, 7, "RAM").type = "RAM"
    BY DEF Line
  <2>2. \A v : ~IsRomLine(line, v)
    BY <1>1 DEF IsRomLine
  <2> QED BY <1>1, <2>1, <2>2 DEF IsLine
<1>3. r.sram > 0 /\ InLine(r, line, b, p) = [type |-> "SRAM", kb |-> 0]
  BY <1>1, <1>2, SramLine
<1> QED BY <1>1, <1>3

\* The battery-backed RAM of a cartridge that has some is visible.
LEMMA SramIsShown ==
  ASSUME NEW r \in Cartridge, r.sram > 0
  PROVE  IsShown(r, "SRAM", 0)
<1> DEFINE line == Line(112, 119, 0, 3, "SRAM")
<1>1. DOMAIN Table(r) \subseteq Nat /\ 5 \in DOMAIN Table(r) /\ Table(r)[5] = line
  BY LoRomLines, HiRomLines, TableAndRoom
<1>2. ASSUME NEW m \in DOMAIN Table(r), m > 5 PROVE ~Covers(r, Table(r)[m], 112, 0)
  <2>1. CASE Table(r) = LoRom
    <3>1. m \in 6 .. 12
      BY <1>2, <2>1, LoRomLines
    <3> QED BY <2>1, <3>1, LoRomLines DEF Covers, Line
  <2>2. CASE Table(r) = HiRom
    <3>1. m \in 6 .. 20
      BY <1>2, <2>2, HiRomLines
    <3>2. CASE m \in 6 .. 9
      BY <2>2, <3>2, HiRomLines DEF Covers, Line
    <3>3. CASE m \in 10 .. 13
      BY <2>2, <3>3, HiRomLines DEF Covers, Line
    <3>4. CASE m \in 14 .. 20
      BY <2>2, <3>4, HiRomLines DEF Covers, Line
    <3> QED BY <3>1, <3>2, <3>3, <3>4
  <2> QED BY <2>1, <2>2, TableAndRoom
<1>3. IsSramLine(line, 4) /\ 112 \in line.b1 .. line.b2 /\ 0 = line.p1
  BY DEF IsSramLine, Line
<1> HIDE DEF line
<1>4. PICK b \in 0 .. 255, p \in 0 .. 7 : b = 112 /\ p = 0
  OBVIOUS
<1>5. Covers(r, line, b, p) /\ InLine(r, line, b, p) = [type |-> "SRAM", kb |-> 0]
  <2>1. IsSramLine(line, 4) /\ b \in line.b1 .. line.b2 /\ p = line.p1
    BY <1>3, <1>4
  <2>2. Covers(r, line, b, p)
    BY <2>1, SramLine
  <2> QED BY <2>1, <2>2, SramLine
<1>6. Shows(r, b, p) = InLine(r, line, b, p)
  <2>1. PICK n \in Nat : n = 5
    OBVIOUS
  <2>2. \A m \in DOMAIN Table(r) : Covers(r, Table(r)[m], b, p) => m <= n
    BY <1>1, <1>2, <1>4, <2>1
  <2>3. n \in DOMAIN Table(r) /\ Covers(r, Table(r)[n], b, p)
    BY <1>1, <1>5, <2>1
  <2>4. Shows(r, b, p) = InLine(r, Table(r)[n], b, p)
    BY <1>1, <2>2, <2>3, LastLineShows
  <2> QED BY <1>1, <2>1, <2>4
<1> QED BY <1>5, <1>6, ShownHere

-----------------------------------------------------------------------------
\* The registers
LEMMA RegisterLine ==
  ASSUME NEW r, NEW b1 \in Nat, NEW b2 \in Nat, NEW b \in b1 .. b2, NEW p \in Nat,
         NEW type, type \in {"LORAM", "PPU0", "PPU1"}
  PROVE  /\ Covers(r, Line(b1, b2, p, p, type), b, p)
         /\ InLine(r, Line(b1, b2, p, p, type), b, p).type = type
<1> DEFINE line == Line(b1, b2, p, p, type)
<1>1. /\ line.b1 = b1 /\ line.b2 = b2 /\ line.p1 = p /\ line.p2 = p /\ line.type = type
  BY DEF Line
<1> HIDE DEF line
<1>2. MemKB(r, line.type) = 8
  BY <1>1 DEF MemKB
<1>3. Part(r, line) = 8
  BY <1>1, <1>2 DEF Part
<1>4. Aligned(8) = 1
  BY DEF Aligned
<1>5. Covers(r, line, b, p) /\ InLine(r, line, b, p).type = type
  BY <1>1, <1>3, <1>4 DEF Covers, InLine
<1> QED BY <1>5 DEF line

\* The first pages of a bank of the system show its registers.
LEMMA RegistersAreShown ==
  ASSUME NEW r \in Cartridge, NEW b \in (0 .. 63) \cup (128 .. 191), NEW p \in 0 .. 2
  PROVE  Shows(r, b, p).type = RegisterLines(b, b)[p + 1].type
<1> DEFINE T == <<"LORAM", "PPU0", "PPU1">>
           Is(n) == \E lo \in Nat, hi \in Nat : b \in lo .. hi /\ Table(r)[n] = Line(lo, hi, p, p, T[p + 1])
           LastIs(n) == /\ n \in DOMAIN Table(r) /\ n \in Nat /\ DOMAIN Table(r) \subseteq Nat /\ Is(n)
                        /\ \A m \in DOMAIN Table(r) : Covers(r, Table(r)[m], b, p) => m <= n
<1>0. p \in {0, 1, 2}
  OBVIOUS
<1>1. RegisterLines(b, b)[p + 1].type = T[p + 1] /\ T[p + 1] \in {"LORAM", "PPU0", "PPU1"}
  BY <1>0 DEF RegisterLines, Line
<1>2. \E n : LastIs(n)
  <2>1. CASE Table(r) = LoRom /\ b \in 0 .. 63
    <3>1. ASSUME NEW m \in 1 .. 12, m > 7 + p PROVE ~Covers(r, Table(r)[m], b, p)
      BY <1>0, <2>1, <3>1, LoRomLines DEF Covers, Line
    <3>2. Table(r)[7 + p] = Line(0, 63, p, p, T[p + 1])
      BY <1>0, <2>1, LoRomLines
    <3>3. Is(7 + p)
      BY <2>1, <3>2
    <3>4. LastIs(7 + p)
      <4> HIDE DEF Is
      <4> QED BY <1>0, <2>1, <3>1, <3>3, LoRomLines
    <3> QED BY <3>4
  <2>2. CASE Table(r) = LoRom /\ b \in 128 .. 191
    <3>1. ASSUME NEW m \in 1 .. 12, m > 10 + p PROVE ~Covers(r, Table(r)[m], b, p)
      BY <1>0, <2>2, <3>1, LoRomLines DEF Covers, Line
    <3>2. Table(r)[10 + p] = Line(128, 191, p, p, T[p + 1])
      BY <1>0, <2>2, LoRomLines
    <3>3. Is(10 + p)
      BY <2>2, <3>2
    <3>4. LastIs(10 + p)
      <4> HIDE DEF Is
      <4> QED BY <1>0, <2>2, <3>1, <3>3, LoRomLines
    <3> QED BY <3>4
  <2>3. CASE Table(r) = HiRom /\ b \in 0 .. 63
    <3>1. ASSUME NEW m \in 1 .. 20, m > 15 + p PROVE ~Covers(r, Table(r)[m], b, p)
      BY <1>0, <2>3, <3>1, HiRomLines DEF Covers, Line
    <3>2. Table(r)[15 + p] = Line(0, 63, p, p, T[p + 1])
      BY <1>0, <2>3, HiRomLines
    <3>3. Is(15 + p)
      BY <2>3, <3>2
    <3>4. LastIs(15 + p)
      <4> HIDE DEF Is
      <4> QED BY <1>0, <2>3, <3>1, <3>3, HiRomLines
    <3> QED BY <3>4
  <2>4. CASE Table(r) = HiRom /\ b \in 128 .. 191
    <3>1. ASSUME NEW m \in 1 .. 20, m > 18 + p PROVE ~Covers(r, Table(r)[m], b, p)
      BY <1>0, <2>4, <3>1, HiRomLines DEF Covers, Line
    <3>2. Table(r)[18 + p] = Line(128, 191, p, p, T[p + 1])
      BY <1>0, <2>4, HiRomLines
    <3>3. Is(18 + p)
      BY <2>4, <3>2
    <3>4. LastIs(18 + p)
      <4> HIDE DEF Is
      <4> QED BY <1>0, <2>4, <3>1, <3>3, HiRomLines
    <3> QED BY <3>4
  <2> QED BY <2>1, <2>2, <2>3, <2>4, TableAndRoom
<1>3. PICK n : LastIs(n)
  BY <1>2
<1>4. PICK lo \in Nat, hi \in Nat : b \in lo .. hi /\ Table(r)[n] = Line(lo, hi, p, p, T[p + 1])
  BY <1>3
<1>5. Covers(r, Table(r)[n], b, p) /\ InLine(r, Table(r)[n], b, p).type = T[p + 1]
  <2> HIDE DEF T
  <2> QED BY <1>1, <1>4, RegisterLine
<1>6. Shows(r, b, p) = InLine(r, Table(r)[n], b, p)
  <2> HIDE DEF Is
  <2> QED BY <1>3, <1>5, LastLineShows
<1> QED BY <1>1, <1>5, <1>6

-----------------------------------------------------------------------------
\* The whole map
LEMMA IsInVisible ==
  ASSUME NEW r, NEW b \in 0 .. 255, NEW p \in 0 .. 7
  PROVE  Shows(r, b, p) \in ShownPages(r)
BY DEF ShownPages

\* What a page shows is visible.
LEMMA VisibleIsShown ==
  ASSUME NEW r, NEW type, NEW kb
  PROVE  IsShown(r, type, kb) => kb \in VisibleOf(r, type)
<1> SUFFICES ASSUME NEW b \in 0 .. 255, NEW p \in 0 .. 7,
                    Shows(r, b, p) = [type |-> type, kb |-> kb]
             PROVE  kb \in VisibleOf(r, type)
  BY DEF IsShown
<1>1. PICK x : x = Shows(r, b, p)
  OBVIOUS
<1>2. x \in ShownPages(r)
  BY <1>1, IsInVisible
<1>3. x.type = type /\ x.kb = kb
  BY <1>1
<1> QED BY <1>2, <1>3 DEF VisibleOf

ShowsKB(r, b, p, type, kb) == Shows(r, b, p).type = type /\ Shows(r, b, p).kb = kb
HasKB(r, type, kb) == \E b \in 0 .. 255, p \in 0 .. 7 : ShowsKB(r, b, p, type, kb)

\* What is visible, some page shows.
LEMMA VisibleFrom ==
  ASSUME NEW r, NEW type, NEW kb \in VisibleOf(r, type)
  PROVE  HasKB(r, type, kb)
<1>1. PICK x \in ShownPages(r) : x.type = type /\ kb = x.kb
  BY DEF VisibleOf
<1>2. PICK b \in 0 .. 255, p \in 0 .. 7 : x = Shows(r, b, p)
  BY DEF ShownPages
<1>3. ShowsKB(r, b, p, type, kb)
  BY <1>1, <1>2 DEF ShowsKB
<1> QED BY <1>3 DEF HasKB

\* The map of every cartridge is complete.
LEMMA MapOfCartridge ==
  ASSUME NEW r \in Cartridge
  PROVE  /\ VisibleOf(r, "RAM") = PagesOf(RAM_KB)
         /\ VisibleOf(r, "SRAM") = PagesOf(r.sram)
         /\ {kb \in PagesOf(r.kb) : kb < Room(r)} \subseteq VisibleOf(r, "ROM")
         /\ \A kb \in VisibleOf(r, "ROM") : kb + 8 <= BUFFER_KB
         /\ \A b \in (0 .. 63) \cup (128 .. 191), p \in 0 .. 2 :
              Shows(r, b, p).type = RegisterLines(b, b)[p + 1].type
<1>1. VisibleOf(r, "RAM") = PagesOf(RAM_KB)
  <2>1. ASSUME NEW kb \in VisibleOf(r, "RAM") PROVE kb \in PagesOf(RAM_KB)
    <3>1. HasKB(r, "RAM", kb)
      BY VisibleFrom
    <3>2. PICK b \in 0 .. 255, p \in 0 .. 7 : ShowsKB(r, b, p, "RAM", kb)
      BY <3>1 DEF HasKB
    <3> QED BY <3>2, ShownRam DEF ShowsKB
  <2>2. PagesOf(RAM_KB) = {8 * n : n \in 0 .. 15}
    BY DEF PagesOf, RAM_KB, Aligned
  <2>3. \A n \in 0 .. 15 : 8 * n \in VisibleOf(r, "RAM")
    BY VisibleIsShown, RamIsShown
  <2> QED BY <2>1, <2>2, <2>3
<1>2. VisibleOf(r, "SRAM") = PagesOf(r.sram)
  <2>1. PICK kb \in {0, 2, 4, 8} : r.sram = kb
    BY CartridgeTypes
  <2>2. Aligned(kb) = IF kb > 0 THEN 1 ELSE 0
    BY DEF Aligned
  <2>3. PagesOf(kb) = IF kb > 0 THEN {0} ELSE {}
    <3>1. CASE kb > 0
      <4>1. 0 .. Aligned(kb) - 1 = {0}
        BY <2>2, <3>1
      <4> QED BY <3>1, <4>1 DEF PagesOf
    <3>2. CASE ~(kb > 0)
      <4>1. 0 .. Aligned(kb) - 1 = {}
        BY <2>2, <3>2
      <4> QED BY <3>2, <4>1 DEF PagesOf
    <3> QED BY <3>1, <3>2
  <2>4. ASSUME NEW x \in VisibleOf(r, "SRAM") PROVE r.sram > 0 /\ x = 0
    <3>1. HasKB(r, "SRAM", x)
      BY VisibleFrom
    <3>2. PICK b \in 0 .. 255, p \in 0 .. 7 : ShowsKB(r, b, p, "SRAM", x)
      BY <3>1 DEF HasKB
    <3> QED BY <3>2, ShownSram DEF ShowsKB
  <2>5. r.sram > 0 => 0 \in VisibleOf(r, "SRAM")
    BY VisibleIsShown, SramIsShown
  <2> QED BY <2>1, <2>3, <2>4, <2>5
<1>3. ASSUME NEW kb \in PagesOf(r.kb), kb < Room(r) PROVE kb \in VisibleOf(r, "ROM")
  <2>1. PICK n \in 0 .. Aligned(r.kb) - 1 : kb = 8 * n
    BY DEF PagesOf
  <2>2. n \in Nat /\ 8 * n < r.kb
    BY <2>1, CartridgeTypes DEF Aligned
  <2>3. IsShown(r, "ROM", 8 * n)
    BY <1>3, <2>1, <2>2, RomIsShown
  <2> QED BY <2>1, <2>3, VisibleIsShown
<1>4. ASSUME NEW kb \in VisibleOf(r, "ROM") PROVE kb + 8 <= BUFFER_KB
  <2>1. HasKB(r, "ROM", kb)
    BY VisibleFrom
  <2>2. PICK b \in 0 .. 255, p \in 0 .. 7 : ShowsKB(r, b, p, "ROM", kb)
    BY <2>1 DEF HasKB
  <2> QED BY <2>2, ShownRom DEF ShowsKB
<1>5. \A b \in (0 .. 63) \cup (128 .. 191), p \in 0 .. 2 :
        Shows(r, b, p).type = RegisterLines(b, b)[p + 1].type
  BY RegistersAreShown
<1> QED BY <1>1, <1>2, <1>3, <1>4, <1>5

-----------------------------------------------------------------------------
MemMapInv ==
  /\ rom = NoRom \/ rom \in Cartridge
  /\ memsel \in 0 .. 1
  /\ romSpeed = IF memsel = 1 THEN FAST ELSE SLOW

\* The inductive invariant: the cartridge is one that LoadRom gives, and the speed of
\* its ROM is what MEMSEL says.
LEMMA MemMapInvInit ==
  ASSUME MemMapInit PROVE MemMapInv
BY DEF MemMapInit, MemMapInv

LEMMA MemMapInvNext ==
  ASSUME MemMapInv, [MemMapNext]_memmapVars PROVE MemMapInv'
<1>1. CASE UNCHANGED memmapVars
  BY <1>1 DEF MemMapInv, memmapVars
<1>2. ASSUME NEW file \in GameFile, ExecuteFile(file)
      PROVE  MemMapInv'
  <2>1. CASE CanLoad(file)
    BY <1>2, <2>1, LoadedIsCartridge DEF ExecuteFile, ResetRegisters, MemMapInv, SLOW, FAST
  <2>2. CASE ~CanLoad(file)
    BY <1>2, <2>2 DEF ExecuteFile, MemMapInv
  <2> QED BY <2>1, <2>2
<1>3. ASSUME NEW data \in 0 .. 1, WriteMemsel(data)
      PROVE  MemMapInv'
  BY <1>3 DEF WriteMemsel, MemMapInv, SLOW, FAST
<1>4. ASSUME NEW data \in 0 .. 1, RestoreMemsel(data)
      PROVE  MemMapInv'
  BY <1>4 DEF RestoreMemsel, MemMapInv, SLOW, FAST
<1> QED BY <1>1, <1>2, <1>3, <1>4 DEF MemMapNext

LEMMA MemMapInvIsSafe ==
  ASSUME MemMapInv PROVE CartridgeIsMapped
<1>1. MapIsComplete
  <2>1. CASE rom = NoRom
    BY <2>1 DEF MapIsComplete
  <2>2. CASE rom \in Cartridge
    BY <2>2, MapOfCartridge DEF MapIsComplete
  <2> QED BY <2>1, <2>2 DEF MemMapInv
<1>2. SpeedIsMemsel
  BY DEF MemMapInv, SpeedIsMemsel
<1> QED BY <1>1, <1>2 DEF CartridgeIsMapped

\* A cartridge that is loaded is in its place in the address space, for every size that
\* fits the buffer and both mappings, whatever was loaded before; its ROM is as fast as
\* its game has said (snmemmap.cpp, snes.cpp).
THEOREM CartridgeIsMappedHolds == MemMapSpec => []CartridgeIsMapped
<1>1. MemMapInit => MemMapInv
  BY MemMapInvInit
<1>2. MemMapInv /\ [MemMapNext]_memmapVars => MemMapInv'
  BY MemMapInvNext
<1>3. MemMapInv => CartridgeIsMapped
  BY MemMapInvIsSafe
<1> QED BY <1>1, <1>2, <1>3, PTL DEF MemMapSpec

-----------------------------------------------------------------------------
\* ADC and SBC

\* The digits of a sum, of a difference and of a number, one after the other.
LEMMA AddUnfolds ==
  ASSUME NEW c, NEW t, NEW s, NEW w \in {2, 4}
  PROVE  \E d1, d2, d3, d4 :
           /\ d1 = AddDigit(c, t, s, 0)
           /\ d2 = AddDigit(d1, t, s, 1)
           /\ d3 = AddDigit(d2, t, s, 2)
           /\ d4 = AddDigit(d3, t, s, 3)
           /\ DecimalAdd(c, t, s, w) = (IF w = 2 THEN d2 ELSE d4)
<1> DEFINE d1 == AddDigit(c, t, s, 0)
           d2 == AddDigit(d1, t, s, 1)
           d3 == AddDigit(d2, t, s, 2)
           d4 == AddDigit(d3, t, s, 3)
           Step(f) == [i \in 0 .. w |-> IF i = 0 THEN c ELSE AddDigit(f[i - 1], t, s, i - 1)]
           g == [i \in 0 .. w |->
                   CASE i = 0 -> c [] i = 1 -> d1 [] i = 2 -> d2 [] i = 3 -> d3 [] i = 4 -> d4]
           d == CHOOSE f : f = Step(f)
<1>1. g = Step(g)
  <2>1. ASSUME NEW i \in 0 .. w
        PROVE  g[i] = (IF i = 0 THEN c ELSE AddDigit(g[i - 1], t, s, i - 1))
    <3>1. i \in {0, 1, 2, 3, 4}
      OBVIOUS
    <3>2. /\ g[0] = c /\ g[1] = d1 /\ g[2] = d2
          /\ w = 4 => g[3] = d3 /\ g[4] = d4
      OBVIOUS
    <3>3. 1 - 1 = 0 /\ 2 - 1 = 1 /\ 3 - 1 = 2 /\ 4 - 1 = 3 /\ (i > 2 => w = 4)
      OBVIOUS
    <3> HIDE DEF g
    <3> QED BY <3>1, <3>2, <3>3
  <2> QED BY <2>1
<1>2. d = Step(d)
  <2> HIDE DEF g, Step
  <2> QED BY <1>1
<1>3. \A i \in 0 .. w : d[i] = (IF i = 0 THEN c ELSE AddDigit(d[i - 1], t, s, i - 1))
  <2> HIDE DEF d
  <2> QED BY <1>2
<1>4. DecimalAdd(c, t, s, w) = d[w]
  BY DEF DecimalAdd
<1> HIDE DEF d
<1>5. /\ d[1] = d1 /\ d[2] = d2
      /\ w = 4 => d[3] = d3 /\ d[4] = d4
  <2>1. 1 - 1 = 0 /\ 2 - 1 = 1 /\ 3 - 1 = 2 /\ 4 - 1 = 3
    OBVIOUS
  <2>2. d[0] = c /\ d[1] = AddDigit(d[1 - 1], t, s, 1 - 1) /\ d[2] = AddDigit(d[2 - 1], t, s, 2 - 1)
    BY <1>3
  <2>3. w = 4 => d[3] = AddDigit(d[3 - 1], t, s, 3 - 1) /\ d[4] = AddDigit(d[4 - 1], t, s, 4 - 1)
    BY <1>3
  <2> QED BY <2>1, <2>2, <2>3
<1> QED BY <1>4, <1>5

LEMMA SubUnfolds ==
  ASSUME NEW c, NEW t, NEW s, NEW w \in {2, 4}
  PROVE  \E d1, d2, d3, d4 :
           /\ d1 = SubDigit(Uint(c - 1), t, s, 0)
           /\ d2 = SubDigit(d1, t, s, 1)
           /\ d3 = SubDigit(d2, t, s, 2)
           /\ d4 = SubDigit(d3, t, s, 3)
           /\ DecimalSub(c, t, s, w) = InvertCarry(IF w = 2 THEN d2 ELSE d4, w)
<1> DEFINE d1 == SubDigit(Uint(c - 1), t, s, 0)
           d2 == SubDigit(d1, t, s, 1)
           d3 == SubDigit(d2, t, s, 2)
           d4 == SubDigit(d3, t, s, 3)
           Step(f) == [i \in 0 .. w |-> IF i = 0 THEN Uint(c - 1) ELSE SubDigit(f[i - 1], t, s, i - 1)]
           g == [i \in 0 .. w |->
                   CASE i = 0 -> Uint(c - 1) [] i = 1 -> d1 [] i = 2 -> d2 [] i = 3 -> d3 [] i = 4 -> d4]
           d == CHOOSE f : f = Step(f)
<1>1. g = Step(g)
  <2>1. ASSUME NEW i \in 0 .. w
        PROVE  g[i] = (IF i = 0 THEN Uint(c - 1) ELSE SubDigit(g[i - 1], t, s, i - 1))
    <3>1. i \in {0, 1, 2, 3, 4}
      OBVIOUS
    <3>2. /\ g[0] = Uint(c - 1) /\ g[1] = d1 /\ g[2] = d2
          /\ w = 4 => g[3] = d3 /\ g[4] = d4
      OBVIOUS
    <3>3. 1 - 1 = 0 /\ 2 - 1 = 1 /\ 3 - 1 = 2 /\ 4 - 1 = 3 /\ (i > 2 => w = 4)
      OBVIOUS
    <3> HIDE DEF g
    <3> QED BY <3>1, <3>2, <3>3
  <2> QED BY <2>1
<1>2. d = Step(d)
  <2> HIDE DEF g, Step
  <2> QED BY <1>1
<1>3. \A i \in 0 .. w : d[i] = (IF i = 0 THEN Uint(c - 1) ELSE SubDigit(d[i - 1], t, s, i - 1))
  <2> HIDE DEF d
  <2> QED BY <1>2
<1>4. DecimalSub(c, t, s, w) = InvertCarry(d[w], w)
  BY DEF DecimalSub
<1> HIDE DEF d
<1>5. /\ d[1] = d1 /\ d[2] = d2
      /\ w = 4 => d[3] = d3 /\ d[4] = d4
  <2>1. 1 - 1 = 0 /\ 2 - 1 = 1 /\ 3 - 1 = 2 /\ 4 - 1 = 3
    OBVIOUS
  <2>2. d[0] = Uint(c - 1) /\ d[1] = SubDigit(d[1 - 1], t, s, 1 - 1) /\ d[2] = SubDigit(d[2 - 1], t, s, 2 - 1)
    BY <1>3
  <2>3. w = 4 => d[3] = SubDigit(d[3 - 1], t, s, 3 - 1) /\ d[4] = SubDigit(d[4 - 1], t, s, 4 - 1)
    BY <1>3
  <2> QED BY <2>1, <2>2, <2>3
<1> QED BY <1>4, <1>5

LEMMA NumberUnfolds ==
  ASSUME NEW x, NEW w \in {2, 4}, instr.w = w
  PROVE  \E d1, d2, d3, d4 :
           /\ d1 = 0 + DigitValue(x, 0)
           /\ d2 = d1 + DigitValue(x, 1)
           /\ d3 = d2 + DigitValue(x, 2)
           /\ d4 = d3 + DigitValue(x, 3)
           /\ Number(x) = (IF w = 2 THEN d2 ELSE d4)
<1> DEFINE d1 == 0 + DigitValue(x, 0)
           d2 == d1 + DigitValue(x, 1)
           d3 == d2 + DigitValue(x, 2)
           d4 == d3 + DigitValue(x, 3)
           Step(f) == [i \in 0 .. instr.w |-> IF i = 0 THEN 0 ELSE f[i - 1] + DigitValue(x, i - 1)]
           g == [i \in 0 .. instr.w |->
                   CASE i = 0 -> 0 [] i = 1 -> d1 [] i = 2 -> d2 [] i = 3 -> d3 [] i = 4 -> d4]
           d == CHOOSE f : f = Step(f)
<1>1. g = Step(g)
  <2>1. ASSUME NEW i \in 0 .. instr.w
        PROVE  g[i] = (IF i = 0 THEN 0 ELSE g[i - 1] + DigitValue(x, i - 1))
    <3>1. i \in {0, 1, 2, 3, 4}
      OBVIOUS
    <3>2. /\ g[0] = 0 /\ g[1] = d1 /\ g[2] = d2
          /\ w = 4 => g[3] = d3 /\ g[4] = d4
      OBVIOUS
    <3>3. 1 - 1 = 0 /\ 2 - 1 = 1 /\ 3 - 1 = 2 /\ 4 - 1 = 3 /\ (i > 2 => w = 4)
      OBVIOUS
    <3> HIDE DEF g
    <3> QED BY <3>1, <3>2, <3>3
  <2> QED BY <2>1
<1>2. d = Step(d)
  <2> HIDE DEF g, Step
  <2> QED BY <1>1
<1>3. \A i \in 0 .. instr.w : d[i] = (IF i = 0 THEN 0 ELSE d[i - 1] + DigitValue(x, i - 1))
  <2> HIDE DEF d
  <2> QED BY <1>2
<1>4. Number(x) = d[instr.w]
  BY DEF Number
<1> HIDE DEF d
<1>5. /\ d[1] = d1 /\ d[2] = d2
      /\ w = 4 => d[3] = d3 /\ d[4] = d4
  <2>1. 1 - 1 = 0 /\ 2 - 1 = 1 /\ 3 - 1 = 2 /\ 4 - 1 = 3
    OBVIOUS
  <2>2. d[0] = 0 /\ d[1] = d[1 - 1] + DigitValue(x, 1 - 1) /\ d[2] = d[2 - 1] + DigitValue(x, 2 - 1)
    BY <1>3
  <2>3. w = 4 => d[3] = d[3 - 1] + DigitValue(x, 3 - 1) /\ d[4] = d[4 - 1] + DigitValue(x, 4 - 1)
    BY <1>3
  <2> QED BY <2>1, <2>2, <2>3
<1> QED BY <1>4, <1>5

\* x has these digits.
Sum(x0, x1, x2, x3) == x0 + 16 * x1 + 256 * x2 + 4096 * x3
HasDigits(x, x0, x1, x2, x3) ==
  /\ x = Sum(x0, x1, x2, x3)
  /\ Digit(x, 0) = x0 /\ Digit(x, 1) = 16 * x1
  /\ Digit(x, 2) = 256 * x2 /\ Digit(x, 3) = 4096 * x3

\* The powers that the digits need.
LEMMA Powers ==
  /\ 16 ^ 0 = 1 /\ 16 ^ 1 = 16 /\ 16 ^ 2 = 256 /\ 16 ^ 3 = 4096 /\ 16 ^ 4 = 65536
  /\ 16 ^ 5 = 1048576
  /\ 10 ^ 0 = 1 /\ 10 ^ 1 = 10 /\ 10 ^ 2 = 100 /\ 10 ^ 3 = 1000 /\ 10 ^ 4 = 10000
  /\ 0 + 1 = 1 /\ 1 + 1 = 2 /\ 2 + 1 = 3 /\ 3 + 1 = 4
OBVIOUS

\* The digits of a number made of these digits.
LEMMA SumHasDigits ==
  ASSUME NEW x0 \in Nat, NEW x1 \in Nat, NEW x2 \in Nat, NEW x3 \in Nat,
         x0 < 16, x1 < 16, x2 < 16, x3 < 16
  PROVE  /\ HasDigits(Sum(x0, x1, x2, x3), x0, x1, x2, x3)
         /\ Sum(x0, x1, x2, x3) = x0 + 16 * x1 + 256 * x2 + 4096 * x3
         /\ Sum(x0, x1, x2, x3) \in Nat /\ Sum(x0, x1, x2, x3) < 65536
         /\ x2 = 0 /\ x3 = 0 => Sum(x0, x1, x2, x3) < 256
<1>1. PICK x \in Int : x = Sum(x0, x1, x2, x3) /\ x = x0 + 16 * x1 + 256 * x2 + 4096 * x3
  BY DEF Sum
<1>2. x \div 1 = x /\ x \div 16 = x1 + 16 * x2 + 256 * x3 /\ x \div 256 = x2 + 16 * x3
      /\ x \div 4096 = x3
  BY <1>1
<1>3. x % 16 = x0 /\ (x1 + 16 * x2 + 256 * x3) % 16 = x1 /\ (x2 + 16 * x3) % 16 = x2 /\ x3 % 16 = x3
  BY <1>1
<1>4. Digit(x, 0) = x0 /\ Digit(x, 1) = 16 * x1
  BY <1>2, <1>3, Powers DEF Digit
<1>5. Digit(x, 2) = 256 * x2 /\ Digit(x, 3) = 4096 * x3
  BY <1>2, <1>3, Powers DEF Digit
<1>6. x \in Nat /\ x < 65536 /\ (x2 = 0 /\ x3 = 0 => x < 256)
  BY <1>1
<1> QED BY <1>1, <1>4, <1>5, <1>6 DEF HasDigits

Sixteens(n) == \E q \in Nat, r \in Nat : r < 16 /\ n = 16 * q + r

\* A number is made of its lowest digit and the rest.
LEMMA SixteensSplit ==
  ASSUME NEW n \in Nat
  PROVE  Sixteens(n)
<1>1. n \div 16 \in Nat /\ n % 16 \in Nat /\ n % 16 < 16 /\ n = 16 * (n \div 16) + (n % 16)
  OBVIOUS
<1> QED BY <1>1 DEF Sixteens

InDigits(x) ==
  \E x0 \in Nat, x1 \in Nat, x2 \in Nat, x3 \in Nat :
     /\ x0 < 16 /\ x1 < 16 /\ x2 < 16 /\ x3 < 16
     /\ HasDigits(x, x0, x1, x2, x3) /\ (x < 256 => x2 = 0 /\ x3 = 0)

\* Every number of 16 bits has four digits, and of 8 bits two.
LEMMA NumbersHaveDigits == ASSUME NEW x \in Nat, x < 65536 PROVE InDigits(x)
<1>0. Sixteens(x)
  BY SixteensSplit
<1>1. PICK q1 \in Nat, x0 \in Nat : x0 < 16 /\ x = 16 * q1 + x0
  BY <1>0 DEF Sixteens
<1>2. PICK q2 \in Nat, x1 \in Nat : x1 < 16 /\ q1 = 16 * q2 + x1
  BY SixteensSplit DEF Sixteens
<1>3. PICK x3 \in Nat, x2 \in Nat : x2 < 16 /\ q2 = 16 * x3 + x2
  BY SixteensSplit DEF Sixteens
<1>4. x3 < 16 /\ x = x0 + 16 * x1 + 256 * x2 + 4096 * x3
  BY <1>1, <1>2, <1>3
<1>5. x < 256 => x2 = 0 /\ x3 = 0
  BY <1>4
<1>6. HasDigits(x, x0, x1, x2, x3)
  <2>1. x = Sum(x0, x1, x2, x3)
    BY <1>4 DEF Sum
  <2>2. HasDigits(Sum(x0, x1, x2, x3), x0, x1, x2, x3)
    BY <1>1, <1>2, <1>3, <1>4, SumHasDigits
  <2> QED BY <2>1, <2>2
<1> QED BY <1>1, <1>2, <1>3, <1>4, <1>5, <1>6 DEF InDigits

\* The sum of two digits and a carry, and the carry that it leaves.
Times(P, n) == P * n
IsUnit(P) == P = 1 \/ P = 16 \/ P = 256 \/ P = 4096
CarriesTo(z, R, P, Q, e) ==
  \E r \in Nat, n \in Nat : /\ r < 10 /\ n < 2 /\ z = 10 * n + r
                            /\ e = R + Times(P, r) + Times(Q, n)

LEMMA TimesType == ASSUME NEW P \in Nat, NEW n \in Nat PROVE Times(P, n) \in Nat
BY DEF Times

\* What a digit's unit makes of small numbers.
LEMMA Units ==
  ASSUME NEW P \in Nat, IsUnit(P)
  PROVE  /\ P \in Nat \ {0} /\ 10 * P \in Nat /\ 16 * P \in Nat \ {0}
         /\ Times(16 * P, 0) = 0 /\ Times(16 * P, 1) = 16 * P
         /\ \A q \in Nat : Times(P, q) \in Nat
         /\ \A q \in Nat, R \in Nat : R < P =>
              /\ q < 10 => R + Times(P, q) < 10 * P
              /\ q >= 10 => /\ R + Times(P, q) >= 10 * P
                            /\ R + Times(P, q) - 10 * P = R + Times(P, q - 10)
                            /\ q < 20 => R + Times(P, q - 10) < 16 * P
<1>1. CASE P = 1
  BY <1>1 DEF Times
<1>2. CASE P = 16
  BY <1>2 DEF Times
<1>3. CASE P = 256
  BY <1>3 DEF Times
<1>4. CASE P = 4096
  BY <1>4 DEF Times
<1> QED BY <1>1, <1>2, <1>3, <1>4 DEF IsUnit

\* Sums of multiples of a digit's unit.
LEMMA UnitsAdd ==
  ASSUME NEW P \in Nat, IsUnit(P), NEW x \in Nat, NEW y \in Nat, NEW k \in Nat
  PROVE  Times(P, k) + Times(P, x) + Times(P, y) = Times(P, x + y + k)
<1>1. CASE P = 1
  BY <1>1 DEF Times
<1>2. CASE P = 16
  BY <1>2 DEF Times
<1>3. CASE P = 256
  BY <1>3 DEF Times
<1>4. CASE P = 4096
  BY <1>4 DEF Times
<1> QED BY <1>1, <1>2, <1>3, <1>4 DEF IsUnit

\* The units of digit i and of the next one; a digit, and the rest of it is what it says.
UnitsAt(i, P, Q) ==
  /\ P \in Nat /\ Q \in Nat /\ IsUnit(P) /\ 16 ^ i = P /\ 16 ^ (i + 1) = Q /\ Q = 16 * P
DecimalDigit(t, i, P, x) == x \in Nat /\ x < 10 /\ Digit(t, i) = Times(P, x)
Carried(D, R, P, k) == R \in Nat /\ R < P /\ k \in Nat /\ k < 2 /\ D = R + Times(P, k)

LEMMA UnitsOfDigits ==
  UnitsAt(0, 1, 16) /\ UnitsAt(1, 16, 256) /\ UnitsAt(2, 256, 4096) /\ UnitsAt(3, 4096, 65536)
BY Powers DEF UnitsAt, IsUnit

\* One digit of a sum: R is what the digits below have left, k their carry.
LEMMA AddStep ==
  ASSUME NEW i, NEW P, NEW Q, UnitsAt(i, P, Q),
         NEW t, NEW s, NEW x, NEW y, DecimalDigit(t, i, P, x), DecimalDigit(s, i, P, y),
         NEW D, NEW R, NEW k, Carried(D, R, P, k), NEW z, z = x + y + k
  PROVE  CarriesTo(z, R, P, Q, AddDigit(D, t, s, i))
<1>0. /\ P \in Nat /\ Q \in Nat /\ IsUnit(P) /\ 16 ^ i = P /\ 16 ^ (i + 1) = Q /\ Q = 16 * P
      /\ x \in Nat /\ x < 10 /\ Digit(t, i) = Times(P, x)
      /\ y \in Nat /\ y < 10 /\ Digit(s, i) = Times(P, y)
      /\ R \in Nat /\ R < P /\ k \in Nat /\ k < 2 /\ D = R + Times(P, k)
  BY DEF UnitsAt, DecimalDigit, Carried
<1>1. PICK q \in Nat : q = z /\ q = x + y + k /\ q < 20
  BY <1>0
<1>2. D + Digit(t, i) + Digit(s, i) = R + Times(P, q)
  <2>1. Times(P, k) + Times(P, x) + Times(P, y) = Times(P, q)
    BY <1>0, <1>1, UnitsAdd
  <2>2. Times(P, k) \in Nat /\ Times(P, x) \in Nat /\ Times(P, y) \in Nat
    BY <1>0, Units
  <2> QED BY <1>0, <2>1, <2>2
<1>3. Times(P, q) \in Nat /\ P \in Nat /\ 10 * P \in Nat /\ Q \in Nat \ {0}
      /\ Times(Q, 0) = 0 /\ Times(Q, 1) = Q
  BY <1>0, Units
<1>4. CASE q < 10
  <2>1. R + Times(P, q) < 10 * P
    BY <1>0, <1>4, Units
  <2>2. AddDigit(D, t, s, i) = R + Times(P, q)
    BY <1>0, <1>2, <1>3, <2>1 DEF AddDigit
  <2>3. AddDigit(D, t, s, i) = R + Times(P, q) + Times(Q, 0) /\ q = 10 * 0 + q
    BY <1>0, <1>3, <2>2
  <2> QED BY <1>1, <1>4, <2>3 DEF CarriesTo
<1>5. CASE q >= 10
  <2>1. PICK r \in Nat : r = q - 10 /\ r < 10 /\ q = 10 * 1 + r
    BY <1>1, <1>5
  <2>2. /\ R + Times(P, q) >= 10 * P /\ R + Times(P, q) - 10 * P = R + Times(P, r)
        /\ R + Times(P, r) < Q /\ Times(P, r) \in Nat
    BY <1>0, <1>1, <1>5, <2>1, Units
  <2>3. (R + Times(P, r)) % Q = R + Times(P, r)
    BY <1>0, <1>3, <2>2
  <2>4. AddDigit(D, t, s, i) = R + Times(P, r) + Q
    BY <1>0, <1>2, <1>3, <2>2, <2>3 DEF AddDigit, Masked
  <2>5. AddDigit(D, t, s, i) = R + Times(P, r) + Times(Q, 1)
    BY <1>0, <1>3, <2>4
  <2> QED BY <1>1, <2>1, <2>5 DEF CarriesTo
<1> QED BY <1>0, <1>1, <1>4, <1>5

\* A number with these digits, all of them decimal.
IsDecimal(t, t0, t1, t2, t3) ==
  /\ t0 \in Nat /\ t1 \in Nat /\ t2 \in Nat /\ t3 \in Nat
  /\ t0 < 10 /\ t1 < 10 /\ t2 < 10 /\ t3 < 10
  /\ HasDigits(t, t0, t1, t2, t3)

\* The result e has these decimal digits and a carry, and they make the number z.
Decimal2(e, z, r0, r1, n) ==
  /\ r0 \in Nat /\ r1 \in Nat /\ n \in Nat /\ r0 < 10 /\ r1 < 10 /\ n < 2
  /\ e = r0 + 16 * r1 + 256 * n /\ z = r0 + 10 * r1 + 100 * n
Decimal4(e, z, r0, r1, r2, r3, n) ==
  /\ r0 \in Nat /\ r1 \in Nat /\ r2 \in Nat /\ r3 \in Nat /\ n \in Nat
  /\ r0 < 10 /\ r1 < 10 /\ r2 < 10 /\ r3 < 10 /\ n < 2
  /\ e = r0 + 16 * r1 + 256 * r2 + 4096 * r3 + 65536 * n
  /\ z = r0 + 10 * r1 + 100 * r2 + 1000 * r3 + 10000 * n

\* A decimal sum of numbers with decimal digits.
LEMMA DecimalAddIsExact ==
  ASSUME NEW w \in {2, 4}, NEW c \in Nat, c < 2,
         NEW t, NEW t0, NEW t1, NEW t2, NEW t3, IsDecimal(t, t0, t1, t2, t3),
         NEW s, NEW s0, NEW s1, NEW s2, NEW s3, IsDecimal(s, s0, s1, s2, s3)
  PROVE  /\ w = 2 => \E r0, r1, n :
                       Decimal2(DecimalAdd(c, t, s, w), t0 + 10 * t1 + s0 + 10 * s1 + c, r0, r1, n)
         /\ w = 4 => \E r0, r1, r2, r3, n :
                       Decimal4(DecimalAdd(c, t, s, w),
                                t0 + 10 * t1 + 100 * t2 + 1000 * t3 + s0 + 10 * s1 + 100 * s2 + 1000 * s3 + c,
                                r0, r1, r2, r3, n)
<1>1. PICK d1, d2, d3, d4 :
        /\ d1 = AddDigit(c, t, s, 0) /\ d2 = AddDigit(d1, t, s, 1)
        /\ d3 = AddDigit(d2, t, s, 2) /\ d4 = AddDigit(d3, t, s, 3)
        /\ DecimalAdd(c, t, s, w) = (IF w = 2 THEN d2 ELSE d4)
  BY AddUnfolds
<1>2. /\ DecimalDigit(t, 0, 1, t0) /\ DecimalDigit(s, 0, 1, s0)
      /\ DecimalDigit(t, 1, 16, t1) /\ DecimalDigit(s, 1, 16, s1)
      /\ DecimalDigit(t, 2, 256, t2) /\ DecimalDigit(s, 2, 256, s2)
      /\ DecimalDigit(t, 3, 4096, t3) /\ DecimalDigit(s, 3, 4096, s3)
  BY DEF IsDecimal, HasDigits, DecimalDigit, Times
<1>0. /\ t0 \in Nat /\ t1 \in Nat /\ t2 \in Nat /\ t3 \in Nat
      /\ s0 \in Nat /\ s1 \in Nat /\ s2 \in Nat /\ s3 \in Nat
  BY DEF IsDecimal
<1>3. PICK r0 \in Nat, n0 \in Nat :
        r0 < 10 /\ n0 < 2 /\ t0 + s0 + c = 10 * n0 + r0 /\ d1 = r0 + 16 * n0
  <2>1. Carried(c, 0, 1, c)
    BY DEF Carried, Times
  <2>2. CarriesTo(t0 + s0 + c, 0, 1, 16, AddDigit(c, t, s, 0))
    BY <1>2, <2>1, UnitsOfDigits, AddStep
  <2> QED BY <1>0, <1>1, <2>2 DEF CarriesTo, Times
<1>4. PICK r1 \in Nat, n1 \in Nat :
        r1 < 10 /\ n1 < 2 /\ t1 + s1 + n0 = 10 * n1 + r1 /\ d2 = r0 + 16 * r1 + 256 * n1
  <2>1. Carried(d1, r0, 16, n0)
    BY <1>3 DEF Carried, Times
  <2>2. CarriesTo(t1 + s1 + n0, r0, 16, 256, AddDigit(d1, t, s, 1))
    BY <1>2, <2>1, UnitsOfDigits, AddStep
  <2> QED BY <1>0, <1>1, <2>2 DEF CarriesTo, Times
<1>5. PICK r2 \in Nat, n2 \in Nat :
        r2 < 10 /\ n2 < 2 /\ t2 + s2 + n1 = 10 * n2 + r2
        /\ d3 = r0 + 16 * r1 + 256 * r2 + 4096 * n2
  <2>1. PICK R \in Nat : R = r0 + 16 * r1 /\ R < 256
    BY <1>3, <1>4
  <2>2. Carried(d2, R, 256, n1)
    BY <1>4, <2>1 DEF Carried, Times
  <2>3. CarriesTo(t2 + s2 + n1, R, 256, 4096, AddDigit(d2, t, s, 2))
    BY <1>2, <2>2, UnitsOfDigits, AddStep
  <2> QED BY <1>0, <1>1, <2>1, <2>3 DEF CarriesTo, Times
<1>6. PICK r3 \in Nat, n3 \in Nat :
        r3 < 10 /\ n3 < 2 /\ t3 + s3 + n2 = 10 * n3 + r3
        /\ d4 = r0 + 16 * r1 + 256 * r2 + 4096 * r3 + 65536 * n3
  <2>1. PICK R \in Nat : R = r0 + 16 * r1 + 256 * r2 /\ R < 4096
    BY <1>3, <1>4, <1>5
  <2>2. Carried(d3, R, 4096, n2)
    BY <1>5, <2>1 DEF Carried, Times
  <2>3. CarriesTo(t3 + s3 + n2, R, 4096, 65536, AddDigit(d3, t, s, 3))
    BY <1>2, <2>2, UnitsOfDigits, AddStep
  <2> QED BY <1>0, <1>1, <2>1, <2>3 DEF CarriesTo, Times
<1>7. t0 + 10 * t1 + s0 + 10 * s1 + c = r0 + 10 * r1 + 100 * n1
  BY <1>0, <1>3, <1>4
<1>8. t0 + 10 * t1 + 100 * t2 + 1000 * t3 + s0 + 10 * s1 + 100 * s2 + 1000 * s3 + c
        = r0 + 10 * r1 + 100 * r2 + 1000 * r3 + 10000 * n3
  BY <1>0, <1>3, <1>4, <1>5, <1>6
<1>9. Decimal2(d2, t0 + 10 * t1 + s0 + 10 * s1 + c, r0, r1, n1)
  BY <1>3, <1>4, <1>7 DEF Decimal2
<1>10. Decimal4(d4, t0 + 10 * t1 + 100 * t2 + 1000 * t3 + s0 + 10 * s1 + 100 * s2 + 1000 * s3 + c,
                r0, r1, r2, r3, n3)
  BY <1>3, <1>4, <1>5, <1>6, <1>8 DEF Decimal4
<1> QED BY <1>1, <1>9, <1>10

-----------------------------------------------------------------------------
\* The register of a subtraction wraps.
LEMMA UintType ==
  UINT \in Nat \ {0} /\ \E u \in Nat : UINT = 256 * (256 * (16 * u)) /\ u > 0
<1>1. UINT \in Nat /\ UINT >= 1048576 /\ UINT % 1048576 = 0
  BY AdderAssumption, SMT
<1>2. UINT \div 1048576 \in Int /\ UINT = 1048576 * (UINT \div 1048576) + (UINT % 1048576)
  BY <1>1, SMT
<1>3. PICK u \in Int : u = UINT \div 1048576
  BY <1>2, SMT
<1>4. UINT = 256 * (256 * (16 * u)) /\ u > 0
  BY <1>1, <1>2, <1>3, SMT
<1> QED BY <1>1, <1>4, SMT

\* A small number is itself, and a small negative one wraps once.
LEMMA UintOf ==
  ASSUME NEW z \in Int
  PROVE  /\ Uint(z) \in Int
         /\ 0 <= z /\ z < UINT => Uint(z) = z
         /\ -UINT <= z /\ z < 0 => Uint(z) = UINT + z
<1>0. UINT \in Nat \ {0} /\ Uint(z) \in Int
  BY UintType, DivMod DEF Uint
<1>1. ASSUME 0 <= z, z < UINT PROVE Uint(z) = z
  <2>1. z = UINT * 0 + z /\ z \in 0 .. UINT - 1
    BY <1>0, <1>1
  <2> QED BY <1>0, <2>1, DivUnique DEF Uint
<1>2. ASSUME -UINT <= z, z < 0 PROVE Uint(z) = UINT + z
  <2>1. z = UINT * (-1) + (UINT + z) /\ UINT + z \in 0 .. UINT - 1 /\ -1 \in Int
    BY <1>0, <1>2
  <2> QED BY <1>0, <2>1, DivUnique DEF Uint
<1> QED BY <1>0, <1>1, <1>2

\* Wrapping before an addition changes nothing.
LEMMA UintAdds ==
  ASSUME NEW a \in Int, NEW b \in Int
  PROVE  Uint(Uint(a) + b) = Uint(a + b)
BY UintType, ReduceFirst DEF Uint

\* What a digit's unit makes of a difference, and of the register's range.
Borrows(P, q, R) ==
  /\ Times(P, q) \in Int
  /\ 0 <= q /\ q < 10 => 0 <= R + Times(P, q) /\ R + Times(P, q) < 10 * P
  /\ -10 <= q /\ q < 0 => /\ -(10 * P) <= R + Times(P, q) /\ R + Times(P, q) < 0
                          /\ R + Times(P, q) + 10 * P = R + Times(P, q + 10)

LEMMA UnitsBorrow ==
  ASSUME NEW P \in Nat, IsUnit(P), NEW q \in Int, NEW R \in Nat, R < P
  PROVE  Borrows(P, q, R)
<1>1. CASE P = 1
  BY <1>1 DEF Times, Borrows
<1>2. CASE P = 16
  BY <1>2 DEF Times, Borrows
<1>3. CASE P = 256
  BY <1>3 DEF Times, Borrows
<1>4. CASE P = 4096
  BY <1>4 DEF Times, Borrows
<1> QED BY <1>1, <1>2, <1>3, <1>4 DEF IsUnit

Divides(Q, n) == \E v \in Int : n = Q * v

\* A digit's unit divides the range of the register.
LEMMA UnitsInRegister ==
  ASSUME NEW P \in Nat, IsUnit(P), NEW Q \in Nat, Q = 16 * P
  PROVE  /\ Q \in Nat \ {0} /\ 10 * P \in Nat /\ 20 * P <= UINT
         /\ Times(Q, 0) = 0 /\ Times(Q, 1) = Q
         /\ Divides(Q, UINT)
<1>1. PICK u \in Nat : UINT = 256 * (256 * (16 * u)) /\ u > 0
  BY UintType
<1>2. /\ UINT = 16 * (256 * (256 * u)) /\ UINT = 256 * (256 * (16 * u)) /\ UINT = 4096 * (256 * u)
      /\ UINT = 65536 * (16 * u)
  BY <1>1, SMT
<1>3. 256 * (256 * u) \in Int /\ 256 * (16 * u) \in Int /\ 256 * u \in Int /\ 16 * u \in Int
  BY SMT
<1>4. Divides(16, UINT) /\ Divides(256, UINT) /\ Divides(4096, UINT) /\ Divides(65536, UINT)
  BY <1>2, <1>3, SMT DEF Divides
<1>5. CASE P = 1
  BY <1>1, <1>4, <1>5, SMT DEF Times
<1>6. CASE P = 16
  BY <1>1, <1>4, <1>6, SMT DEF Times
<1>7. CASE P = 256
  BY <1>1, <1>4, <1>7, SMT DEF Times
<1>8. CASE P = 4096
  BY <1>1, <1>4, <1>8, SMT DEF Times
<1> QED BY <1>5, <1>6, <1>7, <1>8 DEF IsUnit

\* Differences of multiples of a digit's unit.
LEMMA UnitsDiffer ==
  ASSUME NEW P \in Nat, IsUnit(P), NEW x \in Nat, NEW y \in Nat, NEW k \in Nat
  PROVE  Times(P, x) - Times(P, y) - Times(P, k) = Times(P, x - y - k)
<1>1. CASE P = 1
  BY <1>1 DEF Times
<1>2. CASE P = 16
  BY <1>2 DEF Times
<1>3. CASE P = 256
  BY <1>3 DEF Times
<1>4. CASE P = 4096
  BY <1>4 DEF Times
<1> QED BY <1>1, <1>2, <1>3, <1>4 DEF IsUnit

\* The difference of two digits and a borrow, and the borrow that it leaves.
Borrowed(D, R, P, k) == R \in Nat /\ R < P /\ k \in Nat /\ k < 2 /\ D = Uint(R - Times(P, k))
BorrowsTo(z, R, P, Q, e) ==
  \E r \in Nat, n \in Nat : /\ r < 10 /\ n < 2 /\ z = r - 10 * n
                            /\ e = Uint(R + Times(P, r) - Times(Q, n))

\* One digit of a difference: R is what the digits below have left, k their borrow.
LEMMA SubStep ==
  ASSUME NEW i, NEW P, NEW Q, UnitsAt(i, P, Q),
         NEW t, NEW s, NEW x, NEW y, DecimalDigit(t, i, P, x), DecimalDigit(s, i, P, y),
         NEW D, NEW R, NEW k, Borrowed(D, R, P, k), NEW z, z = x - y - k
  PROVE  BorrowsTo(z, R, P, Q, SubDigit(D, t, s, i))
<1>0. /\ P \in Nat /\ Q \in Nat /\ IsUnit(P) /\ 16 ^ i = P /\ 16 ^ (i + 1) = Q /\ Q = 16 * P
      /\ x \in Nat /\ x < 10 /\ Digit(t, i) = Times(P, x)
      /\ y \in Nat /\ y < 10 /\ Digit(s, i) = Times(P, y)
      /\ R \in Nat /\ R < P /\ k \in Nat /\ k < 2 /\ D = Uint(R - Times(P, k))
  BY DEF UnitsAt, DecimalDigit, Borrowed
<1>1. PICK q \in Int : q = z /\ q = x - y - k /\ q < 10 /\ -10 <= q
  BY <1>0
<1>2. /\ \A n \in Int : Borrows(P, n, R) /\ Times(P, n) \in Int
      /\ Q \in Nat \ {0} /\ 10 * P \in Nat /\ 20 * P <= UINT /\ Times(Q, 0) = 0 /\ Times(Q, 1) = Q
      /\ UINT \in Nat \ {0}
  <2>1. \A n \in Int : Borrows(P, n, R)
    BY <1>0, UnitsBorrow
  <2>2. \A n \in Int : Times(P, n) \in Int
    BY <2>1 DEF Borrows
  <2> QED BY <1>0, <2>1, <2>2, UnitsInRegister, UintType
<1>3. PICK v \in Int : UINT = Q * v
  BY <1>0, UnitsInRegister DEF Divides
<1>4. Uint(D + Digit(t, i) - Digit(s, i)) = Uint(R + Times(P, q))
  <2>1. /\ Times(P, x) \in Int /\ Times(P, y) \in Int /\ Times(P, k) \in Int /\ Times(P, q) \in Int
        /\ Times(P, x) - Times(P, y) - Times(P, k) = Times(P, q)
    BY <1>0, <1>1, <1>2, UnitsDiffer
  <2>2. PICK a \in Int, b \in Int :
          /\ a = R - Times(P, k) /\ b = Times(P, x) - Times(P, y)
          /\ D \in Int /\ D = Uint(a) /\ a + b = R + Times(P, q)
          /\ D + Digit(t, i) - Digit(s, i) = Uint(a) + b
    <3>1. R - Times(P, k) \in Int /\ Times(P, x) - Times(P, y) \in Int
      BY <1>0, <2>1
    <3>2. D \in Int
      BY <1>0, <3>1, UintOf
    <3> QED BY <1>0, <2>1, <3>1, <3>2
  <2>3. Uint(Uint(a) + b) = Uint(a + b)
    BY UintAdds
  <2> QED BY <2>2, <2>3
<1>5. PICK m \in Int : m = R + Times(P, q)
  BY <1>0, <1>2
<1>6. CASE 0 <= q
  <2>1. 0 <= m /\ m < 10 * P
    BY <1>0, <1>1, <1>2, <1>5, <1>6 DEF Borrows
  <2>2. Uint(m) = m
    BY <1>0, <1>2, <2>1, UintOf
  <2>3. SubDigit(D, t, s, i) = m
    BY <1>0, <1>2, <1>4, <1>5, <2>1, <2>2 DEF SubDigit
  <2>4. SubDigit(D, t, s, i) = Uint(R + Times(P, q) - Times(Q, 0)) /\ q = q - 10 * 0 /\ q \in Nat
    BY <1>0, <1>1, <1>2, <1>5, <1>6, <2>2, <2>3
  <2> QED BY <1>1, <2>4 DEF BorrowsTo
<1>7. CASE q < 0
  <2>1. PICK r \in Nat : r = q + 10 /\ r < 10 /\ q = r - 10 * 1
    BY <1>1, <1>7
  <2>2. PICK l \in Int : l = R + Times(P, r)
    BY <1>0, <1>2
  <2>3. /\ -(10 * P) <= m /\ m < 0 /\ m + 10 * P = l
        /\ 0 <= l /\ l < 10 * P
    <3>1. -(10 * P) <= m /\ m < 0 /\ m + 10 * P = R + Times(P, q + 10)
      BY <1>0, <1>1, <1>2, <1>5, <1>7 DEF Borrows
    <3>2. 0 <= R + Times(P, r) /\ R + Times(P, r) < 10 * P
      BY <1>0, <1>2, <2>1 DEF Borrows
    <3>3. q + 10 = r
      BY <2>1
    <3> QED BY <2>2, <3>1, <3>2, <3>3
  <2>4. Uint(m) = UINT + m /\ UINT + m >= 10 * P /\ (UINT + m) + 10 * P = UINT + l
    BY <1>0, <1>2, <2>3, UintOf
  <2>5. (UINT + l) % Q = l
    <3>1. UINT + l \in Int /\ l \in 0 .. Q - 1 /\ UINT + l = Q * v + l
      BY <1>0, <1>2, <1>3, <2>3
    <3> QED BY <1>2, <1>3, <3>1, DivUnique
  <2>6. SubDigit(D, t, s, i) = Uint(l - Q)
    <3> DEFINE dif == Uint(D + Digit(t, i) - Digit(s, i))
    <3>1. dif = UINT + m
      BY <1>4, <1>5, <2>4
    <3>2. SubDigit(D, t, s, i) = IF dif >= 10 * 16 ^ i
                                 THEN Uint(Masked(dif + 10 * 16 ^ i, i) - 16 ^ (i + 1)) ELSE dif
      BY DEF SubDigit
    <3> HIDE DEF dif
    <3>3. dif >= 10 * 16 ^ i
      BY <1>0, <2>4, <3>1
    <3>4. Masked(dif + 10 * 16 ^ i, i) = l
      BY <1>0, <2>4, <2>5, <3>1 DEF Masked
    <3> QED BY <1>0, <3>2, <3>3, <3>4
  <2>7. SubDigit(D, t, s, i) = Uint(R + Times(P, r) - Times(Q, 1))
    <3>1. Times(Q, 1) = Q /\ l = R + Times(P, r)
      BY <1>2, <2>2
    <3>2. R + Times(P, r) - Times(Q, 1) = l - Q
      BY <1>0, <1>2, <3>1
    <3> QED BY <2>6, <3>2
  <2> QED BY <1>1, <2>1, <2>7 DEF BorrowsTo
<1> QED BY <1>6, <1>7

\* The carry is the borrow's complement, also of a register that has wrapped.
Whole(x, M, S, b) == x % M = S /\ (x \div M) % 2 = b
LEMMA CarryInverts ==
  ASSUME NEW w \in {2, 4}, NEW M \in Nat, M = 16 ^ w, NEW S \in Nat, S < M,
         NEW n \in Nat, n < 2, NEW x, x = Uint(S - Times(M, n))
  PROVE  Whole(InvertCarry(x, w), M, S, 1 - n)
<1>1. PICK u \in Nat : UINT = 256 * (256 * (16 * u)) /\ u > 0
  BY UintType
<1>2. PICK v \in Nat : UINT = M * (2 * v) /\ v > 0 /\ M \in Nat \ {0} /\ M > 1
  <2>1. CASE w = 2
    <3>1. M = 256 /\ UINT = 256 * (2 * (256 * (8 * u))) /\ 256 * (8 * u) > 0 /\ 256 * (8 * u) \in Nat
      BY <1>1, <2>1, Powers, SMT
    <3> QED BY <3>1, SMT
  <2>2. CASE w = 4
    <3>1. M = 65536 /\ UINT = 65536 * (2 * (8 * u)) /\ 8 * u > 0 /\ 8 * u \in Nat
      BY <1>1, <2>2, Powers, SMT
    <3> QED BY <3>1, SMT
  <2> QED BY <2>1, <2>2
<1>3. Times(M, 0) = 0 /\ Times(M, 1) = M
  BY DEF Times
<1>4. UINT \in Nat \ {0} /\ M <= UINT
  <2>1. M * (2 * v) = M + M * (2 * v - 1) /\ M * (2 * v - 1) >= 0
    BY <1>2
  <2> QED BY <1>2, <2>1, UintType
<1>5. CASE n = 0
  <2>1. x = S
    BY <1>3, <1>4, <1>5, UintOf
  <2>2. S \div M = 0
    <3>1. S = M * 0 + S /\ S \in 0 .. M - 1
      BY <1>2
    <3> QED BY <1>2, <3>1, DivUnique
  <2>3. InvertCarry(x, w) = S + M
    BY <2>1, <2>2 DEF InvertCarry
  <2>4. (S + M) \div M = 1 /\ (S + M) % M = S
    <3>1. S + M = M * 1 + S /\ S \in 0 .. M - 1 /\ S + M \in Int
      BY <1>2
    <3> QED BY <1>2, <3>1, DivUnique
  <2> QED BY <1>5, <2>3, <2>4 DEF Whole
<1>6. CASE n = 1
  <2>1. x = UINT + S - M /\ x \in Int
    <3>1. S - Times(M, n) \in Int /\ S - Times(M, n) = S - M /\ -UINT <= S - M /\ S - M < 0
      BY <1>3, <1>4, <1>6
    <3> QED BY <1>4, <3>1, UintOf
  <2>2. x \div M = 2 * v - 1
    <3>1. x = M * (2 * v - 1) + S /\ S \in 0 .. M - 1 /\ 2 * v - 1 \in Int
      BY <1>2, <2>1
    <3>2. PICK q \in Int : q = 2 * v - 1 /\ x = M * q + S
      BY <3>1
    <3>3. M \in Nat \ {0} /\ x \in Int
      BY <1>2, <2>1
    <3>4. x \div M = q
      BY <3>1, <3>2, <3>3, DivUnique
    <3> QED BY <3>2, <3>4
  <2>3. (2 * v - 1) % 2 = 1 /\ (2 * v - 2) % 2 = 0
    BY <1>2
  <2>4. InvertCarry(x, w) = x - M
    BY <2>2, <2>3 DEF InvertCarry
  <2>5. (x - M) \div M = 2 * v - 2 /\ (x - M) % M = S
    <3>1. x - M = M * (2 * v - 2) + S /\ S \in 0 .. M - 1 /\ 2 * v - 2 \in Int /\ x - M \in Int
      BY <1>2, <2>1
    <3> QED BY <1>2, <3>1, DivUnique
  <2> QED BY <1>6, <2>3, <2>4, <2>5 DEF Whole
<1> QED BY <1>5, <1>6

\* The result e leaves these decimal digits and a carry, the complement of the borrow n.
Rest2(e, z, r0, r1, n) ==
  /\ r0 \in Nat /\ r1 \in Nat /\ n \in Nat /\ r0 < 10 /\ r1 < 10 /\ n < 2
  /\ Whole(e, 256, r0 + 16 * r1, 1 - n) /\ z = r0 + 10 * r1 - 100 * n
Rest4(e, z, r0, r1, r2, r3, n) ==
  /\ r0 \in Nat /\ r1 \in Nat /\ r2 \in Nat /\ r3 \in Nat /\ n \in Nat
  /\ r0 < 10 /\ r1 < 10 /\ r2 < 10 /\ r3 < 10 /\ n < 2
  /\ Whole(e, 65536, r0 + 16 * r1 + 256 * r2 + 4096 * r3, 1 - n)
  /\ z = r0 + 10 * r1 + 100 * r2 + 1000 * r3 - 10000 * n

\* What a digit's difference leaves is what the next digit starts from.
LEMMA BorrowUnfolds ==
  ASSUME NEW z \in Int, NEW R \in Nat, NEW P, NEW Q, NEW e, NEW i, UnitsAt(i, P, Q), R < P,
         BorrowsTo(z, R, P, Q, e)
  PROVE  \E r \in Nat, n \in Nat :
           /\ r < 10 /\ n < 2 /\ z = r - 10 * n
           /\ R + Times(P, r) \in Nat /\ R + Times(P, r) < Q
           /\ e = Uint((R + Times(P, r)) - Times(Q, n)) /\ Borrowed(e, R + Times(P, r), Q, n)
<1>1. PICK r \in Nat, n \in Nat : /\ r < 10 /\ n < 2 /\ z = r - 10 * n
                                  /\ e = Uint(R + Times(P, r) - Times(Q, n))
  BY DEF BorrowsTo
<1>2. P \in Nat /\ Q \in Nat /\ IsUnit(P) /\ Q = 16 * P
  BY DEF UnitsAt
<1>3. Borrows(P, r, R)
  <2>1. r \in Int
    BY <1>1
  <2> QED BY <1>2, <2>1, UnitsBorrow
<1>4. Times(P, r) \in Int /\ 0 <= R + Times(P, r) /\ R + Times(P, r) < 10 * P
  BY <1>1, <1>3 DEF Borrows
<1>5. Times(Q, n) \in Int
  BY <1>1, <1>2 DEF Times
<1>6. R + Times(P, r) \in Nat /\ R + Times(P, r) < Q
  BY <1>2, <1>4
<1>7. R + Times(P, r) - Times(Q, n) = (R + Times(P, r)) - Times(Q, n)
  BY <1>4, <1>5
<1> QED BY <1>1, <1>6, <1>7 DEF Borrowed

\* A decimal difference of numbers with decimal digits.
LEMMA DecimalSubIsExact ==
  ASSUME NEW w \in {2, 4}, NEW c \in Nat, c < 2,
         NEW t, NEW t0, NEW t1, NEW t2, NEW t3, IsDecimal(t, t0, t1, t2, t3),
         NEW s, NEW s0, NEW s1, NEW s2, NEW s3, IsDecimal(s, s0, s1, s2, s3)
  PROVE  /\ w = 2 => \E r0, r1, n :
                       Rest2(DecimalSub(c, t, s, w), t0 + 10 * t1 - (s0 + 10 * s1 + (1 - c)), r0, r1, n)
         /\ w = 4 => \E r0, r1, r2, r3, n :
                       Rest4(DecimalSub(c, t, s, w),
                             t0 + 10 * t1 + 100 * t2 + 1000 * t3
                               - (s0 + 10 * s1 + 100 * s2 + 1000 * s3 + (1 - c)),
                             r0, r1, r2, r3, n)
<1>1. PICK d1, d2, d3, d4 :
        /\ d1 = SubDigit(Uint(c - 1), t, s, 0) /\ d2 = SubDigit(d1, t, s, 1)
        /\ d3 = SubDigit(d2, t, s, 2) /\ d4 = SubDigit(d3, t, s, 3)
        /\ DecimalSub(c, t, s, w) = InvertCarry(IF w = 2 THEN d2 ELSE d4, w)
  BY SubUnfolds
<1>2. /\ DecimalDigit(t, 0, 1, t0) /\ DecimalDigit(s, 0, 1, s0)
      /\ DecimalDigit(t, 1, 16, t1) /\ DecimalDigit(s, 1, 16, s1)
      /\ DecimalDigit(t, 2, 256, t2) /\ DecimalDigit(s, 2, 256, s2)
      /\ DecimalDigit(t, 3, 4096, t3) /\ DecimalDigit(s, 3, 4096, s3)
  BY DEF IsDecimal, HasDigits, DecimalDigit, Times
<1>0. /\ t0 \in Nat /\ t1 \in Nat /\ t2 \in Nat /\ t3 \in Nat
      /\ s0 \in Nat /\ s1 \in Nat /\ s2 \in Nat /\ s3 \in Nat
  BY DEF IsDecimal
<1>3. PICK k \in Nat : k < 2 /\ k = 1 - c
  OBVIOUS
<1>4. PICK r0 \in Nat, n0 \in Nat :
        /\ r0 < 10 /\ n0 < 2 /\ t0 - s0 - k = r0 - 10 * n0
        /\ Borrowed(d1, r0, 16, n0)
  <2>1. Borrowed(Uint(c - 1), 0, 1, k)
    <3>1. 0 - Times(1, k) = c - 1
      BY <1>3 DEF Times
    <3> QED BY <1>3, <3>1 DEF Borrowed
  <2>2. BorrowsTo(t0 - s0 - k, 0, 1, 16, d1)
    BY <1>1, <1>2, <2>1, UnitsOfDigits, SubStep
  <2>3. t0 - s0 - k \in Int /\ 0 < 1 /\ 0 \in Nat
    BY <1>0, <1>3
  <2>4. PICK r \in Nat, n \in Nat : r < 10 /\ n < 2 /\ t0 - s0 - k = r - 10 * n
                                    /\ Borrowed(d1, 0 + Times(1, r), 16, n)
    BY <2>2, <2>3, UnitsOfDigits, BorrowUnfolds
  <2>5. 0 + Times(1, r) = r
    BY <2>4 DEF Times
  <2> QED BY <2>4, <2>5
<1>5. PICK r1 \in Nat, n1 \in Nat :
        /\ r1 < 10 /\ n1 < 2 /\ t1 - s1 - n0 = r1 - 10 * n1
        /\ Borrowed(d2, r0 + 16 * r1, 256, n1)
  <2>1. BorrowsTo(t1 - s1 - n0, r0, 16, 256, d2)
    BY <1>1, <1>2, <1>4, UnitsOfDigits, SubStep
  <2>2. t1 - s1 - n0 \in Int /\ r0 < 16 /\ r0 \in Nat
    BY <1>0, <1>4
  <2>3. PICK r \in Nat, n \in Nat : r < 10 /\ n < 2 /\ t1 - s1 - n0 = r - 10 * n
                                    /\ Borrowed(d2, r0 + Times(16, r), 256, n)
    BY <2>1, <2>2, UnitsOfDigits, BorrowUnfolds
  <2> QED BY <2>3 DEF Times
<1>6. PICK r2 \in Nat, n2 \in Nat :
        /\ r2 < 10 /\ n2 < 2 /\ t2 - s2 - n1 = r2 - 10 * n2
        /\ Borrowed(d3, r0 + 16 * r1 + 256 * r2, 4096, n2)
  <2>0. PICK R \in Nat : R = r0 + 16 * r1 /\ R < 256
    BY <1>4, <1>5
  <2>1. BorrowsTo(t2 - s2 - n1, R, 256, 4096, d3)
    BY <1>1, <1>2, <1>5, <2>0, UnitsOfDigits, SubStep
  <2>2. t2 - s2 - n1 \in Int
    BY <1>0, <1>5
  <2>3. PICK r \in Nat, n \in Nat : r < 10 /\ n < 2 /\ t2 - s2 - n1 = r - 10 * n
                                    /\ Borrowed(d3, R + Times(256, r), 4096, n)
    BY <2>0, <2>1, <2>2, UnitsOfDigits, BorrowUnfolds
  <2>4. R + Times(256, r) = r0 + 16 * r1 + 256 * r
    BY <1>4, <1>5, <2>0, <2>3 DEF Times
  <2> QED BY <2>3, <2>4
<1>7. PICK r3 \in Nat, n3 \in Nat :
        /\ r3 < 10 /\ n3 < 2 /\ t3 - s3 - n2 = r3 - 10 * n3
        /\ Borrowed(d4, r0 + 16 * r1 + 256 * r2 + 4096 * r3, 65536, n3)
  <2>0. PICK R \in Nat : R = r0 + 16 * r1 + 256 * r2 /\ R < 4096
    BY <1>4, <1>5, <1>6
  <2>1. BorrowsTo(t3 - s3 - n2, R, 4096, 65536, d4)
    BY <1>1, <1>2, <1>6, <2>0, UnitsOfDigits, SubStep
  <2>2. t3 - s3 - n2 \in Int
    BY <1>0, <1>6
  <2>3. PICK r \in Nat, n \in Nat : r < 10 /\ n < 2 /\ t3 - s3 - n2 = r - 10 * n
                                    /\ Borrowed(d4, R + Times(4096, r), 65536, n)
    BY <2>0, <2>1, <2>2, UnitsOfDigits, BorrowUnfolds
  <2>4. R + Times(4096, r) = r0 + 16 * r1 + 256 * r2 + 4096 * r
    BY <1>4, <1>5, <1>6, <2>0, <2>3 DEF Times
  <2> QED BY <2>3, <2>4
<1>8. ASSUME w = 2
      PROVE  Rest2(DecimalSub(c, t, s, w), t0 + 10 * t1 - (s0 + 10 * s1 + (1 - c)), r0, r1, n1)
  <2>1. PICK S \in Nat : S = r0 + 16 * r1 /\ S < 256
    BY <1>4, <1>5
  <2>2. d2 = Uint(S - Times(256, n1))
    BY <1>5, <2>1 DEF Borrowed
  <2>3. Whole(InvertCarry(d2, w), 256, S, 1 - n1)
    BY <1>5, <1>8, <2>1, <2>2, Powers, CarryInverts
  <2>4. t0 + 10 * t1 - (s0 + 10 * s1 + (1 - c)) = r0 + 10 * r1 - 100 * n1
    BY <1>0, <1>3, <1>4, <1>5
  <2>5. DecimalSub(c, t, s, w) = InvertCarry(d2, w)
    BY <1>1, <1>8
  <2> QED BY <1>4, <1>5, <2>1, <2>3, <2>4, <2>5 DEF Rest2
<1>9. ASSUME w = 4
      PROVE  Rest4(DecimalSub(c, t, s, w),
                   t0 + 10 * t1 + 100 * t2 + 1000 * t3
                     - (s0 + 10 * s1 + 100 * s2 + 1000 * s3 + (1 - c)), r0, r1, r2, r3, n3)
  <2>1. PICK S \in Nat : S = r0 + 16 * r1 + 256 * r2 + 4096 * r3 /\ S < 65536
    BY <1>4, <1>5, <1>6, <1>7, SMT
  <2>2. d4 = Uint(S - Times(65536, n3))
    BY <1>7, <2>1, SMT DEF Borrowed
  <2>3. Whole(InvertCarry(d4, w), 65536, S, 1 - n3)
    BY <1>7, <1>9, <2>1, <2>2, Powers, CarryInverts, SMT
  <2>4. t0 + 10 * t1 + 100 * t2 + 1000 * t3 - (s0 + 10 * s1 + 100 * s2 + 1000 * s3 + (1 - c))
          = r0 + 10 * r1 + 100 * r2 + 1000 * r3 - 10000 * n3
    BY <1>0, <1>3, <1>4, <1>5, <1>6, <1>7, SMT
  <2>5. DecimalSub(c, t, s, w) = InvertCarry(d4, w)
    BY <1>1, <1>9
  <2> QED BY <1>4, <1>5, <1>6, <1>7, <2>1, <2>3, <2>4, <2>5, SMT DEF Rest4
<1> QED BY <1>8, <1>9

\* The interpreters agree: the complements have the same differences of digits.
Complements(x, w) ==
  /\ Complement(x, w) \in Nat /\ Complement(x, w) < 16 ^ w
  /\ Complement(Complement(x, w), w) = x
  /\ Digit(Complement(x, w), 0) = 15 - Digit(x, 0)
  /\ Digit(Complement(x, w), 1) = 240 - Digit(x, 1)
  /\ w = 4 => /\ Digit(Complement(x, w), 2) = 3840 - Digit(x, 2)
              /\ Digit(Complement(x, w), 3) = 61440 - Digit(x, 3)
  /\ Digit(x, 0) \in Nat /\ Digit(x, 1) \in Nat /\ Digit(x, 2) \in Nat /\ Digit(x, 3) \in Nat

\* A complement has the complements of the digits.
LEMMA ComplementsDiffer ==
  ASSUME NEW w \in {2, 4}, NEW x \in Nat, x < 16 ^ w
  PROVE  Complements(x, w)
<1>0. x < 65536 /\ (w = 2 => x < 256)
  <2>1. CASE w = 2
    BY <2>1, Powers, SMT
  <2>2. CASE w = 4
    BY <2>2, Powers, SMT
  <2> QED BY <2>1, <2>2
<1>1. PICK x0 \in Nat, x1 \in Nat, x2 \in Nat, x3 \in Nat :
         /\ x0 < 16 /\ x1 < 16 /\ x2 < 16 /\ x3 < 16
         /\ HasDigits(x, x0, x1, x2, x3) /\ (x < 256 => x2 = 0 /\ x3 = 0)
  <2>1. InDigits(x)
    BY <1>0, NumbersHaveDigits
  <2> QED BY <2>1 DEF InDigits
<1>2. /\ x = x0 + 16 * x1 + 256 * x2 + 4096 * x3
      /\ Digit(x, 0) = x0 /\ Digit(x, 1) = 16 * x1
      /\ Digit(x, 2) = 256 * x2 /\ Digit(x, 3) = 4096 * x3
  BY <1>1 DEF HasDigits, Sum
<1>3. Complement(x, w) \in Nat /\ Complement(x, w) < 16 ^ w /\ Complement(Complement(x, w), w) = x
  BY Powers, SMT DEF Complement
<1>6. Digit(x, 0) \in Nat /\ Digit(x, 1) \in Nat /\ Digit(x, 2) \in Nat /\ Digit(x, 3) \in Nat
  BY <1>1, <1>2
<1>4. CASE w = 2
  <2>1. PICK y0 \in Nat, y1 \in Nat : y0 = 15 - x0 /\ y1 = 15 - x1 /\ y0 < 16 /\ y1 < 16
    BY <1>1
  <2>2. Complement(x, w) = Sum(y0, y1, 0, 0)
    BY <1>0, <1>1, <1>2, <1>4, <2>1, Powers, SMT DEF Complement, Sum
  <2>3. HasDigits(Sum(y0, y1, 0, 0), y0, y1, 0, 0)
    BY <2>1, SumHasDigits
  <2>4. Digit(Complement(x, w), 0) = y0 /\ Digit(Complement(x, w), 1) = 16 * y1
    BY <2>2, <2>3 DEF HasDigits
  <2> QED BY <1>1, <1>2, <1>3, <1>4, <1>6, <2>1, <2>4 DEF Complements
<1>5. CASE w = 4
  <2>1. PICK y0 \in Nat, y1 \in Nat, y2 \in Nat, y3 \in Nat :
          /\ y0 = 15 - x0 /\ y1 = 15 - x1 /\ y2 = 15 - x2 /\ y3 = 15 - x3
          /\ y0 < 16 /\ y1 < 16 /\ y2 < 16 /\ y3 < 16
    BY <1>1
  <2>2. Complement(x, w) = Sum(y0, y1, y2, y3)
    <3>1. PICK n \in Int : n = Sum(y0, y1, y2, y3) /\ n = y0 + 16 * y1 + 256 * y2 + 4096 * y3
      BY <2>1 DEF Sum
    <3>2. n = 65535 - x
      BY <1>1, <1>2, <2>1, <3>1, SMT
    <3>3. Complement(x, w) = n
      BY <1>5, <3>2, Powers, SMT DEF Complement
    <3> QED BY <3>1, <3>3
  <2>3. HasDigits(Sum(y0, y1, y2, y3), y0, y1, y2, y3)
    <3>1. /\ y0 \in Nat /\ y1 \in Nat /\ y2 \in Nat /\ y3 \in Nat
          /\ y0 < 16 /\ y1 < 16 /\ y2 < 16 /\ y3 < 16
      BY <2>1
    <3> QED BY <3>1, SumHasDigits
  <2>4. /\ Digit(Complement(x, w), 0) = y0 /\ Digit(Complement(x, w), 1) = 16 * y1
        /\ Digit(Complement(x, w), 2) = 256 * y2 /\ Digit(Complement(x, w), 3) = 4096 * y3
    BY <2>2, <2>3 DEF HasDigits
  <2> QED BY <1>1, <1>2, <1>3, <1>5, <1>6, <2>1, <2>4, SMT DEF Complements
<1> QED BY <1>3, <1>4, <1>5, <1>6 DEF Complements

SameDigit(t, s, x, y, i) == Digit(t, i) - Digit(s, i) = Digit(x, i) - Digit(y, i)

\* Subtractions whose digits differ alike have the same result.
LEMMA SameDigits ==
  ASSUME NEW w \in {2, 4}, NEW c, NEW t, NEW s, NEW x, NEW y,
         SameDigit(t, s, x, y, 0), SameDigit(t, s, x, y, 1),
         w = 4 => SameDigit(t, s, x, y, 2) /\ SameDigit(t, s, x, y, 3)
  PROVE  DecimalSub(c, t, s, w) = DecimalSub(c, x, y, w)
<1>1. PICK d1, d2, d3, d4 :
        /\ d1 = SubDigit(Uint(c - 1), t, s, 0) /\ d2 = SubDigit(d1, t, s, 1)
        /\ d3 = SubDigit(d2, t, s, 2) /\ d4 = SubDigit(d3, t, s, 3)
        /\ DecimalSub(c, t, s, w) = InvertCarry(IF w = 2 THEN d2 ELSE d4, w)
  BY SubUnfolds
<1>2. PICK e1, e2, e3, e4 :
        /\ e1 = SubDigit(Uint(c - 1), x, y, 0) /\ e2 = SubDigit(e1, x, y, 1)
        /\ e3 = SubDigit(e2, x, y, 2) /\ e4 = SubDigit(e3, x, y, 3)
        /\ DecimalSub(c, x, y, w) = InvertCarry(IF w = 2 THEN e2 ELSE e4, w)
  BY SubUnfolds
<1>3. ASSUME NEW i, SameDigit(t, s, x, y, i), NEW d
      PROVE  SubDigit(d, t, s, i) = SubDigit(d, x, y, i)
  BY <1>3 DEF SubDigit, SameDigit
<1>4. d1 = e1 /\ d2 = e2
  BY <1>1, <1>2, <1>3
<1>5. w = 4 => d3 = e3 /\ d4 = e4
  BY <1>1, <1>2, <1>3, <1>4
<1> QED BY <1>1, <1>2, <1>4, <1>5

\* The assembly's operands, complemented and swapped, differ by digit as the C ones.
LEMMA InterpretersSubtract ==
  ASSUME NEW w \in {2, 4}, NEW c, NEW t \in Nat, t < 16 ^ w, NEW m \in Nat, m < 16 ^ w
  PROVE  DecimalSub(c, t, m, w) = DecimalSub(c, Complement(m, w), Complement(t, w), w)
<1>0. Complements(t, w) /\ Complements(m, w)
  BY ComplementsDiffer
<1>1. /\ SameDigit(t, m, Complement(m, w), Complement(t, w), 0)
      /\ SameDigit(t, m, Complement(m, w), Complement(t, w), 1)
  BY <1>0, SMT DEF SameDigit, Complements
<1>2. w = 4 => /\ SameDigit(t, m, Complement(m, w), Complement(t, w), 2)
               /\ SameDigit(t, m, Complement(m, w), Complement(t, w), 3)
  BY <1>0, SMT DEF SameDigit, Complements
<1> QED BY <1>1, <1>2, SameDigits

\* The number that the digits of x are, in the base of the mode.
LEMMA NumbersAre ==
  ASSUME NEW w \in {2, 4}, instr.w = w, instr.d \in BOOLEAN,
         NEW x0 \in Nat, NEW x1 \in Nat, NEW x2 \in Nat, NEW x3 \in Nat,
         NEW x, HasDigits(x, x0, x1, x2, x3)
  PROVE  /\ instr.d => Number(x) = IF w = 2 THEN x0 + 10 * x1 ELSE x0 + 10 * x1 + 100 * x2 + 1000 * x3
         /\ ~instr.d => Number(x) = IF w = 2 THEN x0 + 16 * x1
                                    ELSE x0 + 16 * x1 + 256 * x2 + 4096 * x3
<1>1. PICK d1, d2, d3, d4 :
        /\ d1 = 0 + DigitValue(x, 0) /\ d2 = d1 + DigitValue(x, 1)
        /\ d3 = d2 + DigitValue(x, 2) /\ d4 = d3 + DigitValue(x, 3)
        /\ Number(x) = (IF w = 2 THEN d2 ELSE d4)
  BY NumberUnfolds
<1>2. /\ Digit(x, 0) = x0 /\ Digit(x, 1) = 16 * x1
      /\ Digit(x, 2) = 256 * x2 /\ Digit(x, 3) = 4096 * x3
  BY DEF HasDigits
<1>3. x0 \div 1 = x0 /\ (16 * x1) \div 16 = x1 /\ (256 * x2) \div 256 = x2 /\ (4096 * x3) \div 4096 = x3
  BY SMT
<1>4. CASE instr.d
  <2>1. /\ DigitValue(x, 0) = x0 /\ DigitValue(x, 1) = 10 * x1
        /\ DigitValue(x, 2) = 100 * x2 /\ DigitValue(x, 3) = 1000 * x3
    BY <1>2, <1>3, <1>4, Powers, SMT DEF DigitValue, Base
  <2> QED BY <1>1, <1>4, <2>1, SMT
<1>5. CASE ~instr.d
  <2>1. /\ DigitValue(x, 0) = x0 /\ DigitValue(x, 1) = 16 * x1
        /\ DigitValue(x, 2) = 256 * x2 /\ DigitValue(x, 3) = 4096 * x3
    BY <1>2, <1>3, <1>5, Powers, SMT DEF DigitValue, Base
  <2> QED BY <1>1, <1>5, <2>1, SMT
<1> QED BY <1>4, <1>5

\* In decimal mode a number is one of decimal digits.
LEMMA DecimalsHaveDigits ==
  ASSUME NEW w \in {2, 4}, instr.w = w, instr.d, NEW x \in Nat, x < 16 ^ w, IsNumber(x)
  PROVE  \E x0, x1, x2, x3 : IsDecimal(x, x0, x1, x2, x3)
<1>1. x < 65536 /\ (w = 2 => x < 256)
  <2>1. CASE w = 2
    BY <2>1, Powers, SMT
  <2>2. CASE w = 4
    BY <2>2, Powers, SMT
  <2> QED BY <2>1, <2>2
<1>2. InDigits(x)
  BY <1>1, NumbersHaveDigits
<1>3. PICK x0 \in Nat, x1 \in Nat, x2 \in Nat, x3 \in Nat :
         /\ x0 < 16 /\ x1 < 16 /\ x2 < 16 /\ x3 < 16
         /\ HasDigits(x, x0, x1, x2, x3) /\ (x < 256 => x2 = 0 /\ x3 = 0)
  BY <1>2 DEF InDigits
<1>4. /\ Digit(x, 0) = x0 /\ Digit(x, 1) = 16 * x1
      /\ Digit(x, 2) = 256 * x2 /\ Digit(x, 3) = 4096 * x3
  BY <1>3 DEF HasDigits
<1>5. \A i \in 0 .. w - 1 : Digit(x, i) < 10 * 16 ^ i
  BY DEF IsNumber, Base
<1>6. x0 < 10 /\ x1 < 10
  <2>1. Digit(x, 0) < 10 * 16 ^ 0 /\ Digit(x, 1) < 10 * 16 ^ 1
    <3>1. 0 \in 0 .. w - 1 /\ 1 \in 0 .. w - 1
      OBVIOUS
    <3> QED BY <1>5, <3>1
  <2> QED BY <1>3, <1>4, <2>1, Powers, SMT
<1>7. x2 < 10 /\ x3 < 10
  <2>1. CASE w = 2
    BY <1>1, <1>3, <2>1
  <2>2. CASE w = 4
    <3>1. Digit(x, 2) < 10 * 16 ^ 2 /\ Digit(x, 3) < 10 * 16 ^ 3
      <4>1. 2 \in 0 .. w - 1 /\ 3 \in 0 .. w - 1
        BY <2>2
      <4> QED BY <1>5, <4>1
    <3> QED BY <1>3, <1>4, <3>1, Powers, SMT
  <2> QED BY <2>1, <2>2
<1> QED BY <1>3, <1>6, <1>7 DEF IsDecimal

\* In binary every operand is its own number.
LEMMA BinaryNumbers ==
  ASSUME NEW w \in {2, 4}, instr.w = w, instr.d = FALSE, NEW x \in Nat, x < 16 ^ w
  PROVE  Number(x) = x
<1>1. x < 65536 /\ (w = 2 => x < 256)
  <2>1. CASE w = 2
    BY <2>1, Powers, SMT
  <2>2. CASE w = 4
    BY <2>2, Powers, SMT
  <2> QED BY <2>1, <2>2
<1>2. InDigits(x)
  BY <1>1, NumbersHaveDigits
<1>3. PICK x0 \in Nat, x1 \in Nat, x2 \in Nat, x3 \in Nat :
         /\ x0 < 16 /\ x1 < 16 /\ x2 < 16 /\ x3 < 16
         /\ HasDigits(x, x0, x1, x2, x3) /\ (x < 256 => x2 = 0 /\ x3 = 0)
  BY <1>2 DEF InDigits
<1>4. x = x0 + 16 * x1 + 256 * x2 + 4096 * x3
  BY <1>3 DEF HasDigits, Sum
<1>5. Number(x) = IF w = 2 THEN x0 + 16 * x1 ELSE x0 + 16 * x1 + 256 * x2 + 4096 * x3
  <2>1. instr.d \in BOOLEAN /\ ~instr.d
    OBVIOUS
  <2> QED BY <1>3, <2>1, NumbersAre
<1> QED BY <1>1, <1>3, <1>4, <1>5

-----------------------------------------------------------------------------
\* The whole register and what its low digits and the next bit are.
LEMMA Registers ==
  ASSUME NEW S \in Nat, NEW n \in Nat, n < 2
  PROVE  /\ S < 256 => Whole(S + 256 * n, 256, S, n)
         /\ S < 65536 => Whole(S + 65536 * n, 65536, S, n)
<1>1. ASSUME S < 256 PROVE (S + 256 * n) % 256 = S /\ (S + 256 * n) \div 256 = n /\ n % 2 = n
  BY <1>1, SMT
<1>2. ASSUME S < 65536 PROVE (S + 65536 * n) % 65536 = S /\ (S + 65536 * n) \div 65536 = n /\ n % 2 = n
  BY <1>2, SMT
<1> QED BY <1>1, <1>2, SMT DEF Whole

Typed ==
  /\ instr \in [op : {"ADC", "SBC"}, d : BOOLEAN, c : 0 .. 1, w : {2, 4}, a : Nat, m : Nat]
  /\ instr.a < 16 ^ instr.w /\ instr.m < 16 ^ instr.w

\* What the digits of a result say of the accumulator.
DigitsMake(w, r0, r1, r2, r3) ==
  /\ w = 2 => Number(r0 + 16 * r1) = r0 + 10 * r1
  /\ w = 4 => Number(r0 + 16 * r1 + 256 * r2 + 4096 * r3) = r0 + 10 * r1 + 100 * r2 + 1000 * r3
LEMMA NumberOfRest ==
  ASSUME NEW w \in {2, 4}, instr.w = w, instr.d,
         NEW r0 \in Nat, NEW r1 \in Nat, NEW r2 \in Nat, NEW r3 \in Nat,
         r0 < 10, r1 < 10, r2 < 10, r3 < 10
  PROVE  DigitsMake(w, r0, r1, r2, r3)
<1>0. instr.d \in BOOLEAN /\ r0 < 16 /\ r1 < 16 /\ r2 < 16 /\ r3 < 16
  BY SMT
<1>1. CASE w = 2
  <2>1. HasDigits(Sum(r0, r1, 0, 0), r0, r1, 0, 0)
    BY <1>0, SumHasDigits
  <2>2. Sum(r0, r1, 0, 0) = r0 + 16 * r1
    BY DEF Sum
  <2>3. Number(Sum(r0, r1, 0, 0)) = r0 + 10 * r1
    BY <1>0, <1>1, <2>1, NumbersAre
  <2> QED BY <1>1, <2>2, <2>3 DEF DigitsMake
<1>2. CASE w = 4
  <2>1. HasDigits(Sum(r0, r1, r2, r3), r0, r1, r2, r3)
    BY <1>0, SumHasDigits
  <2>2. Sum(r0, r1, r2, r3) = r0 + 16 * r1 + 256 * r2 + 4096 * r3
    BY DEF Sum
  <2>3. Number(Sum(r0, r1, r2, r3)) = r0 + 10 * r1 + 100 * r2 + 1000 * r3
    BY <1>0, <1>2, <2>1, NumbersAre
  <2> QED BY <1>2, <2>2, <2>3 DEF DigitsMake
<1> QED BY <1>1, <1>2

\* The number in a and the carry b are the sum, or the difference, of t, s and c.
Summed(w, a, b, t, s, c) ==
  \E z \in Int, n \in Nat :
    /\ n < 2 /\ b = n /\ z = Number(a) /\ Number(t) \in Int /\ Number(s) \in Int
    /\ (w = 2 => z + 100 * n = Number(t) + Number(s) + c)
    /\ (w = 4 => z + 10000 * n = Number(t) + Number(s) + c)
Subtracted(w, a, b, t, s, c) ==
  \E z \in Int, n \in Nat :
    /\ n < 2 /\ b = 1 - n /\ z = Number(a) /\ Number(t) \in Int /\ Number(s) \in Int
    /\ (w = 2 => z - 100 * n = Number(t) - (Number(s) + (1 - c)))
    /\ (w = 4 => z - 10000 * n = Number(t) - (Number(s) + (1 - c)))

\* The accumulator and the carry after a decimal sum.
LEMMA DecimalSums ==
  ASSUME NEW w \in {2, 4}, instr.w = w, instr.d, NEW c \in Nat, c < 2,
         NEW t \in Nat, NEW s \in Nat, t < 16 ^ w, s < 16 ^ w, IsNumber(t), IsNumber(s),
         NEW a, NEW b, Whole(DecimalAdd(c, t, s, w), 16 ^ w, a, b)
  PROVE  Summed(w, a, b, t, s, c)
<1>0. instr.d \in BOOLEAN
  BY SMT
<1>1. PICK t0, t1, t2, t3 : IsDecimal(t, t0, t1, t2, t3)
  BY DecimalsHaveDigits
<1>2. PICK s0, s1, s2, s3 : IsDecimal(s, s0, s1, s2, s3)
  BY DecimalsHaveDigits
<1>3. /\ t0 \in Nat /\ t1 \in Nat /\ t2 \in Nat /\ t3 \in Nat
      /\ s0 \in Nat /\ s1 \in Nat /\ s2 \in Nat /\ s3 \in Nat
      /\ HasDigits(t, t0, t1, t2, t3) /\ HasDigits(s, s0, s1, s2, s3)
  BY <1>1, <1>2 DEF IsDecimal
<1>4. CASE w = 2
  <2>1. Number(t) = t0 + 10 * t1 /\ Number(s) = s0 + 10 * s1
    BY <1>0, <1>3, <1>4, NumbersAre
  <2>2. PICK r0, r1, n : Decimal2(DecimalAdd(c, t, s, w), t0 + 10 * t1 + s0 + 10 * s1 + c, r0, r1, n)
    BY <1>1, <1>2, <1>4, DecimalAddIsExact
  <2>3. /\ r0 \in Nat /\ r1 \in Nat /\ n \in Nat /\ r0 < 10 /\ r1 < 10 /\ n < 2
        /\ DecimalAdd(c, t, s, w) = r0 + 16 * r1 + 256 * n
        /\ t0 + 10 * t1 + s0 + 10 * s1 + c = r0 + 10 * r1 + 100 * n
    BY <2>2 DEF Decimal2
  <2>4. PICK S \in Nat : S = r0 + 16 * r1 /\ S < 256 /\ DecimalAdd(c, t, s, w) = S + 256 * n
    BY <2>3
  <2>5. a = S /\ b = n
    <3>1. Whole(S + 256 * n, 256, S, n)
      BY <2>3, <2>4, Registers
    <3>2. 16 ^ w = 256
      BY <1>4, Powers
    <3> QED BY <2>4, <3>1, <3>2 DEF Whole
  <2>6. Number(S) = r0 + 10 * r1
    <3>1. DigitsMake(w, r0, r1, 0, 0)
      BY <2>3, NumberOfRest
    <3> QED BY <1>4, <2>4, <3>1 DEF DigitsMake
  <2> QED BY <1>3, <1>4, <2>1, <2>3, <2>5, <2>6 DEF Summed
<1>5. CASE w = 4
  <2>1. Number(t) = t0 + 10 * t1 + 100 * t2 + 1000 * t3 /\ Number(s) = s0 + 10 * s1 + 100 * s2 + 1000 * s3
    BY <1>0, <1>3, <1>5, NumbersAre
  <2>2. PICK r0, r1, r2, r3, n :
          Decimal4(DecimalAdd(c, t, s, w),
                   t0 + 10 * t1 + 100 * t2 + 1000 * t3 + s0 + 10 * s1 + 100 * s2 + 1000 * s3 + c,
                   r0, r1, r2, r3, n)
    BY <1>1, <1>2, <1>5, DecimalAddIsExact
  <2>3. /\ r0 \in Nat /\ r1 \in Nat /\ r2 \in Nat /\ r3 \in Nat /\ n \in Nat
        /\ r0 < 10 /\ r1 < 10 /\ r2 < 10 /\ r3 < 10 /\ n < 2
        /\ DecimalAdd(c, t, s, w) = r0 + 16 * r1 + 256 * r2 + 4096 * r3 + 65536 * n
        /\ t0 + 10 * t1 + 100 * t2 + 1000 * t3 + s0 + 10 * s1 + 100 * s2 + 1000 * s3 + c
             = r0 + 10 * r1 + 100 * r2 + 1000 * r3 + 10000 * n
    BY <2>2, SMT DEF Decimal4
  <2>4. PICK S \in Nat : S = r0 + 16 * r1 + 256 * r2 + 4096 * r3 /\ S < 65536
                         /\ DecimalAdd(c, t, s, w) = S + 65536 * n
    BY <2>3, SMT
  <2>5. a = S /\ b = n
    <3>1. Whole(S + 65536 * n, 65536, S, n)
      BY <2>3, <2>4, Registers, SMT
    <3>2. 16 ^ w = 65536
      BY <1>5, Powers, SMT
    <3> QED BY <2>4, <3>1, <3>2, SMT DEF Whole
  <2>6. Number(S) = r0 + 10 * r1 + 100 * r2 + 1000 * r3
    <3>1. DigitsMake(w, r0, r1, r2, r3)
      BY <2>3, NumberOfRest
    <3> QED BY <1>5, <2>4, <3>1 DEF DigitsMake
  <2> QED BY <1>3, <1>5, <2>1, <2>3, <2>5, <2>6, SMT DEF Summed
<1> QED BY <1>4, <1>5

\* The accumulator and the carry after a decimal difference.
LEMMA DecimalDifferences ==
  ASSUME NEW w \in {2, 4}, instr.w = w, instr.d, NEW c \in Nat, c < 2,
         NEW t \in Nat, NEW s \in Nat, t < 16 ^ w, s < 16 ^ w, IsNumber(t), IsNumber(s),
         NEW a, NEW b, Whole(DecimalSub(c, t, s, w), 16 ^ w, a, b)
  PROVE  Subtracted(w, a, b, t, s, c)
<1>0. instr.d \in BOOLEAN
  BY SMT
<1>1. PICK t0, t1, t2, t3 : IsDecimal(t, t0, t1, t2, t3)
  BY DecimalsHaveDigits
<1>2. PICK s0, s1, s2, s3 : IsDecimal(s, s0, s1, s2, s3)
  BY DecimalsHaveDigits
<1>3. /\ t0 \in Nat /\ t1 \in Nat /\ t2 \in Nat /\ t3 \in Nat
      /\ s0 \in Nat /\ s1 \in Nat /\ s2 \in Nat /\ s3 \in Nat
      /\ HasDigits(t, t0, t1, t2, t3) /\ HasDigits(s, s0, s1, s2, s3)
  BY <1>1, <1>2 DEF IsDecimal
<1>4. CASE w = 2
  <2>1. Number(t) = t0 + 10 * t1 /\ Number(s) = s0 + 10 * s1
    BY <1>0, <1>3, <1>4, NumbersAre
  <2>2. PICK r0, r1, n :
          Rest2(DecimalSub(c, t, s, w), t0 + 10 * t1 - (s0 + 10 * s1 + (1 - c)), r0, r1, n)
    BY <1>1, <1>2, <1>4, DecimalSubIsExact
  <2>3. /\ r0 \in Nat /\ r1 \in Nat /\ n \in Nat /\ r0 < 10 /\ r1 < 10 /\ n < 2
        /\ Whole(DecimalSub(c, t, s, w), 256, r0 + 16 * r1, 1 - n)
        /\ t0 + 10 * t1 - (s0 + 10 * s1 + (1 - c)) = r0 + 10 * r1 - 100 * n
    BY <2>2 DEF Rest2
  <2>4. a = r0 + 16 * r1 /\ b = 1 - n
    <3>1. 16 ^ w = 256
      BY <1>4, Powers
    <3> QED BY <2>3, <3>1 DEF Whole
  <2>5. Number(r0 + 16 * r1) = r0 + 10 * r1
    <3>1. DigitsMake(w, r0, r1, 0, 0)
      BY <2>3, NumberOfRest
    <3> QED BY <1>4, <3>1 DEF DigitsMake
  <2> QED BY <1>3, <1>4, <2>1, <2>3, <2>4, <2>5 DEF Subtracted
<1>5. CASE w = 4
  <2>1. Number(t) = t0 + 10 * t1 + 100 * t2 + 1000 * t3 /\ Number(s) = s0 + 10 * s1 + 100 * s2 + 1000 * s3
    BY <1>0, <1>3, <1>5, NumbersAre
  <2>2. PICK r0, r1, r2, r3, n :
          Rest4(DecimalSub(c, t, s, w),
                t0 + 10 * t1 + 100 * t2 + 1000 * t3
                  - (s0 + 10 * s1 + 100 * s2 + 1000 * s3 + (1 - c)),
                r0, r1, r2, r3, n)
    BY <1>1, <1>2, <1>5, DecimalSubIsExact
  <2>3. /\ r0 \in Nat /\ r1 \in Nat /\ r2 \in Nat /\ r3 \in Nat /\ n \in Nat
        /\ r0 < 10 /\ r1 < 10 /\ r2 < 10 /\ r3 < 10 /\ n < 2
        /\ Whole(DecimalSub(c, t, s, w), 65536, r0 + 16 * r1 + 256 * r2 + 4096 * r3, 1 - n)
        /\ t0 + 10 * t1 + 100 * t2 + 1000 * t3 - (s0 + 10 * s1 + 100 * s2 + 1000 * s3 + (1 - c))
             = r0 + 10 * r1 + 100 * r2 + 1000 * r3 - 10000 * n
    BY <2>2, SMT DEF Rest4
  <2>4. a = r0 + 16 * r1 + 256 * r2 + 4096 * r3 /\ b = 1 - n
    <3>1. 16 ^ w = 65536
      BY <1>5, Powers, SMT
    <3> QED BY <2>3, <3>1, SMT DEF Whole
  <2>5. Number(r0 + 16 * r1 + 256 * r2 + 4096 * r3) = r0 + 10 * r1 + 100 * r2 + 1000 * r3
    <3>1. DigitsMake(w, r0, r1, r2, r3)
      BY <2>3, NumberOfRest
    <3> QED BY <1>5, <3>1 DEF DigitsMake
  <2> QED BY <1>3, <1>5, <2>1, <2>3, <2>4, <2>5, SMT DEF Subtracted
<1> QED BY <1>4, <1>5

\* The half of a register's range, and what a number in it is as a signed one.
Half(w) == IF w = 2 THEN 128 ELSE 32768
Full(w) == IF w = 2 THEN 256 ELSE 65536
AsSigned(x, w) == IF x >= Half(w) THEN x - Full(w) ELSE x

LEMMA Ranges ==
  ASSUME NEW w \in {2, 4}
  PROVE  /\ 16 ^ w = Full(w) /\ 8 * 16 ^ (w - 1) = Half(w)
         /\ Full(w) \in Nat \ {0} /\ Half(w) \in Nat \ {0} /\ Full(w) = 2 * Half(w)
<1>1. CASE w = 2
  <2>1. 16 ^ 2 = 256 /\ 8 * 16 ^ (2 - 1) = 128
    OBVIOUS
  <2> QED BY <1>1, <2>1 DEF Half, Full
<1>2. CASE w = 4
  <2>1. 16 ^ 4 = 65536 /\ 8 * 16 ^ (4 - 1) = 32768
    BY SMT
  <2> QED BY <1>2, <2>1, SMT DEF Half, Full
<1> QED BY <1>1, <1>2

\* The sign is whether a number is in the upper half.
LEMMA SignOf ==
  ASSUME NEW w \in {2, 4}, NEW x \in Nat, x < Full(w)
  PROVE  /\ Sign(x, w) = IF x >= Half(w) THEN 1 ELSE 0
         /\ Sign(x, w) \in 0 .. 1
<1>1. PICK h \in Nat \ {0} : h = Half(w) /\ Full(w) = 2 * h
  BY Ranges
<1>2. Sign(x, w) = (x \div h) % 2
  BY <1>1, Ranges DEF Sign
<1>3. CASE x >= h
  <2>1. x = h * 1 + (x - h) /\ x - h \in 0 .. h - 1
    BY <1>1, <1>3
  <2>2. x \div h = 1
    BY <1>1, <2>1, DivUnique
  <2> QED BY <1>1, <1>2, <1>3, <2>2
<1>4. CASE x < h
  <2>1. x = h * 0 + x /\ x \in 0 .. h - 1
    BY <1>1, <1>4
  <2>2. x \div h = 0
    BY <1>1, <2>1, DivUnique
  <2> QED BY <1>1, <1>2, <1>4, <2>2
<1> QED BY <1>1, <1>3, <1>4

\* A binary sum: its low digits, its carry, and its overflow.
Overflow(t, s, z, w) == Sign(t, w) = Sign(s, w) /\ Sign(t, w) # Sign(z, w)
BinarySum(t, s, c, w) ==
  \E a \in Nat, b \in Nat :
    /\ a < Full(w) /\ b < 2 /\ a = (t + s + c) % 16 ^ w /\ b = ((t + s + c) \div 16 ^ w) % 2
    /\ t + s + c = a + (IF b = 1 THEN Full(w) ELSE 0)
    /\ Overflow(t, s, t + s + c, w) = (AsSigned(a, w) # AsSigned(t, w) + AsSigned(s, w) + c)

\* The overflow of a binary sum says that the sign of the result is wrong.
LEMMA BinarySums ==
  ASSUME NEW w \in {2, 4}, NEW t \in Nat, NEW s \in Nat, NEW c \in Nat,
         t < 16 ^ w, s < 16 ^ w, c < 2
  PROVE  BinarySum(t, s, c, w)
<1>1. PICK h \in Nat \ {0}, M \in Nat \ {0} : h = Half(w) /\ M = Full(w) /\ M = 2 * h /\ 16 ^ w = M
  BY Ranges
<1>2. t < M /\ s < M
  BY <1>1
<1>3. PICK z \in Nat : z = t + s + c
  OBVIOUS
<1>4. PICK a \in Nat, b \in Nat : /\ a < M /\ b < 2 /\ a = z % M /\ b = (z \div M) % 2
                                  /\ z = a + (IF b = 1 THEN M ELSE 0)
  <2>1. CASE z < M
    <3>1. z = M * 0 + z /\ z \in 0 .. M - 1
      BY <2>1
    <3>2. z \div M = 0 /\ z % M = z
      BY <3>1, DivUnique
    <3> QED BY <2>1, <3>2
  <2>2. CASE z >= M
    <3>1. z = M * 1 + (z - M) /\ z - M \in 0 .. M - 1
      BY <1>2, <1>3, <2>2
    <3>2. z \div M = 1 /\ z % M = z - M
      BY <3>1, DivUnique
    <3>3. z = (z - M) + M /\ z - M < M /\ z - M \in Nat
      BY <3>1
    <3> QED BY <3>2, <3>3
  <2> QED BY <2>1, <2>2
<1>5. Sign(z, w) = Sign(a, w)
  <2>1. PICK q \in Int, r \in 0 .. h - 1 : a \div h = q /\ a = h * q + r
    BY DivMod
  <2>2. z \div h = IF b = 1 THEN q + 2 ELSE q
    <3>1. CASE b = 1
      <4>1. z = h * (q + 2) + r /\ q + 2 \in Int
        BY <1>1, <1>4, <2>1, <3>1
      <4> QED BY <3>1, <4>1, DivUnique
    <3>2. CASE b # 1
      BY <1>4, <2>1, <3>2
    <3> QED BY <3>1, <3>2
  <2>3. (q + 2) % 2 = q % 2
    BY <2>1
  <2>4. Sign(z, w) = (z \div h) % 2 /\ Sign(a, w) = (a \div h) % 2
    BY <1>1, Ranges DEF Sign
  <2> QED BY <2>1, <2>2, <2>3, <2>4
<1>6. PICK p, n, o : p = Sign(t, w) /\ n = Sign(s, w) /\ o = Sign(a, w)
  OBVIOUS
<1>7. /\ p = IF t >= h THEN 1 ELSE 0
      /\ n = IF s >= h THEN 1 ELSE 0
      /\ o = IF a >= h THEN 1 ELSE 0
  BY <1>1, <1>2, <1>4, <1>6, SignOf
<1>8. PICK x \in Int, y \in Int, e \in Int :
        /\ x = AsSigned(t, w) /\ x = IF t >= h THEN t - M ELSE t
        /\ y = AsSigned(s, w) /\ y = IF s >= h THEN s - M ELSE s
        /\ e = AsSigned(a, w) /\ e = IF a >= h THEN a - M ELSE a
  BY <1>1 DEF AsSigned
<1>9. (p = n /\ p # o) <=> e # x + y + c
  <2>1. PICK k \in Int : k = (IF b = 1 THEN M ELSE 0) /\ t + s + c = a + k
    BY <1>1, <1>3, <1>4
  <2>2. a < M /\ M = 2 * h /\ (k = M \/ k = 0)
    BY <1>1, <1>4, <2>1
  <2>3. CASE t >= h /\ s >= h
    <3>1. p = 1 /\ n = 1 /\ x = t - M /\ y = s - M
      BY <1>7, <1>8, <2>3
    <3>2. CASE a >= h
      BY <1>2, <1>7, <1>8, <2>1, <2>2, <2>3, <3>1, <3>2, SMT
    <3>3. CASE ~(a >= h)
      BY <1>2, <1>7, <1>8, <2>1, <2>2, <2>3, <3>1, <3>3, SMT
    <3> QED BY <3>2, <3>3
  <2>4. CASE t < h /\ s < h
    <3>1. p = 0 /\ n = 0 /\ x = t /\ y = s
      BY <1>7, <1>8, <2>4
    <3>2. CASE a >= h
      BY <1>2, <1>7, <1>8, <2>1, <2>2, <2>4, <3>1, <3>2, SMT
    <3>3. CASE ~(a >= h)
      BY <1>2, <1>7, <1>8, <2>1, <2>2, <2>4, <3>1, <3>3, SMT
    <3> QED BY <3>2, <3>3
  <2>5. CASE (t >= h) # (s >= h)
    <3>1. p # n /\ x + y = t + s - M
      BY <1>1, <1>7, <1>8, <2>5
    <3>2. CASE a >= h
      BY <1>2, <1>7, <1>8, <2>1, <2>2, <2>5, <3>1, <3>2, SMT
    <3>3. CASE ~(a >= h)
      BY <1>2, <1>7, <1>8, <2>1, <2>2, <2>5, <3>1, <3>3, SMT
    <3> QED BY <3>2, <3>3
  <2> QED BY <2>3, <2>4, <2>5
<1>10. Overflow(t, s, t + s + c, w) = (AsSigned(a, w) # AsSigned(t, w) + AsSigned(s, w) + c)
  <2>1. Overflow(t, s, t + s + c, w) <=> (p = n /\ p # o)
    BY <1>3, <1>5, <1>6 DEF Overflow
  <2>2. Overflow(t, s, t + s + c, w) \in BOOLEAN
    BY DEF Overflow
  <2> QED BY <1>8, <1>9, <2>1, <2>2
<1> QED BY <1>1, <1>3, <1>4, <1>10 DEF BinarySum

\* What a result r of the instruction must say.
ResultIsExact(r) ==
  LET term == IF instr.op = "ADC" THEN 1 ELSE -1
      in == IF instr.op = "ADC" THEN instr.c ELSE 1 - instr.c
      out == IF instr.op = "ADC" THEN r.c ELSE 1 - r.c
  IN /\ IsNumber(instr.a) /\ IsNumber(instr.m) =>
          Number(r.a) + term * out * Base ^ instr.w
            = Number(instr.a) + term * (Number(instr.m) + in)
     /\ ~instr.d =>
          r.v = (Signed(r.a) # Signed(instr.a) + term * (Signed(instr.m) + in))

\* The operands of an instruction.
Operands(op, d, c, w, t, m) ==
  /\ instr.op = op /\ instr.d = d /\ instr.c = c /\ instr.w = w /\ instr.a = t /\ instr.m = m
  /\ op \in {"ADC", "SBC"} /\ d \in BOOLEAN /\ c \in Nat /\ c < 2 /\ w \in {2, 4}
  /\ t \in Nat /\ m \in Nat /\ t < 16 ^ w /\ m < 16 ^ w

LEMMA TypedOperands == Typed => \E op, d, c, w, t, m : Operands(op, d, c, w, t, m)
<1> SUFFICES ASSUME Typed PROVE \E op, d, c, w, t, m : Operands(op, d, c, w, t, m)
  OBVIOUS
<1>1. Operands(instr.op, instr.d, instr.c, instr.w, instr.a, instr.m)
  BY SMT DEF Typed, Operands
<1> QED BY <1>1

\* The interpreters have the same accumulator, carry and overflow.
LEMMA InterpretersGiveTheSame ==
  ASSUME NEW op, NEW d, NEW c, NEW w, NEW t, NEW m, Operands(op, d, c, w, t, m)
  PROVE  Result("C") = Result("ASM")
<1>1. /\ instr.op = op /\ instr.d = d /\ instr.c = c /\ instr.w = w /\ instr.a = t /\ instr.m = m
  BY DEF Operands
<1>0. op \in {"ADC", "SBC"} /\ w \in {2, 4} /\ t \in Nat /\ m \in Nat /\ t < 16 ^ w /\ m < 16 ^ w
  BY DEF Operands
<1>2. DecimalSub(c, t, m, w) = DecimalSub(c, Complement(m, w), Complement(t, w), w)
  BY <1>0, InterpretersSubtract
<1>3. Complement(Complement(m, w), w) = m
  <2>1. Complements(m, w)
    BY <1>0, ComplementsDiffer
  <2> QED BY <2>1 DEF Complements
<1>4. Decimal("C", op, c, t, IF op = "SBC" THEN Complement(m, w) ELSE m, w)
        = Decimal("ASM", op, c, t, IF op = "SBC" THEN Complement(m, w) ELSE m, w)
  <2>1. CASE op = "ADC"
    BY <2>1 DEF Decimal
  <2>2. CASE op = "SBC"
    BY <1>2, <1>3, <2>2 DEF Decimal
  <2> QED BY <1>0, <2>1, <2>2
<1>5. AddResult("C", instr) = AddResult("ASM", instr)
  BY <1>1, <1>4, Zenon DEF AddResult
<1> QED BY <1>5, Zenon DEF Result

\* The register of an instruction, and the parts of it that a result has.
Register(op, d, c, w, t, m) ==
  LET s == IF op = "SBC" THEN Complement(m, w) ELSE m
  IN IF d THEN Decimal("C", op, c, t, s, w) ELSE t + s + c

\* The accumulator and the carry are the low digits of the register and its next bit.
LEMMA ResultParts ==
  ASSUME NEW op, NEW d, NEW c, NEW w, NEW t, NEW m, Operands(op, d, c, w, t, m)
  PROVE  /\ Whole(Register(op, d, c, w, t, m), 16 ^ w, Result("C").a, Result("C").c)
         /\ Result("C").v = Overflow(t, IF op = "SBC" THEN Complement(m, w) ELSE m,
                                     t + (IF op = "SBC" THEN Complement(m, w) ELSE m) + c, w)
<1>1. /\ instr.op = op /\ instr.d = d /\ instr.c = c /\ instr.w = w /\ instr.a = t /\ instr.m = m
  BY DEF Operands
<1>2. PICK s : s = IF op = "SBC" THEN Complement(m, w) ELSE m
  OBVIOUS
<1>3. PICK dest : dest = IF d THEN Decimal("C", op, c, t, s, w) ELSE t + s + c
  OBVIOUS
<1>4. AddResult("C", instr) = [a |-> dest % (16 ^ w), c |-> (dest \div 16 ^ w) % 2,
                               v |-> Sign(t, w) = Sign(s, w) /\ Sign(t, w) # Sign(t + s + c, w)]
  BY <1>1, <1>2, <1>3, Zenon DEF AddResult
<1>5. /\ Result("C").a = dest % (16 ^ w) /\ Result("C").c = (dest \div 16 ^ w) % 2
      /\ Result("C").v = (Sign(t, w) = Sign(s, w) /\ Sign(t, w) # Sign(t + s + c, w))
  BY <1>4 DEF Result
<1>6. Register(op, d, c, w, t, m) = dest
  BY <1>2, <1>3, Zenon DEF Register
<1> QED BY <1>2, <1>5, <1>6, Zenon DEF Whole, Overflow

\* Both modes, instruction by instruction.
LEMMA DecimalResults ==
  ASSUME NEW op, NEW c, NEW w, NEW t, NEW m, Operands(op, TRUE, c, w, t, m)
  PROVE  ResultIsExact(Result("C"))
<1>0. /\ instr.op = op /\ instr.d /\ instr.c = c /\ instr.w = w /\ instr.a = t /\ instr.m = m
  BY DEF Operands
<1>1. op \in {"ADC", "SBC"} /\ c \in Nat /\ c < 2 /\ w \in {2, 4}
      /\ t \in Nat /\ m \in Nat /\ t < 16 ^ w /\ m < 16 ^ w
  BY DEF Operands
<1>2. PICK a, b : a = Result("C").a /\ b = Result("C").c
  OBVIOUS
<1>3. Whole(Register(op, TRUE, c, w, t, m), 16 ^ w, a, b)
  BY <1>2, ResultParts
<1>4. SUFFICES ASSUME IsNumber(t), IsNumber(m)
               PROVE  /\ op = "ADC" => Number(a) + 1 * b * 10 ^ w = Number(t) + 1 * (Number(m) + c)
                      /\ op = "SBC" => Number(a) + (-1) * (1 - b) * 10 ^ w
                                         = Number(t) + (-1) * (Number(m) + (1 - c))
  BY <1>0, <1>1, <1>2 DEF ResultIsExact, Base
<1>5. CASE op = "ADC"
  <2>1. Register(op, TRUE, c, w, t, m) = DecimalAdd(c, t, m, w)
    BY <1>5 DEF Register, Decimal
  <2>2. Summed(w, a, b, t, m, c)
    BY <1>0, <1>1, <1>3, <1>4, <2>1, DecimalSums
  <2>3. PICK z \in Int, n \in Nat :
          /\ n < 2 /\ b = n /\ z = Number(a) /\ Number(t) \in Int /\ Number(m) \in Int
          /\ (w = 2 => z + 100 * n = Number(t) + Number(m) + c)
          /\ (w = 4 => z + 10000 * n = Number(t) + Number(m) + c)
    BY <2>2 DEF Summed
  <2>4. CASE w = 2
    <3>1. 1 * n * 10 ^ w = 100 * n
      BY <2>3, <2>4, Powers, SMT
    <3> QED BY <1>1, <1>5, <2>3, <2>4, <3>1
  <2>5. CASE w = 4
    <3>1. 1 * n * 10 ^ w = 10000 * n
      BY <2>3, <2>5, Powers, SMT
    <3> QED BY <1>1, <1>5, <2>3, <2>5, <3>1
  <2> QED BY <1>1, <2>4, <2>5
<1>6. CASE op = "SBC"
  <2>1. Register(op, TRUE, c, w, t, m) = DecimalSub(c, t, m, w)
    <3>1. Complements(m, w)
      BY <1>1, ComplementsDiffer
    <3> QED BY <1>6, <3>1 DEF Register, Decimal, Complements
  <2>2. Subtracted(w, a, b, t, m, c)
    BY <1>0, <1>1, <1>3, <1>4, <2>1, DecimalDifferences
  <2>3. PICK z \in Int, n \in Nat :
          /\ n < 2 /\ b = 1 - n /\ z = Number(a) /\ Number(t) \in Int /\ Number(m) \in Int
          /\ (w = 2 => z - 100 * n = Number(t) - (Number(m) + (1 - c)))
          /\ (w = 4 => z - 10000 * n = Number(t) - (Number(m) + (1 - c)))
    BY <2>2 DEF Subtracted
  <2>4. 1 - b = n
    BY <2>3
  <2>5. CASE w = 2
    <3>1. (-1) * n * 10 ^ w = -(100 * n)
      BY <2>3, <2>5, Powers, SMT
    <3> QED BY <1>1, <1>6, <2>3, <2>4, <2>5, <3>1
  <2>6. CASE w = 4
    <3>1. (-1) * n * 10 ^ w = -(10000 * n)
      BY <2>3, <2>6, Powers, SMT
    <3> QED BY <1>1, <1>6, <2>3, <2>4, <2>6, <3>1
  <2> QED BY <1>1, <2>5, <2>6
<1> QED BY <1>1, <1>5, <1>6

\* A signed complement is the negative, less one.
SignedComplement(m, w) == AsSigned(Complement(m, w), w) = -1 - AsSigned(m, w)
LEMMA ComplementSigned ==
  ASSUME NEW w \in {2, 4}, NEW m \in Nat, m < 16 ^ w
  PROVE  SignedComplement(m, w)
<1>1. PICK h \in Nat \ {0}, M \in Nat \ {0} : h = Half(w) /\ M = Full(w) /\ M = 2 * h /\ 16 ^ w = M
  BY Ranges
<1>2. Complement(m, w) = M - 1 - m
  BY <1>1 DEF Complement
<1> QED BY <1>1, <1>2 DEF SignedComplement, AsSigned

\* The sign of a number of its width.
LEMMA SignedIs ==
  ASSUME NEW w \in {2, 4}, instr.w = w, NEW x \in Nat, x < Full(w)
  PROVE  Signed(x) = AsSigned(x, w)
<1>1. Sign(x, w) = IF x >= Half(w) THEN 1 ELSE 0
  BY SignOf
<1>2. 16 ^ w = Full(w)
  BY Ranges
<1> QED BY <1>1, <1>2 DEF Signed, AsSigned

LEMMA BinaryResults ==
  ASSUME NEW op, NEW c, NEW w, NEW t, NEW m, Operands(op, FALSE, c, w, t, m)
  PROVE  ResultIsExact(Result("C"))
<1>0. /\ instr.op = op /\ instr.d = FALSE /\ instr.c = c /\ instr.w = w /\ instr.a = t /\ instr.m = m
  BY DEF Operands
<1>1. op \in {"ADC", "SBC"} /\ c \in Nat /\ c < 2 /\ w \in {2, 4}
      /\ t \in Nat /\ m \in Nat /\ t < 16 ^ w /\ m < 16 ^ w
  BY DEF Operands
<1>2. PICK s \in Nat : s = (IF op = "SBC" THEN Complement(m, w) ELSE m) /\ s < 16 ^ w
  <2>1. Complements(m, w)
    BY <1>1, ComplementsDiffer
  <2> QED BY <1>1, <2>1 DEF Complements
<1>3. PICK a \in Nat, b \in Nat :
        /\ a < Full(w) /\ b < 2 /\ a = (t + s + c) % 16 ^ w /\ b = ((t + s + c) \div 16 ^ w) % 2
        /\ t + s + c = a + (IF b = 1 THEN Full(w) ELSE 0)
        /\ Overflow(t, s, t + s + c, w) = (AsSigned(a, w) # AsSigned(t, w) + AsSigned(s, w) + c)
  <2>1. BinarySum(t, s, c, w)
    BY <1>1, <1>2, BinarySums
  <2> QED BY <2>1 DEF BinarySum
<1>4. Result("C").a = a /\ Result("C").c = b /\ Result("C").v = Overflow(t, s, t + s + c, w)
  <2>1. Register(op, FALSE, c, w, t, m) = t + s + c
    BY <1>2 DEF Register
  <2>2. /\ Whole(Register(op, FALSE, c, w, t, m), 16 ^ w, Result("C").a, Result("C").c)
        /\ Result("C").v = Overflow(t, s, t + s + c, w)
    BY <1>2, ResultParts
  <2> QED BY <1>3, <2>1, <2>2 DEF Whole
<1>5. PICK M \in Nat \ {0} : M = Full(w) /\ 16 ^ w = M /\ t < M /\ m < M /\ a < M
  BY <1>1, <1>3, Ranges
<1>6. Number(t) = t /\ Number(m) = m /\ Number(a) = a
  BY <1>0, <1>1, <1>3, <1>5, BinaryNumbers
<1>7. Signed(t) = AsSigned(t, w) /\ Signed(m) = AsSigned(m, w) /\ Signed(a) = AsSigned(a, w)
  BY <1>0, <1>1, <1>3, <1>5, SignedIs
<1>8. PICK x \in Int, y \in Int, e \in Int : x = Signed(t) /\ y = Signed(m) /\ e = Signed(a)
  BY <1>1, <1>3, <1>5, <1>7 DEF AsSigned
<1>9. SUFFICES /\ op = "ADC" => /\ a + 1 * b * M = t + 1 * (m + c)
                                /\ Result("C").v = (e # x + 1 * (y + c))
               /\ op = "SBC" => /\ a + (-1) * (1 - b) * M = t + (-1) * (m + (1 - c))
                                /\ Result("C").v = (e # x + (-1) * (y + (1 - c)))
  <2>1. Base ^ w = M
    BY <1>0, <1>5 DEF Base
  <2> QED BY <1>0, <1>1, <1>4, <1>6, <1>8, <2>1 DEF ResultIsExact
<1>10. CASE op = "ADC"
  <2>1. s = m
    BY <1>2, <1>10
  <2>2. a + 1 * b * M = t + 1 * (m + c)
    BY <1>1, <1>3, <1>5, <2>1
  <2>3. Result("C").v = (e # x + y + c)
    BY <1>3, <1>4, <1>7, <1>8, <2>1
  <2>4. x + y + c = x + 1 * (y + c)
    BY <1>1, <1>8
  <2> QED BY <1>10, <2>2, <2>3, <2>4
<1>11. CASE op = "SBC"
  <2>1. s = M - 1 - m
    BY <1>2, <1>5, <1>11 DEF Complement
  <2>2. a + (-1) * (1 - b) * M = t + (-1) * (m + (1 - c))
    <3>1. CASE b = 0
      <4>1. (-1) * (1 - b) * M = -M /\ t + (M - 1 - m) + c = a
        BY <1>1, <1>3, <1>5, <2>1, <3>1
      <4> QED BY <1>1, <1>3, <1>5, <4>1
    <3>2. CASE b = 1
      <4>1. a + (-1) * (1 - b) * M = a
        BY <1>3, <1>5, <3>2
      <4>2. t + (M - 1 - m) + c = a + M
        BY <1>1, <1>3, <1>5, <2>1, <3>2
      <4>3. (-1) * (m + (1 - c)) = c - 1 - m
        BY <1>1
      <4>4. t + (-1) * (m + (1 - c)) = a
        BY <1>1, <1>3, <1>5, <4>2, <4>3
      <4> QED BY <4>1, <4>4, Zenon
    <3>3. b = 0 \/ b = 1
      BY <1>3
    <3> QED BY <3>1, <3>2, <3>3, Zenon
  <2>3. AsSigned(s, w) = -1 - y
    <3>1. SignedComplement(m, w)
      BY <1>1, ComplementSigned
    <3> QED BY <1>2, <1>7, <1>8, <1>11, <3>1 DEF SignedComplement
  <2>4. Result("C").v = (e # x + (-1 - y) + c)
    BY <1>3, <1>4, <1>7, <1>8, <2>3
  <2>5. x + (-1 - y) + c = x + (-1) * (y + (1 - c))
    BY <1>1, <1>8
  <2> QED BY <1>11, <2>2, <2>4, <2>5
<1> QED BY <1>1, <1>10, <1>11

-----------------------------------------------------------------------------
\* The inductive invariant: the operands have their width, and the results are those of
\* the instruction.
DecimalInv == Typed /\ (results = NoResults \/ results = [i \in Interpreter |-> Result(i)])

\* What the invariant promises, of both interpreters.
LEMMA TypedIsExact ==
  ASSUME Typed
  PROVE  Result("C") = Result("ASM") /\ ResultIsExact(Result("C"))
<1>1. PICK op, d, c, w, t, m : Operands(op, d, c, w, t, m)
  BY TypedOperands
<1>2. d \in BOOLEAN
  BY <1>1 DEF Operands
<1> QED BY <1>1, <1>2, InterpretersGiveTheSame, DecimalResults, BinaryResults

LEMMA InvIsExact == DecimalInv => ArithmeticIsExact
<1> SUFFICES ASSUME DecimalInv, results # NoResults PROVE ArithmeticIsExact
  BY DEF ArithmeticIsExact
<1>1. results["C"] = Result("C") /\ results["ASM"] = Result("ASM")
  BY DEF DecimalInv, Interpreter
<1>2. Result("C") = Result("ASM") /\ ResultIsExact(Result("C"))
  BY TypedIsExact DEF DecimalInv
<1> QED BY <1>1, <1>2, Zenon DEF ArithmeticIsExact, ResultIsExact

\* The register holds a number, of any digits.
LEMMA DigitsAreNumbers ==
  ASSUME NEW i, NEW P, NEW Q, UnitsAt(i, P, Q), NEW t, NEW s, Digit(t, i) \in Int, Digit(s, i) \in Int,
         NEW d \in Int
  PROVE  AddDigit(d, t, s, i) \in Int /\ SubDigit(d, t, s, i) \in Int
<1>1. P \in Nat /\ Q \in Nat \ {0} /\ 16 ^ i = P /\ 16 ^ (i + 1) = Q /\ UINT \in Nat \ {0}
  BY UnitsInRegister, UintType DEF UnitsAt
<1>2. \A z \in Int : Masked(z, i) \in Int /\ Uint(z) \in Int
  BY <1>1, DivMod DEF Masked, Uint
<1>3. AddDigit(d, t, s, i) \in Int
  <2>1. PICK z \in Int : z = d + Digit(t, i) + Digit(s, i)
    OBVIOUS
  <2>2. AddDigit(d, t, s, i) = IF z >= 10 * P THEN Masked(z - 10 * P, i) + Q ELSE z
    BY <1>1, <2>1 DEF AddDigit
  <2>3. z - 10 * P \in Int
    BY <1>1
  <2>4. Masked(z - 10 * P, i) \in Int
    BY <1>2, <2>3
  <2> QED BY <1>1, <2>2, <2>4
<1>4. SubDigit(d, t, s, i) \in Int
  <2>1. PICK z \in Int : z = Uint(d + Digit(t, i) - Digit(s, i))
    <3>1. d + Digit(t, i) - Digit(s, i) \in Int
      OBVIOUS
    <3> QED BY <1>2, <3>1
  <2>2. SubDigit(d, t, s, i) = IF z >= 10 * P THEN Uint(Masked(z + 10 * P, i) - Q) ELSE z
    BY <1>1, <2>1 DEF SubDigit
  <2>3. z + 10 * P \in Int
    BY <1>1
  <2>4. Masked(z + 10 * P, i) \in Int
    BY <1>2, <2>3
  <2>5. Masked(z + 10 * P, i) - Q \in Int
    BY <1>1, <2>4
  <2>6. Uint(Masked(z + 10 * P, i) - Q) \in Int
    BY <1>2, <2>5
  <2> QED BY <2>2, <2>6
<1> QED BY <1>3, <1>4

LEMMA RegisterIsNumber ==
  ASSUME NEW op, NEW d, NEW c, NEW w, NEW t, NEW m, Operands(op, d, c, w, t, m)
  PROVE  Register(op, d, c, w, t, m) \in Int
<1>1. /\ op \in {"ADC", "SBC"} /\ d \in BOOLEAN /\ c \in Nat /\ c < 2 /\ w \in {2, 4}
      /\ t \in Nat /\ m \in Nat /\ t < 16 ^ w /\ m < 16 ^ w
  BY DEF Operands
<1>2. Complements(t, w) /\ Complements(m, w)
  BY <1>1, ComplementsDiffer
<1>3. /\ Digit(t, 0) \in Int /\ Digit(t, 1) \in Int /\ Digit(t, 2) \in Int /\ Digit(t, 3) \in Int
      /\ Digit(m, 0) \in Int /\ Digit(m, 1) \in Int /\ Digit(m, 2) \in Int /\ Digit(m, 3) \in Int
  BY <1>2 DEF Complements
<1>4. DecimalAdd(c, t, m, w) \in Int
  <2>1. PICK d1, d2, d3, d4 :
          /\ d1 = AddDigit(c, t, m, 0) /\ d2 = AddDigit(d1, t, m, 1)
          /\ d3 = AddDigit(d2, t, m, 2) /\ d4 = AddDigit(d3, t, m, 3)
          /\ DecimalAdd(c, t, m, w) = (IF w = 2 THEN d2 ELSE d4)
    BY <1>1, AddUnfolds
  <2>2. d1 \in Int
    BY <1>1, <1>3, <2>1, UnitsOfDigits, DigitsAreNumbers
  <2>3. d2 \in Int
    BY <1>3, <2>1, <2>2, UnitsOfDigits, DigitsAreNumbers
  <2>4. d3 \in Int
    BY <1>3, <2>1, <2>3, UnitsOfDigits, DigitsAreNumbers
  <2>5. d4 \in Int
    BY <1>3, <2>1, <2>4, UnitsOfDigits, DigitsAreNumbers
  <2> QED BY <2>1, <2>3, <2>5
<1>5. DecimalSub(c, t, m, w) \in Int
  <2>1. PICK d1, d2, d3, d4 :
          /\ d1 = SubDigit(Uint(c - 1), t, m, 0) /\ d2 = SubDigit(d1, t, m, 1)
          /\ d3 = SubDigit(d2, t, m, 2) /\ d4 = SubDigit(d3, t, m, 3)
          /\ DecimalSub(c, t, m, w) = InvertCarry(IF w = 2 THEN d2 ELSE d4, w)
    BY <1>1, SubUnfolds
  <2>2. Uint(c - 1) \in Int
    BY <1>1, UintType, UintOf
  <2>3. d1 \in Int
    BY <1>3, <2>1, <2>2, UnitsOfDigits, DigitsAreNumbers
  <2>4. d2 \in Int
    BY <1>3, <2>1, <2>3, UnitsOfDigits, DigitsAreNumbers
  <2>5. d3 \in Int
    BY <1>3, <2>1, <2>4, UnitsOfDigits, DigitsAreNumbers
  <2>6. d4 \in Int
    BY <1>3, <2>1, <2>5, UnitsOfDigits, DigitsAreNumbers
  <2>7. PICK x \in Int, M \in Nat : M = 16 ^ w /\ DecimalSub(c, t, m, w) = InvertCarry(x, w)
    BY <1>1, <2>1, <2>4, <2>6, Ranges
  <2> QED BY <2>7 DEF InvertCarry
<1>6. CASE op = "ADC"
  <2>1. t + m + c \in Int
    BY <1>1
  <2> QED BY <1>1, <1>4, <1>6, <2>1 DEF Register, Decimal
<1>7. CASE op = "SBC"
  <2>1. Complement(Complement(m, w), w) = m /\ Complement(m, w) \in Int
    BY <1>2 DEF Complements
  <2>2. t + Complement(m, w) + c \in Int
    BY <1>1, <2>1
  <2> QED BY <1>1, <1>5, <1>7, <2>1, <2>2 DEF Register, Decimal
<1> QED BY <1>1, <1>6, <1>7

LEMMA DecimalInit_Inv == DecimalInit => DecimalInv
<1> SUFFICES ASSUME DecimalInit PROVE DecimalInv
  OBVIOUS
<1>1. PICK op \in {"ADC", "SBC"}, d \in BOOLEAN, c \in 0 .. 1, w \in {2, 4} :
        \E a, m \in Operand(w) : instr = [op |-> op, d |-> d, c |-> c, w |-> w, a |-> a, m |-> m]
  BY DEF DecimalInit
<1>2. PICK a \in Operand(w), m \in Operand(w) :
        instr = [op |-> op, d |-> d, c |-> c, w |-> w, a |-> a, m |-> m]
  BY <1>1
<1>3. \A x \in Operand(w) : x \in Nat /\ x < 16 ^ w
  <2>1. CASE w = 2
    <3>1. ASSUME NEW x \in Operand(w) PROVE x \in Nat /\ x < 256
      <4>1. PICK h \in ByteDigit, l \in ByteDigit : x = 16 * h + l
        BY <2>1 DEF Operand
      <4>2. h \in 0 .. 15 /\ l \in 0 .. 15
        BY DecimalAssumption
      <4> QED BY <4>1, <4>2
    <3> QED BY <2>1, <3>1, Powers
  <2>2. CASE w = 4
    <3>1. ASSUME NEW x \in Operand(w) PROVE x \in Nat /\ x < 65536
      <4>1. PICK g \in WordDigit, h \in WordDigit, k \in WordDigit, l \in WordDigit :
              x = 4096 * g + 256 * h + 16 * k + l
        BY <2>2 DEF Operand
      <4>2. g \in 0 .. 15 /\ h \in 0 .. 15 /\ k \in 0 .. 15 /\ l \in 0 .. 15
        BY DecimalAssumption
      <4> QED BY <4>1, <4>2, SMT
    <3> QED BY <2>2, <3>1, Powers, SMT
  <2> QED BY <2>1, <2>2
<1>4. Typed
  BY <1>2, <1>3 DEF Typed
<1> QED BY <1>4 DEF DecimalInit, DecimalInv

LEMMA DecimalStep == DecimalInv /\ [DecimalNext]_decimalVars => DecimalInv'
<1> SUFFICES ASSUME DecimalInv, [DecimalNext]_decimalVars PROVE DecimalInv'
  OBVIOUS
<1>1. CASE Execute
  <2>1. instr' = instr /\ results' = [i \in Interpreter |-> Result(i)]
    BY <1>1 DEF Execute
  <2>2. \A i : Result(i)' = Result(i)
    BY <2>1 DEF Result
  <2>3. Typed'
    BY <2>1 DEF DecimalInv, Typed
  <2> QED BY <2>1, <2>2, <2>3 DEF DecimalInv
<1>2. CASE Undo
  <2>1. PICK op, d, c, w, t, m : Operands(op, d, c, w, t, m)
    BY TypedOperands DEF DecimalInv
  <2>2. /\ instr.w = w /\ instr.op = op /\ instr.c = c
        /\ w \in {2, 4} /\ op \in {"ADC", "SBC"} /\ c \in Nat /\ c < 2
    BY <2>1 DEF Operands
  <2>3. results["ASM"] = Result("ASM")
    BY <1>2 DEF Undo, DecimalInv, Interpreter
  <2>4. Result("ASM") = Result("C")
    BY <2>1, InterpretersGiveTheSame
  <2>5. PICK a : a = results["ASM"].a /\ a \in Nat /\ a < 16 ^ w
    <3>1. PICK M \in Nat \ {0} : M = 16 ^ w
      BY <2>2, Ranges
    <3>2. Result("C").a = Register(op, d, c, w, t, m) % M
      <4>1. Whole(Register(op, d, c, w, t, m), 16 ^ w, Result("C").a, Result("C").c)
        BY <2>1, ResultParts
      <4> QED BY <3>1, <4>1 DEF Whole
    <3>3. Register(op, d, c, w, t, m) % M \in 0 .. M - 1
      BY <2>1, <3>1, RegisterIsNumber, DivMod
    <3> QED BY <2>3, <2>4, <3>1, <3>2, <3>3
  <2>6. instr' = [instr EXCEPT !.op = IF @ = "ADC" THEN "SBC" ELSE "ADC", !.c = 1 - @, !.a = a]
        /\ results' = NoResults
    BY <1>2, <2>5 DEF Undo
  <2>7. Typed'
    <3>1. /\ instr \in [op : {"ADC", "SBC"}, d : BOOLEAN, c : 0 .. 1, w : {2, 4}, a : Nat, m : Nat]
          /\ instr.m < 16 ^ instr.w
      BY DEF DecimalInv, Typed
    <3>2. 1 - c \in 0 .. 1 /\ (IF op = "ADC" THEN "SBC" ELSE "ADC") \in {"ADC", "SBC"}
      BY <2>2
    <3>3. instr' = [instr EXCEPT !.op = IF op = "ADC" THEN "SBC" ELSE "ADC", !.c = 1 - c, !.a = a]
      BY <2>2, <2>6
    <3>4. /\ instr' \in [op : {"ADC", "SBC"}, d : BOOLEAN, c : 0 .. 1, w : {2, 4}, a : Nat, m : Nat]
          /\ instr'.w = w /\ instr'.a = a /\ instr'.m = instr.m
      BY <2>2, <2>5, <3>1, <3>2, <3>3
    <3> QED BY <2>2, <2>5, <3>1, <3>4 DEF Typed
  <2> QED BY <2>6, <2>7 DEF DecimalInv
<1>3. CASE UNCHANGED decimalVars
  <2>1. instr' = instr /\ results' = results
    BY <1>3 DEF decimalVars
  <2>2. \A i : Result(i)' = Result(i)
    BY <2>1 DEF Result
  <2> QED BY <2>1, <2>2 DEF DecimalInv, Typed
<1> QED BY <1>1, <1>2, <1>3 DEF DecimalNext

\* Sums and differences, binary and decimal, are exact for every operand, and the two
\* interpreters agree on them, on digits above 9 as well (sncpu_c.c, sn65816.S).
THEOREM ArithmeticIsExactHolds == DecimalSpec => []ArithmeticIsExact
<1>1. DecimalSpec => []DecimalInv
  BY DecimalInit_Inv, DecimalStep, PTL DEF DecimalSpec
<1> QED BY <1>1, InvIsExact, PTL
=============================================================================
