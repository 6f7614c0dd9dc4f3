------------------------------- MODULE SnesPPU ------------------------------
(***************************************************************************)
(* How the console core keeps CPU and PPU together (snes.cpp, snppu.cpp).  *)
(* Writes to the PPU are queued with the line the CPU is in; the PPU draws *)
(* the lines it is behind, each after the writes of the lines before it,   *)
(* when the CPU reads from it, when a DMA starts, when the queue is full   *)
(* and when the picture ends.  A DMA writes to the PPU's memories without  *)
(* the queue.  What the registers and memories hold is not modelled: they  *)
(* are determined by the operations performed on the PPU, in their order.  *)
(***************************************************************************)
EXTENDS SNQueue

CONSTANTS
  PpuWrite,        \* writes a program can make, an address and a byte each
  PpuRead,         \* reads that synchronise (2134 to 2136, 2138 to 213B)
  PICTURE_LINES,   \* lines that are drawn (224)
  FRAME_LINES,     \* lines of a frame (262)
  DmaMixes,        \* whether one DMA writes with and without the queue
  MaxAccesses      \* bound: accesses in a frame

ASSUME SnesPPUAssumption ==
  /\ PICTURE_LINES \in Nat \ {0} /\ FRAME_LINES \in Nat
  /\ PICTURE_LINES + 1 < FRAME_LINES
  /\ DmaMixes \in BOOLEAN
  /\ MaxAccesses \in Nat

VARIABLES
  cpuLine,     \* SnesSystem: m_uLine
  ppuLine,     \* SnesPPU: m_uLine, the next line it draws
  ppuVBlank,   \* SnesPPU: m_bVBlank
  ppuQueue,    \* SnesPPU: m_Queue
  dma,         \* within ProcessMDMA
  performed,   \* the operations performed on the PPU in this frame
  drawn        \* drawn[r]: how many of them line r was drawn after

ppuVars == <<cpuLine, ppuLine, ppuVBlank, ppuQueue, dma, performed, drawn>>

PpuInit ==
  /\ cpuLine = 0 /\ ppuLine = 0
  /\ ppuVBlank = FALSE
  /\ ppuQueue = SNQueueReset
  /\ dma = FALSE
  /\ performed = << >>
  /\ drawn = [r \in 1 .. PICTURE_LINES |-> 0]

-----------------------------------------------------------------------------
\* SnesPPU::Sync(uLine), in three parts: what it has performed in the end,
\* what each line it draws was drawn after, and the line it stops at.
PendingOps == [k \in 1 .. Len(Pending(ppuQueue)) |-> Pending(ppuQueue)[k].write]

SyncPerformed == performed \o PendingOps

SyncDrawn(uLine) ==
  [r \in 1 .. PICTURE_LINES |->
     IF ~ppuVBlank /\ r \in ppuLine .. uLine
       THEN Len(performed) + CountBefore(ppuQueue, r)
       ELSE drawn[r]]

SyncLine(uLine) == IF ~ppuVBlank /\ ppuLine <= uLine THEN uLine + 1 ELSE ppuLine

\* SyncPPU, and then the operations ops directly on the PPU.
SyncThen(ops) ==
  /\ performed' = SyncPerformed \o ops
  /\ drawn' = SyncDrawn(cpuLine)
  /\ ppuLine' = SyncLine(cpuLine)
  /\ ppuQueue' = DequeueAll(ppuQueue)

Bounded == Len(performed) + Len(Pending(ppuQueue)) < MaxAccesses

-----------------------------------------------------------------------------
\* Write2000 below 2140: by an instruction, by HDMA, or by a DMA to a register
\* that is not a port of a memory.  A full queue is synchronised first.
WritePpu(w) ==
  LET e == [uCycle |-> cpuLine, write |-> w] IN
  /\ Bounded
  /\ \/ /\ HasRoom(ppuQueue)
        /\ ppuQueue' = Enqueue(ppuQueue, e)
        /\ UNCHANGED <<ppuLine, performed, drawn>>
     \/ /\ ~HasRoom(ppuQueue)
        /\ performed' = SyncPerformed
        /\ drawn' = SyncDrawn(cpuLine)
        /\ ppuLine' = SyncLine(cpuLine)
        /\ ppuQueue' = Enqueue(DequeueAll(ppuQueue), e)
  /\ UNCHANGED <<cpuLine, ppuVBlank, dma>>

\* Read2000 synchronises and then reads, which moves an address on.
ReadPpu(a) ==
  /\ ~dma /\ Bounded
  /\ SyncThen(<<a>>)
  /\ UNCHANGED <<cpuLine, ppuVBlank, dma>>

\* Faulty: a DMA finds the PPU as it is.
BeginDmaUnsynced ==
  /\ ~dma
  /\ dma' = TRUE
  /\ UNCHANGED <<cpuLine, ppuLine, ppuVBlank, ppuQueue, performed, drawn>>

\* ExecuteCPU synchronises before ProcessMDMA, each time it calls it.
BeginDma ==
  /\ ~dma
  /\ dma' = TRUE
  /\ SyncThen(<< >>)
  /\ UNCHANGED <<cpuLine, ppuVBlank>>

\* TransferData: the data ports of OAM, VRAM and CGRAM are written directly.
\* A program that mixes them with registers in one DMA would find the order
\* changed; DmaMixes says whether it does.
DmaWrite(w) ==
  /\ dma /\ Bounded
  /\ DmaMixes \/ IsEmpty(ppuQueue)
  /\ performed' = Append(performed, w)
  /\ UNCHANGED <<cpuLine, ppuLine, ppuVBlank, ppuQueue, dma, drawn>>

\* The DMA has ended, or the cycles of this line have.
EndDma ==
  /\ dma
  /\ dma' = FALSE
  /\ UNCHANGED <<cpuLine, ppuLine, ppuVBlank, ppuQueue, performed, drawn>>

-----------------------------------------------------------------------------
\* ExecuteFrame: from line to line.
EndLine ==
  /\ ~dma
  /\ cpuLine # PICTURE_LINES /\ cpuLine + 1 < FRAME_LINES
  /\ cpuLine' = cpuLine + 1
  /\ UNCHANGED <<ppuLine, ppuVBlank, ppuQueue, dma, performed, drawn>>

\* After the last line of the picture SyncPPU draws what is left, and EndFrame
\* starts the vertical blank, in which nothing is drawn, and may reload the
\* address of OAM.
EndPicture ==
  /\ ~dma
  /\ cpuLine = PICTURE_LINES
  /\ cpuLine' = cpuLine + 1
  /\ performed' = Append(SyncPerformed, "EndFrame")
  /\ drawn' = SyncDrawn(cpuLine + 1)
  /\ ppuLine' = SyncLine(cpuLine + 1)
  /\ ppuQueue' = DequeueAll(ppuQueue)
  /\ ppuVBlank' = TRUE
  /\ UNCHANGED dma

\* SyncPPU after the last line of the frame, and BeginFrame of the next one.
EndVBlank ==
  /\ ~dma
  /\ cpuLine + 1 = FRAME_LINES
  /\ cpuLine' = 0 /\ ppuLine' = 0
  /\ ppuVBlank' = FALSE
  /\ performed' = << >>
  /\ drawn' = SyncDrawn(cpuLine + 1)
  /\ ppuQueue' = DequeueAll(ppuQueue)
  /\ UNCHANGED dma

PpuNext ==
  \/ \E w \in PpuWrite : WritePpu(w) \/ DmaWrite(w)
  \/ \E a \in PpuRead : ReadPpu(a)
  \/ BeginDma \/ EndDma
  \/ EndLine \/ EndPicture \/ EndVBlank

PpuSpec == PpuInit /\ [][PpuNext]_ppuVars

-----------------------------------------------------------------------------
PpuTypeOK ==
  /\ cpuLine \in 0 .. FRAME_LINES - 1
  /\ ppuLine \in 0 .. PICTURE_LINES + 2
  /\ ppuVBlank \in BOOLEAN /\ dma \in BOOLEAN
  /\ ppuQueue \in [elements : Seq([uCycle : 0 .. FRAME_LINES - 1, write : PpuWrite]), iHead : Nat]
  /\ ppuQueue.iHead <= Len(ppuQueue.elements)
  /\ Len(ppuQueue.elements) <= SNQUEUE_SIZE
  /\ performed \in Seq(PpuWrite \cup PpuRead \cup {"EndFrame"})
  /\ drawn \in [1 .. PICTURE_LINES -> Nat]

\* How far the PPU may be behind the CPU, and that its queue holds no write of a
\* line the CPU has not come to.
PpuInv ==
  /\ ppuVBlank <=> cpuLine > PICTURE_LINES
  /\ ~ppuVBlank => ppuLine <= cpuLine + 1
  /\ dma => ppuVBlank \/ ppuLine > cpuLine
  /\ \A k \in 1 .. Len(Pending(ppuQueue)) : Pending(ppuQueue)[k].uCycle <= cpuLine

\* The PPU draws what it would if every access happened at once: the queue
\* holds the rest of the operations, and a line the CPU has come to but the PPU
\* has not drawn yet will be drawn after the writes of the lines before it.
Picture == INSTANCE SnesPicture WITH
  PpuAccess <- PpuWrite \cup PpuRead,
  line      <- cpuLine,
  performed <- SyncPerformed,
  drawn     <- SyncDrawn(cpuLine)

PictureSpec == Picture!Spec
=============================================================================
