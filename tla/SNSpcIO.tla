------------------------------- MODULE SNSpcIO ------------------------------
(***************************************************************************)
(* How the console core keeps the CPU and the sound processor together     *)
(* (snes.cpp: SyncSPC and the ports 2140 to 2143; snspcio.cpp; the         *)
(* counters of sncpu.c and snspc.c).  The CPU runs ahead; its writes to    *)
(* the ports are queued with their time; when the CPU reads a port, when   *)
(* the queue is full and when the frame ends, the SPC runs as long as the  *)
(* CPU has, and takes each write when its own time has passed it.          *)
(* Instructions are choices: how long one takes and what it accesses.      *)
(***************************************************************************)
EXTENDS SNQueue, Integers

CONSTANTS
  Port,              \* the ports (2140 to 2143)
  PortData,          \* what the CPU writes to them; 0 is what they are cleared to
  CpuStep,           \* cycles the CPU may run between two accesses
  SpcOp,             \* cycles an instruction of the SPC may take
  CYCLESPERFRAME,    \* SNES_CYCLESPERFRAME
  SPCMINCYCLES,      \* SNES_SPCMINCYCLES (0)
  PoliteClear,       \* whether the SPC clears no port it has writes to wait for
  MaxPortWrites      \* bound: writes in a frame

ASSUME SNSpcIOAssumption ==
  /\ PortData \subseteq Nat
  /\ CpuStep \subseteq Nat \ {0} /\ SpcOp \subseteq Nat \ {0}
  /\ SpcOp # {}
  /\ CYCLESPERFRAME \in Nat \ {0} /\ SPCMINCYCLES \in Nat
  /\ PoliteClear \in BOOLEAN /\ MaxPortWrites \in Nat

VARIABLES
  cpuTime,      \* SNCPUGetCounter(FRAME)
  accessed,     \* the instruction at hand has made its access to a port
  spcCounter,   \* m_Spc.Counter[FRAME]
  spcCycles,    \* m_Spc.Cycles: what the SPC has left to run, or has overrun
  apu_w,        \* the ports as the SPC reads them
  spcQueue,     \* the writes it has not come to
  sync,         \* what SyncSPC was called for; "none": the CPU runs
  synced,       \* whether it found time for the SPC to run
  direct,       \* the write that is to be made after it
  log,          \* history: what was written or cleared in this frame, and when
  before,       \* history: what the ports held before
  seen          \* history: what the SPC has read in the last step

spcVars == <<cpuTime, accessed, spcCounter, spcCycles, apu_w, spcQueue, sync,
             synced, direct, log, before, seen>>

NoRead == [port |-> "none"]
NoWrite == [port |-> "none"]

SpcIoInit ==
  /\ cpuTime = 0 /\ accessed = FALSE
  /\ spcCounter = 0 /\ spcCycles = 0
  /\ apu_w = [p \in Port |-> 0]
  /\ spcQueue = SNQueueReset
  /\ sync = "none" /\ synced = FALSE /\ direct = NoWrite
  /\ log = {} /\ before = [p \in Port |-> {0}]
  /\ seen = NoRead

\* SNSPCGetCounter(FRAME).
spcTime == spcCounter - spcCycles

\* The writes es performed on ports, one after the other: the last one to a
\* port is what it holds.
Performed(ports, es) ==
  [p \in Port |->
     LET to == { i \in 1 .. Len(es) : es[i].port = p } IN
     IF to = {} THEN ports[p]
     ELSE es[CHOOSE i \in to : \A j \in to : j <= i].data]

-----------------------------------------------------------------------------
\* Time passes between two accesses, and after the last one of a frame.
CpuRuns(n) ==
  /\ sync = "none"
  /\ cpuTime < CYCLESPERFRAME \/ accessed
  /\ cpuTime' = cpuTime + n
  /\ accessed' = FALSE
  /\ seen' = NoRead
  /\ UNCHANGED <<spcCounter, spcCycles, apu_w, spcQueue, sync, synced, direct, log, before>>

\* The last instruction of a frame may run past its end, and access a port.
CpuAccesses ==
  /\ sync = "none" /\ ~accessed
  /\ cpuTime <= CYCLESPERFRAME

\* Faulty: what it has run too far is counted twice.
BehindOverrun == cpuTime - spcTime

\* What the SPC has to run to come as far as the CPU.
Behind == cpuTime - spcTime - spcCycles

\* SyncSPC: the SPC is given the cycles the CPU has run since it was last.
SyncSPC(for) ==
  LET nCycles == Behind IN
  /\ sync' = for
  /\ synced' = (nCycles > SPCMINCYCLES)
  /\ IF synced' THEN /\ spcCycles' = spcCycles + nCycles
                     /\ spcCounter' = spcCounter + nCycles
                ELSE UNCHANGED <<spcCycles, spcCounter>>

\* Write2000: queued with its time, or, when the queue is full, made once the
\* SPC has caught up.
CpuWrite(p, d) ==
  LET e == [uCycle |-> cpuTime, port |-> p, data |-> d] IN
  /\ CpuAccesses
  /\ Cardinality(log) < MaxPortWrites
  /\ accessed' = TRUE
  /\ log' = log \cup {e}
  /\ \/ /\ HasRoom(spcQueue)
        /\ spcQueue' = Enqueue(spcQueue, e)
        /\ UNCHANGED <<spcCounter, spcCycles, sync, synced, direct>>
     \/ /\ ~HasRoom(spcQueue)
        /\ SyncSPC("write")
        /\ direct' = e
        /\ UNCHANGED spcQueue
  /\ seen' = NoRead
  /\ UNCHANGED <<cpuTime, apu_w, before>>

\* Read2000 returns apu_r after SyncSPC.
CpuRead ==
  /\ CpuAccesses
  /\ accessed' = TRUE
  /\ SyncSPC("read")
  /\ seen' = NoRead
  /\ UNCHANGED <<cpuTime, apu_w, spcQueue, direct, log, before>>

\* The end of ExecuteFrame.
EndSpcFrame ==
  /\ sync = "none" /\ ~accessed
  /\ cpuTime >= CYCLESPERFRAME
  /\ SyncSPC("frame")
  /\ seen' = NoRead
  /\ UNCHANGED <<cpuTime, accessed, apu_w, spcQueue, direct, log, before>>

-----------------------------------------------------------------------------
\* An instruction of the SPC begins while it has cycles left; their number is
\* taken off at its end.
SpcStarts(n) ==
  /\ sync # "none" /\ spcCycles > 0
  /\ spcCycles' = spcCycles - n
  /\ UNCHANGED <<cpuTime, accessed, spcCounter, sync, synced, direct, before>>

\* Read8Trap, F4 to F7: first the writes of the time before.
SpcRead(p, n) ==
  /\ SpcStarts(n)
  /\ apu_w' = Performed(apu_w, SubSeq(Pending(spcQueue), 1, CountBefore(spcQueue, spcTime)))
  /\ spcQueue' = DequeueBefore(spcQueue, spcTime)
  /\ seen' = [port |-> p, time |-> spcTime, data |-> apu_w'[p]]
  /\ UNCHANGED log

\* Write8Trap, F1: the ports are cleared, and nothing is taken from the queue:
\* writes that were made earlier still come, unless the program is polite.
SpcClear(p, n) ==
  /\ SpcStarts(n)
  /\ ~PoliteClear \/ CountBefore(spcQueue, spcTime) = 0
  /\ apu_w' = [apu_w EXCEPT ![p] = 0]
  /\ log' = log \cup {[uCycle |-> spcTime, port |-> p, data |-> 0]}
  /\ Cardinality(log) < MaxPortWrites
  /\ seen' = NoRead
  /\ UNCHANGED spcQueue

\* Any other instruction.
SpcRuns(n) ==
  /\ SpcStarts(n)
  /\ seen' = NoRead
  /\ UNCHANGED <<apu_w, spcQueue, log>>

\* Faulty: what is queued stays queued.
FlushedNothing == apu_w

\* The ports after SyncQueueAll, which follows if SyncSPC has run the SPC.
Flushed == IF synced THEN Performed(apu_w, Pending(spcQueue)) ELSE apu_w

\* The SPC has run for as long as it was given, and SyncSPC returns.
SyncReturns(for) ==
  /\ sync = for /\ spcCycles <= 0
  /\ spcQueue' = IF synced THEN SNQueueReset ELSE spcQueue
  /\ sync' = "none" /\ seen' = NoRead
  /\ UNCHANGED <<accessed, spcCycles, synced>>

\* Of an instruction that reads, nothing but the time is followed further.
FinishRead ==
  /\ SyncReturns("read")
  /\ apu_w' = Flushed
  /\ UNCHANGED <<cpuTime, spcCounter, direct, log, before>>

FinishWrite ==
  /\ SyncReturns("write")
  /\ apu_w' = [Flushed EXCEPT ![direct.port] = direct.data]
  /\ direct' = NoWrite
  /\ UNCHANGED <<cpuTime, spcCounter, log, before>>

\* What a port may hold after the entries es of the log, the latest counting.
Latest(p, es) ==
  LET to == { e \in es : e.port = p } IN
  IF to = {} THEN before[p]
  ELSE { e.data : e \in { f \in to : \A g \in to : g.uCycle <= f.uCycle } }

\* The counters are set to zero and the cycles kept: both chips begin the
\* next frame with what they have overrun.
FinishFrame ==
  /\ SyncReturns("frame")
  /\ apu_w' = Flushed
  /\ cpuTime' = cpuTime - CYCLESPERFRAME
  /\ spcCounter' = 0
  /\ log' = {}
  /\ before' = [p \in Port |-> Latest(p, log)]
  /\ UNCHANGED direct

SpcIoNext ==
  \/ \E n \in CpuStep : CpuRuns(n)
  \/ \E p \in Port, d \in PortData : CpuWrite(p, d)
  \/ CpuRead \/ EndSpcFrame
  \/ \E n \in SpcOp : SpcRuns(n) \/ \E p \in Port : SpcRead(p, n) \/ SpcClear(p, n)
  \/ FinishRead \/ FinishWrite \/ FinishFrame

SpcIoSpec == SpcIoInit /\ [][SpcIoNext]_spcVars

-----------------------------------------------------------------------------
SpcIoTypeOK ==
  /\ cpuTime \in Nat /\ spcCounter \in Nat /\ spcCycles \in Int
  /\ accessed \in BOOLEAN /\ synced \in BOOLEAN
  /\ apu_w \in [Port -> PortData \cup {0}]
  /\ spcQueue.elements \in Seq([uCycle : Nat, port : Port, data : PortData])
  /\ Len(spcQueue.elements) <= SNQUEUE_SIZE
  /\ spcQueue.iHead \in 0 .. Len(spcQueue.elements)
  /\ sync \in {"none", "read", "write", "frame"}

\* Whenever the SPC reads a port, it reads what the CPU wrote last before that
\* time on the SPC's own clock, whatever was queued, made directly or left from
\* the frame before; a write of the very same cycle it may find or not.
PortsInTime ==
  seen # NoRead =>
    seen.data \in Latest(seen.port, { e \in log : e.uCycle < seen.time })
             \cup Latest(seen.port, { e \in log : e.uCycle <= seen.time })

\* Why SpcKeepsUp holds: what the SPC has been given is never more than the CPU
\* has run, and all of it as soon as SyncSPC waits for it; and what it overran is
\* less than one of its instructions, for none begins without cycles left.
SpcTimeInv ==
  /\ spcCounter <= cpuTime
  /\ sync # "none" => spcCounter = cpuTime
  /\ sync = "frame" => cpuTime >= CYCLESPERFRAME
  /\ spcCycles >= 0 \/ \E n \in SpcOp : spcCycles + n > 0

\* When SyncSPC returns the SPC has come as far as the CPU, and is not ahead by
\* more than the instruction it could not leave in the middle: what the CPU
\* then reads is what the SPC would have written by now.
SpcKeepsUp ==
  sync # "none" /\ spcCycles <= 0 =>
    spcTime >= cpuTime /\ \E n \in SpcOp : spcTime < cpuTime + n

\* What one chip reads from the other is what is due by then: the SPC is given its time
\* before the CPU reads, and the writes of the CPU in their order (SyncSPC, SNSpcIO::Read8Apu).
SpcAnswers == SpcKeepsUp /\ PortsInTime
=============================================================================
