----------------------------- MODULE SnesSignals ----------------------------
(***************************************************************************)
(* What stops the CPU of the console (snes.cpp: ExecuteCPU, ExecuteLine,   *)
(* ExecuteFrame and the registers 4200, 420B, 4210 and 4211; sncpu.c: the  *)
(* signals, SNCPUExecute, SNCPUNMI and SNCPUIRQ; the instruction WAI).  A  *)
(* register that raises a signal aborts the interpreter, ExecuteCPU serves *)
(* the signal and calls the interpreter again.  The program is a choice of *)
(* instructions; one cycle is what one of them, an interrupt or a unit of  *)
(* a DMA takes.                                                            *)
(***************************************************************************)
EXTENDS Naturals, FiniteSets

CONSTANTS
  PART_CYCLES,     \* cycles of a part of a line; an IRQ comes between two
  PICTURE,         \* lines before the vertical blank (225)
  FRAME,           \* lines of a frame (262)
  MAX_DMA          \* bound: units of a DMA

ASSUME SnesSignalsAssumption ==
  /\ PART_CYCLES \in Nat \ {0} /\ MAX_DMA \in Nat \ {0}
  /\ PICTURE \in Nat \ {0} /\ FRAME \in Nat /\ PICTURE < FRAME

VARIABLES
  uSignal,      \* the signals that are set
  flagI,        \* the CPU's flag I: no IRQs
  rdnmi,        \* the bits 0x80 of RDNMI, of NMITIMEN,
  nmiEnable,    \* and its IRQ bits
  irqEnable,
  mdma,         \* units the DMA has still to transfer; 0: m_MDMAEnable is 0
  cycles,       \* m_Cpu.Cycles, 0 for what is not positive
  point,        \* where ExecuteCPU is: "top" of its loop, in the "one"
                \* instruction before an NMI, before the "nmi", or it "run"s
  scanline,     \* m_uLine
  irqAhead,     \* nIRQCycles: an IRQ is due after this part of the line
  owed          \* history: an NMI is owed to the program

signalVars == <<uSignal, flagI, rdnmi, nmiEnable, irqEnable, mdma, cycles,
                point, scanline, irqAhead, owed>>
registers == <<rdnmi, nmiEnable, irqEnable>>

SignalInit ==
  /\ uSignal = {} /\ flagI = TRUE
  /\ rdnmi = FALSE /\ nmiEnable = FALSE /\ irqEnable = FALSE
  /\ mdma = 0
  /\ cycles = PART_CYCLES
  /\ point = "top"
  /\ scanline = 0 /\ irqAhead = FALSE
  /\ owed = FALSE

-----------------------------------------------------------------------------
\* Faulty: every call with the signal on is taken for an edge.
SignalNMIAlways(signals, bEnable) ==
  IF bEnable THEN signals \cup {"NMI", "NMIEDGE"} ELSE signals \ {"NMI", "NMIEDGE"}

\* SNCPUSignalNMI.
SignalNMI(signals, bEnable) ==
  IF bEnable
    THEN IF "NMI" \in signals THEN signals ELSE signals \cup {"NMI", "NMIEDGE"}
    ELSE signals \ {"NMI", "NMIEDGE"}

\* An edge or a DMA aborts the interpreter, which keeps its other cycles.
Aborts(signals) == "NMIEDGE" \in signals \ uSignal \/ "DMA" \in signals

\* Where ExecuteCPU is after an instruction.
After(signals, left) ==
  IF point = "one" THEN "nmi"
  ELSE IF left = 0 \/ Aborts(signals) THEN "top" ELSE "run"

\* An instruction that leaves these signals.
Executes(signals) ==
  /\ point \in {"one", "run"} /\ cycles > 0
  /\ "WAI" \notin uSignal
  /\ uSignal' = signals
  /\ cycles' = cycles - 1
  /\ point' = After(signals, cycles - 1)
  /\ UNCHANGED <<scanline, irqAhead>>

\* An instruction without a part in this, or one that sets or clears I.
OtherOp(b) ==
  /\ Executes(uSignal)
  /\ flagI' = b
  /\ UNCHANGED <<registers, mdma>>

\* 4200: without IRQs enabled, TIMEUP and the signal are cleared.
WriteNmitimen(nmi, irq) ==
  /\ nmiEnable' = nmi /\ irqEnable' = irq
  /\ Executes(SignalNMI(IF irq THEN uSignal ELSE uSignal \ {"IRQ"}, rdnmi /\ nmi))
  /\ UNCHANGED <<flagI, rdnmi, mdma>>

\* 4210: reading RDNMI clears it.
ReadRdnmi ==
  /\ rdnmi' = FALSE
  /\ Executes(SignalNMI(uSignal, FALSE))
  /\ UNCHANGED <<flagI, nmiEnable, irqEnable, mdma>>

\* 4211: reading or writing TIMEUP clears it.
ClearTimeup ==
  /\ Executes(uSignal \ {"IRQ"})
  /\ UNCHANGED <<flagI, registers, mdma>>

\* 420B: channels are enabled, or disabled.
WriteMdmaen(n) ==
  /\ mdma' = n
  /\ Executes(IF n # 0 THEN uSignal \cup {"DMA"} ELSE uSignal)
  /\ UNCHANGED <<flagI, registers>>

\* WAI ends the interpreter's cycles and is executed again, until an IRQ is
\* signalled; whether one is taken depends on I.
Wai ==
  /\ point \in {"one", "run"} /\ cycles > 0
  /\ LET waits == "IRQ" \notin uSignal
         left == IF waits /\ point = "run" THEN 0 ELSE cycles - 1
     IN /\ uSignal' = IF waits THEN uSignal \cup {"WAI"} ELSE uSignal \ {"WAI"}
        /\ cycles' = left
        /\ point' = IF point = "one" THEN "nmi" ELSE IF left = 0 THEN "top" ELSE "run"
  /\ UNCHANGED <<flagI, registers, mdma, scanline, irqAhead>>

-----------------------------------------------------------------------------
\* Faulty: the signal is removed when time is up, whatever is left.
ServeDmaOnce ==
  /\ point = "top" /\ cycles > 0 /\ "DMA" \in uSignal
  /\ LET n == IF mdma <= cycles THEN mdma ELSE cycles IN
     /\ mdma' = mdma - n
     /\ cycles' = cycles - n
     /\ uSignal' = uSignal \ {"DMA"}
  /\ UNCHANGED <<flagI, registers, point, scanline, irqAhead>>

\* ExecuteCPU, DMA before everything else: as much of it as there is time for.
\* The signal is removed when all channels are through.
ServeDma ==
  /\ point = "top" /\ cycles > 0 /\ "DMA" \in uSignal
  /\ LET n == IF mdma <= cycles THEN mdma ELSE cycles IN
     /\ mdma' = mdma - n
     /\ cycles' = cycles - n
     /\ uSignal' = IF mdma = n THEN uSignal \ {"DMA"} ELSE uSignal
  /\ UNCHANGED <<flagI, registers, point, scanline, irqAhead>>

\* An NMI is due: unless the CPU waits, one more instruction is executed first.
ServeEdge ==
  /\ point = "top" /\ cycles > 0
  /\ "DMA" \notin uSignal /\ "NMIEDGE" \in uSignal
  /\ point' = IF "WAI" \in uSignal THEN "nmi" ELSE "one"
  /\ UNCHANGED <<uSignal, flagI, registers, mdma, cycles, scanline, irqAhead>>

\* SNCPUNMI, and the edge is cleared.
ServeNMI ==
  /\ point = "nmi"
  /\ uSignal' = uSignal \ {"WAI", "NMIEDGE"}
  /\ cycles' = IF cycles > 0 THEN cycles - 1 ELSE 0
  /\ point' = "run"
  /\ UNCHANGED <<flagI, registers, mdma, scanline, irqAhead>>

\* SNCPUIRQ, if I allows; or nothing is signalled.  Then the CPU runs.
ServeIRQ ==
  /\ point = "top" /\ cycles > 0
  /\ uSignal \cap {"DMA", "NMIEDGE"} = {}
  /\ point' = "run"
  /\ IF "IRQ" \in uSignal /\ ~flagI
       THEN /\ flagI' = TRUE
            /\ uSignal' = uSignal \ {"WAI"}
            /\ cycles' = cycles - 1
       ELSE UNCHANGED <<flagI, uSignal, cycles>>
  /\ UNCHANGED <<registers, mdma, scanline, irqAhead>>

-----------------------------------------------------------------------------
\* ExecuteCPU returns.
Returned == point \in {"top", "run"} /\ cycles = 0

\* ExecuteWithIRQ: the IRQ that was due when the line began is signalled, and
\* the rest of the line executed.
RaiseIRQ ==
  /\ Returned /\ irqAhead
  /\ uSignal' = uSignal \cup {"IRQ"}
  /\ irqAhead' = FALSE
  /\ cycles' = PART_CYCLES /\ point' = "top"
  /\ UNCHANGED <<flagI, registers, mdma, scanline>>

\* Faulty: at the end of the vertical blank the signal is left alone.
LineSignalsHigh(next) ==
  IF next = PICTURE THEN SignalNMI(uSignal, nmiEnable) ELSE uSignal

\* ExecuteFrame: RDNMI is set as the vertical blank begins and cleared as it
\* ends, and the signal follows.
LineSignals(next) ==
  IF next = PICTURE THEN SignalNMI(uSignal, nmiEnable)
  ELSE IF next = 0 THEN SignalNMI(uSignal, FALSE)
  ELSE uSignal

\* The next line.  Whether it has an IRQ is decided as it begins, by what is
\* enabled then and the position that is programmed.
NextScanline(irq) ==
  /\ Returned /\ ~irqAhead
  /\ scanline' = (scanline + 1) % FRAME
  /\ rdnmi' = IF scanline' = PICTURE THEN TRUE ELSE IF scanline' = 0 THEN FALSE ELSE rdnmi
  /\ uSignal' = LineSignals(scanline')
  /\ irqAhead' = (irq /\ irqEnable)
  /\ cycles' = PART_CYCLES /\ point' = "top"
  /\ UNCHANGED <<flagI, nmiEnable, irqEnable, mdma>>

-----------------------------------------------------------------------------
\* History: an NMI is owed from the moment RDNMI and its enable bit are both
\* set until it is performed, or until one of them is cleared before ExecuteCPU
\* has begun to serve it.
Level == rdnmi /\ nmiEnable

Owes ==
  owed' = \/ Level' /\ ~Level
          \/ owed /\ (Level' \/ point \in {"one", "nmi"}) /\ ~(point = "nmi" /\ point' = "run")

Instruction ==
  \/ \E b \in BOOLEAN : OtherOp(b)
  \/ \E nmi, irq \in BOOLEAN : WriteNmitimen(nmi, irq)
  \/ ReadRdnmi \/ ClearTimeup \/ Wai
  \/ \E n \in {0, 1, MAX_DMA} : WriteMdmaen(n)

SignalNext ==
  /\ \/ Instruction
     \/ ServeDma \/ ServeEdge \/ ServeNMI \/ ServeIRQ
     \/ RaiseIRQ \/ \E irq \in BOOLEAN : NextScanline(irq)
  /\ Owes

\* The console core runs frame after frame.
SignalFairness == WF_signalVars(SignalNext)

SignalSpec == SignalInit /\ [][SignalNext]_signalVars
FairSignalSpec == SignalSpec /\ SignalFairness

-----------------------------------------------------------------------------
SignalTypeOK ==
  /\ uSignal \subseteq {"NMI", "NMIEDGE", "IRQ", "DMA", "WAI"}
  /\ flagI \in BOOLEAN /\ rdnmi \in BOOLEAN
  /\ nmiEnable \in BOOLEAN /\ irqEnable \in BOOLEAN
  /\ mdma \in 0 .. MAX_DMA
  /\ cycles \in 0 .. PART_CYCLES
  /\ point \in {"top", "one", "nmi", "run"}
  /\ scanline \in 0 .. FRAME - 1 /\ irqAhead \in BOOLEAN
  /\ owed \in BOOLEAN

\* Exactly one NMI is performed for every time RDNMI and its enable bit come to
\* be set together: none for a bit written again, none twice when a DMA, an IRQ
\* or WAI comes between, and none forgotten while both stay set.
NmiOncePerEdge ==
  owed <=> "NMIEDGE" \in uSignal \/ point \in {"one", "nmi"}

\* Why NmiOncePerEdge holds: the signal follows RDNMI and its enable bit at each
\* of their changes, an edge is only remembered while the signal is on, and the
\* instruction that is let through before an NMI runs with the edge still set.
SignalInv ==
  /\ "NMI" \in uSignal <=> Level
  /\ "NMIEDGE" \in uSignal => "NMI" \in uSignal
  /\ point = "one" => "NMIEDGE" \in uSignal
  /\ NmiOncePerEdge

\* A DMA that is enabled is executed or disabled in the end, also one that
\* takes longer than a line, or is enabled just before an NMI.
DmaCompletes == mdma > 0 ~> mdma = 0

\* A CPU that waits with NMIs enabled is woken, also when it begins to wait
\* while RDNMI is set already.
WaitEnds == "WAI" \in uSignal /\ nmiEnable ~> "WAI" \notin uSignal

\* Whatever the CPU waits for comes: the end of a DMA, and the NMI (ExecuteCPU).
SignalsEnd == DmaCompletes /\ WaitEnds

\* The assertion of ExecuteCPU: when the interpreter is called no DMA waits.
NoDmaWaits == point' = "run" /\ point # "run" => mdma' = 0
NoDmaWaitsWhenRunning == [][NoDmaWaits]_signalVars
=============================================================================
