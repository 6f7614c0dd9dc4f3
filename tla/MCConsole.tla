----------------------------- MODULE MCConsole ------------------------------
(***************************************************************************)
(* The parts of the console, and the main loop that runs it, in one run:   *)
(* which says the part that a behaviour is about, the others stay where    *)
(* they begin.                                                             *)
(***************************************************************************)
EXTENDS SnesPPU, SNSpcIO, SNSpcTimer, SnesDMA, SNSpcDsp,
        SNCpu, SNSpc, SnesMemMap, MainLoop, TLC

VARIABLE which   \* the part that runs

ConsolePart == {"ppu", "spc", "timer", "dma", "hdma", "dsp",
                "decimal", "cpu", "sound", "memmap", "loop"}

catchUpVars == <<ppuVars, spcVars, timerVars, dmaVars, hdmaVars, dspVars>>
othersVars == <<decimalVars, cpuVars, soundVars, memmapVars, loopVars>>
consoleVars == <<which, catchUpVars, othersVars>>

\* The HDMA begins with any memory, the processors with any instruction.
ConsoleInit ==
  /\ which \in ConsolePart
  /\ PpuInit /\ SpcIoInit /\ TimerInit /\ DmaInit /\ DspInit
  /\ HdmaInit /\ (which # "hdma" => memory = [a \in 0 .. MEM - 1 |-> 0] /\ ~indirect)
  /\ IF which = "decimal" THEN DecimalInit
     ELSE instr = << >> /\ results = NoResults
  /\ IF which = "cpu" THEN CpuInit ELSE cpu = << >> /\ calls = << >> /\ cpuSteps = 0
  /\ IF which = "sound" THEN SoundInit
     ELSE soundCpu = << >> /\ soundBegun = << >> /\ soundGrants = 0
  /\ MemMapInit /\ LoopInit

PpuRuns ==
  /\ which = "ppu" /\ PpuNext
  /\ UNCHANGED <<spcVars, timerVars, dmaVars, hdmaVars, dspVars>>

SpcIORuns ==
  /\ which = "spc" /\ SpcIoNext
  /\ UNCHANGED <<ppuVars, timerVars, dmaVars, hdmaVars, dspVars>>

TimerRuns ==
  /\ which = "timer" /\ TimerNext
  /\ UNCHANGED <<ppuVars, spcVars, dmaVars, hdmaVars, dspVars>>

DmaRuns ==
  /\ which = "dma" /\ DmaNext
  /\ UNCHANGED <<ppuVars, spcVars, timerVars, hdmaVars, dspVars>>

HdmaRuns ==
  /\ which = "hdma" /\ HdmaNext
  /\ UNCHANGED <<ppuVars, spcVars, timerVars, dmaVars, dspVars>>

DspRuns ==
  /\ which = "dsp" /\ DspNext
  /\ UNCHANGED <<ppuVars, spcVars, timerVars, dmaVars, hdmaVars>>

DecimalRuns ==
  /\ which = "decimal" /\ DecimalNext
  /\ UNCHANGED <<cpuVars, soundVars, memmapVars, loopVars>>

InterpretersRun ==
  /\ which = "cpu" /\ CpuNext
  /\ UNCHANGED <<decimalVars, soundVars, memmapVars, loopVars>>

SoundRuns ==
  /\ which = "sound" /\ SoundNext
  /\ UNCHANGED <<decimalVars, cpuVars, memmapVars, loopVars>>

MemMapRuns ==
  /\ which = "memmap" /\ MemMapNext
  /\ UNCHANGED <<decimalVars, cpuVars, soundVars, loopVars>>

LoopRuns ==
  /\ which = "loop" /\ LoopNext
  /\ UNCHANGED <<decimalVars, cpuVars, soundVars, memmapVars>>

ConsoleNext ==
  /\ \/ /\ PpuRuns \/ SpcIORuns \/ TimerRuns \/ DmaRuns \/ HdmaRuns \/ DspRuns
        /\ UNCHANGED othersVars
     \/ /\ DecimalRuns \/ InterpretersRun \/ SoundRuns \/ MemMapRuns \/ LoopRuns
        /\ UNCHANGED catchUpVars
  /\ UNCHANGED which

ConsoleSpec == ConsoleInit /\ [][ConsoleNext]_consoleVars

\* Of the part that runs: the others are as they were at the beginning.
ConsoleTypeOK ==
  CASE which = "ppu" -> PpuTypeOK /\ PpuInv
    [] which = "spc" -> SpcIoTypeOK /\ SpcTimeInv
    [] which = "dma" -> DmaTypeOK
    [] which = "hdma" -> HdmaTypeOK
    [] which = "dsp" -> DspTypeOK
    [] which = "cpu" -> CpuTypeOK
    [] which = "sound" -> SoundTypeOK
    [] which = "loop" -> LoopTypeOK /\ NetInv /\ ClipInv
    [] OTHER -> TRUE

\* What the pads give is told apart, and nothing else: every permutation is a symmetry.
PadInputs == Permutations(PadInput)

\* Wherever an interpreter is left and entered again, nothing shows of it: the CPU's of a
\* cut (CutsAreInvisible), the sound processor's of being executed in pieces
\* (CatchUpsAreInvisible).
ExecutionsResume == CutsAreInvisible /\ CatchUpsAreInvisible
=============================================================================
