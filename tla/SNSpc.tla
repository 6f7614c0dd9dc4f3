-------------------------------- MODULE SNSpc ---------------------------------
(***************************************************************************)
(* The sound processor is executed behind the CPU, in pieces: a read of a  *)
(* port, a full queue and the end of a line each grant it the cycles that  *)
(* it is behind, whatever instruction it is in (SyncSPC in snes.cpp).  Its *)
(* state is saved and restored between two of them (snstate.cpp).  A       *)
(* program has any instruction at its PC.                                  *)
(***************************************************************************)
EXTENDS Integers, Sequences
LOCAL INSTANCE SNSpc700
LOCAL INSTANCE TLC

CONSTANTS
  SpcGrant,    \* cycles that the processor is behind
  SPC_GRANTS   \* bound: how often it is executed

ASSUME SpcAssumption == SpcGrant \subseteq Nat \ {0} /\ SPC_GRANTS \in Nat

VARIABLES
  soundCpu,     \* the processor between two executions; << >>: there is none
  soundBegun,   \* its saved state, at first that before the first
  soundGrants   \* how often it was executed

soundVars == <<soundCpu, soundBegun, soundGrants>>

-----------------------------------------------------------------------------
\* bound: the registers at first, the operands, and the instructions that come second:
\* BNE, PUSH PSW, ADC dp, MOVW YA, MOV F1, one that is not implemented.
SoundStart == {
  [A |-> 1, X |-> 5, Y |-> 255, SP |-> 254, P |-> 3, PC |-> 512, rom |-> 1],
  [A |-> 240, X |-> 241, Y |-> 128, SP |-> 0, P |-> 224, PC |-> 4660, rom |-> 0]}
SoundOperands == {<<242, 240>>, <<64, 18>>}
SoundFollowers == {<<208, 2, 45>>, <<13, 13, 13>>, <<132, 244, 13>>, <<186, 253, 240>>,
                   <<143, 176, 241>>, <<127, 10, 42>>}
FreshSound == [DP |-> 0, fC |-> 0, fZ |-> 0, fN |-> 0, cyc |-> 0, counter |-> 0, log |-> << >>,
          data |-> 0, addr |-> 0, from |-> 0, due |-> 0, over |-> FALSE]
SoundProgram(pc, op, bytes, next) ==
  [a \in pc .. pc + 5 |-> (<<op>> \o bytes \o next)[a - pc + 1]]
SoundInit ==
  /\ \E v \in SoundStart, op \in 0 .. 255, bytes \in SoundOperands, next \in SoundFollowers :
       soundCpu = v @@ FreshSound @@ [ram |-> SoundProgram(v.PC, op, bytes, next)]
  /\ soundBegun = soundCpu /\ soundGrants = 0

-----------------------------------------------------------------------------
\* SNSPCExecute and SNSPCExecute_C: what is left of the cycles is kept for the next time.
RECURSIVE SoundLoop(_)
SoundLoop(s) == IF Affordable(s) /\ ~s.over THEN SoundLoop(Turn(s)) ELSE s
SoundGranted(n, s) == [s EXCEPT !.cyc = @ + n, !.counter = @ + n]
\* What the interpreter keeps in variables of its own is forgotten.
SoundLeft(s) ==
  [Reach(s.PC, 1, s) EXCEPT
     !.P = Pack(s), !.PC = @ % 65536, !.DP = 0, !.fC = 0, !.fZ = 0, !.fN = 0,
     !.data = 0, !.addr = 0, !.from = 0, !.due = 0]
SNSPCExecute(n, s) ==
  IF s.cyc + n <= 0 THEN SoundGranted(n, s) ELSE SoundLeft(SoundLoop(Unpack(SoundGranted(n, s))))

\* bound: the programs that stay in memory.
SoundExecutes ==
  /\ soundGrants < SPC_GRANTS
  /\ \E n \in SpcGrant : soundCpu' = SNSPCExecute(n, soundCpu)
  /\ ~soundCpu'.over
  /\ soundGrants' = soundGrants + 1
  /\ UNCHANGED soundBegun

\* SaveState copies memory with the ROM taken away, and RestoreState puts it back so.
WithRam(s) == SNSPCSetRomEnable(s.rom, [s EXCEPT !.rom = 0])
SoundIsSaved ==
  /\ soundBegun' = soundCpu
  /\ soundCpu' = SNSPCSetRomEnable(soundCpu.rom, SNSPCSetRomEnable(0, soundCpu))
  /\ UNCHANGED soundGrants
SoundIsRestored ==
  /\ soundCpu' = WithRam(soundBegun)
  /\ UNCHANGED <<soundBegun, soundGrants>>

SoundNext == SoundExecutes \/ SoundIsSaved \/ SoundIsRestored
SoundSpec == SoundInit /\ [][SoundNext]_soundVars

-----------------------------------------------------------------------------
SoundTypeOK ==
  soundCpu # << >> =>
    /\ {soundCpu.A, soundCpu.X, soundCpu.Y, soundCpu.SP, soundCpu.P} \subseteq 0 .. 255
    /\ soundCpu.PC \in 0 .. 65535 /\ soundCpu.rom \in {0, 1, 128}
    /\ \A a \in DOMAIN soundCpu.ram : a \in 0 .. 65535 /\ soundCpu.ram[a] \in 0 .. 255

\* It does not matter in which pieces the sound processor is executed, nor whether its state is
\* saved and restored in between: the registers, memory,
\* the cycles that are left, and what it did to the ports, the timers and the sound registers,
\* and when, are as if it had been executed once; and it did nothing with an instruction that it
\* had not the cycles for.
CatchUpsAreInvisible ==
  soundCpu # << >> =>
    /\ soundCpu = SNSPCExecute(soundCpu.counter - soundBegun.counter, soundBegun)
    /\ \A i \in DOMAIN soundCpu.log : soundCpu.log[i][4] <= soundCpu.counter
=============================================================================
