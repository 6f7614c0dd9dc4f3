------------------------------- MODULE SN65816 --------------------------------
(***************************************************************************)
(* A 65816 as its two interpreters see it: registers, memory, stack and    *)
(* flags.  The instructions are generated for both from one description    *)
(* (pd65816.xml) as lists of macros; what differs are the macros, here the *)
(* operators that ask for s.who.  s is the state of one interpreter:       *)
(*   who        which of the two                                           *)
(*   A X Y S DP DB PC E, fN .. fC   the registers; DB is shifted by 16     *)
(*   wai, irq   the signals WAI and IRQ                                    *)
(*   cyc, torn  the cycles of this instruction; whether an access of it    *)
(*              crossed from memory of one speed into another's            *)
(*   ram, fast  what the RAM has where it was written; MEMSEL              *)
(*   PB, page, pcyc  in assembly: the bank of the program, the page        *)
(*              the PC was last looked up in, and the speed it had         *)
(*   code, at, data, addr  during an instruction: its bytes, where they    *)
(*              are, the last value and address                            *)
(***************************************************************************)
EXTENDS SNCpuAdder, Sequences, TLC

SNCPU_CYCLE_SLOW == 8
SNCPU_CYCLE_FAST == 6
SNCPU_BANK_SIZE == 8192
NO_PAGE == 2 ^ 24 \div SNCPU_BANK_SIZE
HIRAM == 126 * 65536
MEMSEL == 16909   \* 420D

-----------------------------------------------------------------------------
\* The map of a cartridge without SRAM.
BankOf(a) == a \div 65536
InBank(a) == a % 65536
LowBank(a) == BankOf(a) < 256 /\ BankOf(a) % 128 < 64
IsRam(a) == BankOf(a) \in 126 .. 127 \/ (LowBank(a) /\ InBank(a) < 8192)
RamAt(a) == IF LowBank(a) THEN HIRAM + InBank(a) ELSE a
IsTrapped(a) == LowBank(a) /\ InBank(a) \in 8192 .. 24575
IsUpperRom(a) == BankOf(a) \in 128 .. 255 /\ InBank(a) >= 32768
Speed(s, a) ==
  IF IsTrapped(a) \/ (s.fast = 1 /\ IsUpperRom(a)) THEN SNCPU_CYCLE_FAST ELSE SNCPU_CYCLE_SLOW

\* bound: what memory that nothing wrote to has; the vectors lead into the ROM.
Backdrop(a) ==
  IF a \in 65504 .. 65535 THEN (IF a % 2 = 0 THEN a % 256 ELSE 145)
  ELSE (a * 37 + (a \div 256) * 11 + 90) % 256

Peek(s, a) ==
  IF s.code # << >> /\ a \in s.at .. s.at + Len(s.code) - 1 THEN s.code[a - s.at + 1]
  ELSE IF ~IsRam(a) THEN Backdrop(a)
  ELSE IF RamAt(a) \in DOMAIN s.ram THEN s.ram[RamAt(a)] ELSE Backdrop(RamAt(a))
\* A register other than MEMSEL does what the others' modules say.
Poke(a, v, s) ==
  IF IsRam(a) THEN [s EXCEPT !.ram = (RamAt(a) :> v) @@ @]
  ELSE IF LowBank(a) /\ InBank(a) = MEMSEL THEN [s EXCEPT !.fast = v % 2]
  ELSE s

ByteOf(v, i) == (v \div 256 ^ i) % 256
BytesAt(s, a, n) ==
  LET b[i \in 0 .. n] == IF i = n THEN 0 ELSE Peek(s, a + i) + 256 * b[i + 1] IN b[0]
SpeedsAt(s, a, n) ==
  LET t[i \in 0 .. n] == IF i = n THEN 0 ELSE Speed(s, a + i) + t[i + 1] IN t[0]
Torn(s, a, n) == \E i \in 1 .. n - 1 : Speed(s, a + i) # Speed(s, a)

Cycles(n, s) == [s EXCEPT !.cyc = @ + n * SNCPU_CYCLE_FAST]
\* SNCPU_SUBMEMCYCLES: the speed of the first byte; in assembly, the speed of each.
MemCycles(a, n, s) ==
  [s EXCEPT !.cyc = @ + (IF s.who = "C" THEN n * Speed(s, a) ELSE SpeedsAt(s, a, n)),
            !.torn = @ \/ Torn(s, a, n)]

\* SNCPU_READ8, 16 and 24, SNCPU_WRITE8 and 16.
Read(n, a, s) == MemCycles(a, n, [s EXCEPT !.data = BytesAt(s, a, n)])
Write(n, a, v, s) ==
  LET w[i \in 0 .. n] ==
        IF i = 0 THEN MemCycles(a, n, s) ELSE Poke(a + i - 1, ByteOf(v, i - 1), w[i - 1])
  IN w[n]

-----------------------------------------------------------------------------
\* _SNCPU_Fetch8Update: the PC has left the page it was looked up in, or was set.
\* Only its lower half is its own; the bank is the program's.
Refresh(s) ==
  IF s.page = s.PC \div SNCPU_BANK_SIZE THEN s
  ELSE LET pc == s.PB + (s.PC % 65536) IN
       [s EXCEPT !.PC = pc, !.pcyc = Speed(s, pc),
                 !.page = IF IsTrapped(pc) THEN NO_PAGE ELSE pc \div SNCPU_BANK_SIZE]
Fetched(s) == [s EXCEPT !.data = Peek(s, s.PC), !.PC = @ + 1, !.cyc = @ + s.pcyc]
FetchAsm(n, s) ==
  LET f[i \in 0 .. n] ==
        IF i = 0 THEN [s EXCEPT !.data = 0]
        ELSE LET b == Fetched(Refresh(f[i - 1])) IN
             [b EXCEPT !.data = f[i - 1].data + 256 ^ (i - 1) * @]
  IN f[n]
FetchC(n, s) == [Read(n, s.PC, s) EXCEPT !.PC = @ + n]
Fetch(n, s) == IF s.who = "C" THEN FetchC(n, s) ELSE FetchAsm(n, s)

\* SNCPU_SET_PC24, SNCPU_SET_PC16, SNCPU_BRREL and SNCPU_BREL_PC16, BRL.
SetPC24(v, s) ==
  IF s.who = "C" THEN [s EXCEPT !.PC = v % 2 ^ 24]
  ELSE [s EXCEPT !.PC = v, !.PB = BankOf(v) * 65536, !.page = NO_PAGE]
SetPC16(v, s) ==
  LET bank == BankOf(s.PC - 1) IN
  IF s.who = "ASM" THEN [s EXCEPT !.PC = s.PB + (v % 65536), !.page = NO_PAGE]
  ELSE IF v >= 65536 /\ bank % 2 = 1 THEN [s EXCEPT !.PC = bank * 65536 + (v % 65536)]
  ELSE [s EXCEPT !.PC = bank * 65536 + v]
SignedOf(v, n) == IF v >= 256 ^ n \div 2 THEN v - 256 ^ n ELSE v
Branch(s) == [s EXCEPT !.PC = @ + SignedOf(s.data, 1)]
BranchLong(s) ==
  IF s.who = "C" THEN [s EXCEPT !.PC = BankOf(@) * 65536 + ((@ + s.data) % 65536)]
  ELSE [s EXCEPT !.PC = @ + SignedOf(s.data, 2)]

-----------------------------------------------------------------------------
\* The stack: _SNCPUPush8 and _SNCPUPop8 wrap S and take slow memory for granted;
\* in assembly S is an integer, and the memory has its speed.
Wrapped(s, v) ==
  IF s.who = "ASM" THEN v
  ELSE IF s.E = 1 THEN (s.S \div 256) * 256 + (v % 256) ELSE v % 65536
StackCycles(a, s) ==
  [s EXCEPT !.cyc = @ + (IF s.who = "C" THEN SNCPU_CYCLE_SLOW ELSE Speed(s, a))]
PushByte(v, s) ==
  [Poke(s.S, v, StackCycles(s.S, s)) EXCEPT !.S = Wrapped(s, s.S - 1)]
PopByte(s) ==
  LET a == Wrapped(s, s.S + 1) IN [StackCycles(a, s) EXCEPT !.S = a, !.data = Peek(s, a)]
Push(n, v, s) ==
  LET p[i \in 0 .. n] == IF i = 0 THEN s ELSE PushByte(ByteOf(v, n - i), p[i - 1]) IN p[n]
Pop(n, s) ==
  LET p[i \in 0 .. n] ==
        IF i = 0 THEN [s EXCEPT !.data = 0]
        ELSE LET b == PopByte(p[i - 1]) IN [b EXCEPT !.data = p[i - 1].data + @ * 256 ^ (i - 1)]
  IN p[n]

-----------------------------------------------------------------------------
\* Registers of n bytes.  One byte of X or Y leaves the other in C, and clears it in
\* assembly.
Get(r, n, s) == s[r] % 256 ^ n
Set(r, n, v, s) ==
  IF n = 2 THEN [s EXCEPT ![r] = v % 65536]
  ELSE IF s.who = "ASM" /\ r \in {"X", "Y"} THEN [s EXCEPT ![r] = v % 256]
  ELSE [s EXCEPT ![r] = (@ \div 256) * 256 + (v % 256)]
ShortIndex(s) == [s EXCEPT !.X = @ % 256, !.Y = @ % 256]

Bit(v, i) == (v \div 2 ^ i) % 2
WithZ(n, v, s) == [s EXCEPT !.fZ = IF v % 256 ^ n = 0 THEN 1 ELSE 0]
WithN(n, v, s) == [s EXCEPT !.fN = Bit(v, 8 * n - 1)]
WithNZ(n, v, s) == WithN(n, v, WithZ(n, v, s))

\* The widths of the accumulator and of the index registers: which of the five tables
\* of opcodes is in use.
M(s) == 2 - s.fM
XY(s) == 2 - s.fX

\* _SNCPU_UpdateOpTable, SNCPU_SETFLAG_E.
UpdateOpTable(s) ==
  IF s.E = 1 THEN [s EXCEPT !.fM = 1, !.fX = 1, !.DP = 0, !.S = 256 + (@ % 256)] ELSE s
\* SNCPU_PACKFLAGS, _SNCPU_ComposeFlags.
Pack(s) == 128 * s.fN + 64 * s.fV + 32 * s.fM + 16 * s.fX + 8 * s.fD + 4 * s.fI + 2 * s.fZ + s.fC
\* SNCPU_SET_P: SNCPU_UNPACKFLAGS, _SNCPU_DecomposeFlags.
Shortened(f) == IF f.fX = 1 THEN ShortIndex(f) ELSE f
Unpack(p, s) ==
  UpdateOpTable(Shortened(
    [s EXCEPT !.fN = Bit(p, 7), !.fV = Bit(p, 6), !.fM = Bit(p, 5), !.fX = Bit(p, 4),
              !.fD = Bit(p, 3), !.fI = Bit(p, 2), !.fZ = Bit(p, 1), !.fC = Bit(p, 0)]))

\* The end of SNCPUExecute_C and _SNCPUExecute_Done: the registers go where the rest of
\* the program finds them; and the beginning.
Leave(s) ==
  IF s.who = "C" THEN s
  ELSE [s EXCEPT !.A = @ % 65536, !.X = @ % 65536, !.Y = @ % 65536, !.S = @ % 65536,
                 !.PC = s.PB + (@ % 65536)]
Entered(s) ==
  IF s.who = "C" THEN s
  ELSE [s EXCEPT !.PB = BankOf(s.PC) * 65536, !.page = NO_PAGE, !.pcyc = 0]
Enter(s) == Entered(Unpack(Pack(s), s))
=============================================================================
