---------------------------- MODULE SnesPPUPorts ----------------------------
(***************************************************************************)
(* The PPU's registers and the ports of its memories (snppu.cpp): what a   *)
(* write to 2100 to 2133 changes, and of what it tells the renderer.  A    *)
(* PPU is a record: regs, the memories vram, cgram and oam, and flags, the *)
(* renderer's m_UpdateFlags.  A register is addressed by its offset from   *)
(* 2100.  VRAM is the words that were written; the others are zero.        *)
(***************************************************************************)
EXTENDS Integers, Sequences, TLC, Bitwise

CONSTANT OBJ_NUM    \* SNESPPU_OBJ_NUM (128)

ASSUME PortsAssumption == OBJ_NUM \in {4 * n : n \in 1 .. 32}

UpdateFlag == {"OBJ", "PAL", "BGSCR", "BGCHR", "WINDOW"}

Bits(v, lo, n) == (v \div 2^lo) % 2^n     \* (v >> lo) & ((1 << n) - 1)
Lo(w) == w % 256
Hi(w) == w \div 256

\* The registers that hold the byte written to them.
ByteRegister ==
  0 :> "inidisp" @@ 1 :> "obsel" @@ 5 :> "bgmode" @@ 6 :> "mosaic"
  @@ 7 :> "bg1sc" @@ 8 :> "bg2sc" @@ 9 :> "bg3sc" @@ 10 :> "bg4sc"
  @@ 11 :> "bg12nba" @@ 12 :> "bg34nba" @@ 26 :> "m7sel"
  @@ 35 :> "w12sel" @@ 36 :> "w34sel" @@ 37 :> "wobjsel"
  @@ 38 :> "wh0" @@ 39 :> "wh1" @@ 40 :> "wh2" @@ 41 :> "wh3"
  @@ 42 :> "wbglog" @@ 43 :> "wobjlog" @@ 44 :> "tm" @@ 45 :> "ts"
  @@ 46 :> "tmw" @@ 47 :> "tsw" @@ 48 :> "cgwsel" @@ 49 :> "cgadsub"
  @@ 51 :> "setini"

\* Those of which the renderer is told when they change.
FlagsOf(a) ==
  CASE a = 1 -> {"OBJ"}
    [] a = 5 -> {"BGSCR", "BGCHR"}
    [] a \in 7 .. 10 -> {"BGSCR"}
    [] a \in 11 .. 12 -> {"BGCHR"}
    [] a \in 35 .. 43 -> {"WINDOW"}
    [] OTHER -> {}

\* The offsets, which share a latch, and those written low byte first.
OffsetRegister ==
  13 :> "bg1hofs" @@ 14 :> "bg1vofs" @@ 15 :> "bg2hofs" @@ 16 :> "bg2vofs"
  @@ 17 :> "bg3hofs" @@ 18 :> "bg3vofs" @@ 19 :> "bg4hofs" @@ 20 :> "bg4vofs"

LoHiRegister ==
  27 :> "m7a" @@ 28 :> "m7b" @@ 29 :> "m7c" @@ 30 :> "m7d" @@ 31 :> "m7x" @@ 32 :> "m7y"

OtherRegister ==
  {"oamaddr", "oamaddrlatch", "oampri", "bgofslo", "vmain", "vmaddr", "vmreadlatch",
   "vminc0", "vminc1", "cgadd", "coldata", "mpy"}

Register == {ByteRegister[a] : a \in DOMAIN ByteRegister}
            \cup {OffsetRegister[a] : a \in DOMAIN OffsetRegister}
            \cup {LoHiRegister[a] : a \in DOMAIN LoHiRegister} \cup OtherRegister

OAM_SIZE == OBJ_NUM * 4 + OBJ_NUM \div 4

ResetPPU ==
  [regs |-> [r \in Register |-> 0], vram |-> << >>,
   cgram |-> [c \in 0 .. 255 |-> 0], oam |-> [b \in 0 .. OAM_SIZE - 1 |-> 0],
   flags |-> UpdateFlag]

Set(ppu, name, value) == [ppu EXCEPT !.regs[name] = value]

-----------------------------------------------------------------------------
Word(vram, a) == IF a \in DOMAIN vram THEN vram[a] ELSE 0

\* _SwizzleVramAddr: the low bits of the address are rotated by three.
SwizzleVramAddr(addr, full) ==
  LET n == full + 4 IN
  IF full = 0 THEN addr % 2^15
  ELSE Bits(addr, n + 4, 11 - n) * 2^(n + 4) + (addr % 2^(n + 1)) * 8 + Bits(addr, n + 1, 3)

VramAddr(ppu, addr) == SwizzleVramAddr(addr, Bits(ppu.regs.vmain, 2, 2))

\* A byte of the word that the address points to, and the address moved on.
PutVram(ppu, high, data) ==
  LET a == VramAddr(ppu, ppu.regs.vmaddr)
      w == Word(ppu.vram, a)
      inc == IF high THEN ppu.regs.vminc1 ELSE ppu.regs.vminc0
  IN [ppu EXCEPT !.vram = (a :> IF high THEN data * 256 + Lo(w) ELSE Hi(w) * 256 + data) @@ @,
                 !.regs.vmaddr = (@ + inc) % 2^16]

WriteVMDATA(ppu, high, data) == PutVram(Set(ppu, "vmreadlatch", ppu.regs.vmaddr), high, data)

\* Both at once, for a DMA; the latch for reading stays.
WriteVMDATALH(ppu, dataL, dataH) == PutVram(PutVram(ppu, FALSE, dataL), TRUE, dataH)

\* A read gives what the address pointed to before, when it moves the address on.
ReadVMDATA(ppu, high) ==
  LET w == Word(ppu.vram, VramAddr(ppu, ppu.regs.vmreadlatch))
      inc == IF high THEN ppu.regs.vminc1 ELSE ppu.regs.vminc0
  IN [data |-> IF high THEN Hi(w) ELSE Lo(w),
      ppu |-> IF inc = 0 THEN ppu
              ELSE [ppu EXCEPT !.regs.vmreadlatch = ppu.regs.vmaddr,
                               !.regs.vmaddr = (@ + inc) % 2^16]]

OamIndex(ppu) ==
  LET a == ppu.regs.oamaddr % 1024 IN IF a >= OAM_SIZE THEN a & (OAM_SIZE - 1) ELSE a

OamNext(ppu) == Set(ppu, "oamaddr", (ppu.regs.oamaddr + 1) % 2^16)

WriteOAMDATA(ppu, data) ==
  [OamNext(ppu) EXCEPT !.oam[OamIndex(ppu)] = data, !.flags = @ \cup {"OBJ"}]

ReadOAMDATA(ppu) == [data |-> ppu.oam[OamIndex(ppu)], ppu |-> OamNext(ppu)]

\* UpdateCGRAM puts the colour into the renderer's palette at once.
CgIndex(ppu) == (ppu.regs.cgadd \div 2) % 256
CgNext(ppu) == Set(ppu, "cgadd", (ppu.regs.cgadd + 1) % 2^16)

WriteCGDATA(ppu, data) ==
  [CgNext(ppu) EXCEPT !.cgram[CgIndex(ppu)] =
     IF ppu.regs.cgadd % 2 = 0 THEN Hi(@) * 256 + data ELSE data * 256 + Lo(@)]

ReadCGDATA(ppu) ==
  LET c == ppu.cgram[CgIndex(ppu)]
  IN [data |-> IF ppu.regs.cgadd % 2 = 0 THEN Lo(c) ELSE Hi(c), ppu |-> CgNext(ppu)]

-----------------------------------------------------------------------------
Signed16(w) == IF w >= 2^15 THEN w - 2^16 ELSE w

\* UpdateMatMul: the product of m7a and the high byte of m7b, of 24 bits.
UpdateMatMul(ppu) ==
  Set(ppu, "mpy", (Signed16(ppu.regs.m7a) * (Signed16(ppu.regs.m7b) \div 256)) % 2^24)

WriteLoHi(ppu, name, data) == Set(ppu, name, Hi(ppu.regs[name]) + data * 256)

\* oamaddl and oamaddh: the address in bytes, and bit 15 to rotate the priorities.
WriteOamAddr(ppu, addr) ==
  LET latched == Set(Set(ppu, "oamaddr", addr), "oamaddrlatch", addr)
  IN IF addr >= 2^15 THEN Set(latched, "oampri", (addr % 512) \div 4) ELSE latched

WriteVmain(ppu, data) ==
  LET inc == <<1, 32, 128, 128>>[(data % 4) + 1]
      moved(low, high) == [ppu EXCEPT !.regs.vmain = data, !.regs.vminc0 = low, !.regs.vminc1 = high]
  IN IF data >= 128 THEN moved(0, inc) ELSE moved(inc, 0)

\* Bits 5 to 7 choose the channels that are set to bits 0 to 4.
WriteColdata(ppu, data) ==
  LET channel(n) == IF Bits(data, 5 + n, 1) = 1 THEN data % 32 ELSE Bits(ppu.regs.coldata, 5 * n, 5)
  IN Set(ppu, "coldata", channel(0) + channel(1) * 32 + channel(2) * 1024)

WriteByteRegister(ppu, a, data) ==
  LET name == ByteRegister[a]
  IN [Set(ppu, name, data) EXCEPT
        !.flags = IF ppu.regs[name] # data THEN @ \cup FlagsOf(a) ELSE @]

Write8(ppu, a, data) ==
  LET regs == ppu.regs IN
  CASE a \in DOMAIN ByteRegister -> WriteByteRegister(ppu, a, data)
    [] a = 2 -> WriteOamAddr(ppu, (regs.oamaddr \div 2^15) * 2^15 + data * 2)
    [] a = 3 -> WriteOamAddr(ppu, (regs.oamaddr % 512) + (data % 2) * 512 + (data \div 128) * 2^15)
    [] a = 4 -> WriteOAMDATA(ppu, data)
    [] a \in DOMAIN OffsetRegister ->
         Set(Set(ppu, OffsetRegister[a], data * 256 + regs.bgofslo), "bgofslo", data)
    [] a = 21 -> WriteVmain(ppu, data)
    [] a = 22 -> [ppu EXCEPT !.regs.vmaddr = Hi(@) * 256 + data, !.regs.vmreadlatch = Hi(@) * 256 + data]
    [] a = 23 -> [ppu EXCEPT !.regs.vmaddr = data * 256 + Lo(@), !.regs.vmreadlatch = data * 256 + Lo(@)]
    [] a = 24 -> WriteVMDATA(ppu, FALSE, data)
    [] a = 25 -> WriteVMDATA(ppu, TRUE, data)
    [] a \in 27 .. 28 -> UpdateMatMul(WriteLoHi(ppu, LoHiRegister[a], data))
    [] a \in 29 .. 32 -> WriteLoHi(ppu, LoHiRegister[a], data)
    [] a = 33 -> Set(ppu, "cgadd", data * 2)
    [] a = 34 -> WriteCGDATA(ppu, data)
    [] a = 50 -> WriteColdata(ppu, data)
    [] OTHER -> ppu

\* EndFrame: the address of OAM is reloaded, unless the screen is blanked.
EndFrameOam(ppu) ==
  IF ppu.regs.inidisp < 128 THEN Set(ppu, "oamaddr", ppu.regs.oamaddrlatch) ELSE ppu
=============================================================================
