------------------------------ MODULE SnesMemMap ------------------------------
(***************************************************************************)
(* How a game file becomes a ROM (snrom.cpp), how the banks of the CPU are *)
(* mapped to it and to the other memories (snmemmap.cpp, sncpu.c), and how *)
(* fast its ROM is (420D, SetFastRom and SetSlowRom).  Sizes and offsets   *)
(* are in KB; a page is the 8 KB that are mapped at a time.                *)
(***************************************************************************)
EXTENDS Integers, Sequences

CONSTANTS
  RomKB,        \* bound: the sizes of the files, without a header
  SramKB,       \* bound: the sizes that a cartridge's information says
  BUFFER_KB     \* the room of _RomData, but for a header

ASSUME MemMapAssumption ==
  /\ \A kb \in RomKB : kb \in 1 .. BUFFER_KB /\ kb % 8 = 0
  /\ SramKB \subseteq {0, 2, 4, 8}
  /\ BUFFER_KB \in 64 .. 4096 /\ BUFFER_KB % 64 = 0

VARIABLES
  rom,       \* what the console's m_pRom holds, or NoRom
  romSpeed,  \* what the ROM pages of the upper banks are set to
  memsel     \* bit 0 of m_IO.m_Regs.memsel

memmapVars == <<rom, romSpeed, memsel>>

SLOW == 8
FAST == 6
RAM_KB == 128
NoRom == [mapping |-> "none", kb |-> 0, sram |-> 0]

-----------------------------------------------------------------------------
\* LoadRom.  A file: its size, the size (0: no such header) and the mapping that a
\* header of the SWC kind says, and where the information on its cartridge is valid.
GameFile == [kb : RomKB, swc : {0} \cup RomKB, hirom : BOOLEAN,
             info : {"none", "lo", "hi"}, sram : SramKB]

RomBytes(file) == IF file.swc # 0 THEN file.swc ELSE file.kb
HasInfo(file) ==
  RomBytes(file) >= CASE file.info = "lo" -> 32 [] file.info = "hi" -> 64
                      [] OTHER -> BUFFER_KB + 1
LoadedRom(file) ==
  [mapping |-> IF HasInfo(file) THEN IF file.info = "lo" THEN "LOROM" ELSE "HIROM"
               ELSE IF file.swc # 0 /\ file.hirom THEN "HIROM" ELSE "LOROM",
   kb |-> RomBytes(file),
   sram |-> IF HasInfo(file) THEN file.sram ELSE 0]
CanLoad(file) == RomBytes(file) <= file.kb

-----------------------------------------------------------------------------
\* The tables: from which bank and page to which; a later line wins.
Line(b1, b2, p1, p2, type) == [b1 |-> b1, b2 |-> b2, p1 |-> p1, p2 |-> p2, type |-> type]
RegisterLines(b1, b2) ==
  <<Line(b1, b2, 0, 0, "LORAM"), Line(b1, b2, 1, 1, "PPU0"), Line(b1, b2, 2, 2, "PPU1")>>

LoRom ==
  <<Line(0, 111, 4, 7, "ROM"), Line(128, 239, 4, 7, "ROM"),
    Line(64, 111, 0, 3, "ROM"), Line(192, 239, 0, 3, "ROM"),
    Line(112, 119, 0, 3, "SRAM"), Line(126, 127, 0, 7, "RAM")>>
  \o RegisterLines(0, 63) \o RegisterLines(128, 191)

HiRom ==
  <<Line(0, 63, 0, 7, "ROM"), Line(64, 111, 0, 7, "ROM"),
    Line(128, 191, 0, 7, "ROM"), Line(192, 255, 0, 7, "ROM"),
    Line(112, 119, 0, 3, "SRAM")>>
  \o [n \in 1 .. 8 |-> LET b == IF n <= 4 THEN 16 * (n - 1) ELSE 16 * (n + 3)
                       IN Line(b, b + 15, 3, 3, "SRAM")]
  \o <<Line(126, 127, 0, 7, "RAM")>> \o RegisterLines(0, 63) \o RegisterLines(128, 191)

\* MapMem.  The banks of a line take successive parts of its memory, and begin again
\* where it ends; a memory smaller than a bank's part is mapped alone, but for an SRAM
\* of a page, which repeats.
MemKB(r, type) ==
  CASE type = "ROM" -> r.kb [] type = "RAM" -> RAM_KB [] type = "SRAM" -> r.sram [] OTHER -> 8
Part(r, line) ==
  LET kb == 8 * (line.p2 - line.p1 + 1) IN
  IF kb >= MemKB(r, line.type) THEN MemKB(r, line.type) ELSE kb
Parts(r, line) == (MemKB(r, line.type) + Part(r, line) - 1) \div Part(r, line)
Offset(r, line, b) == ((b - line.b1) % Parts(r, line)) * Part(r, line)
Aligned(kb) == (kb + 7) \div 8
Repeats(r, line) == line.type = "SRAM" /\ Part(r, line) % 8 = 0
Covers(r, line, b, p) ==
  /\ b \in line.b1 .. line.b2 /\ p \in line.p1 .. line.p2 /\ Part(r, line) > 0
  /\ Repeats(r, line) \/ p < line.p1 + Aligned(Part(r, line))

Table(r) == IF r.mapping = "HIROM" THEN HiRom ELSE LoRom
\* Faulty: the first line wins.
WinnerFirst(lines) == CHOOSE n \in lines : \A m \in lines : n <= m
Winner(lines) == CHOOSE n \in lines : \A m \in lines : m <= n
\* What page p of bank b shows: of which memory, and from which KB on.
Shows(r, b, p) ==
  LET lines == {n \in DOMAIN Table(r) : Covers(r, Table(r)[n], b, p)} IN
  IF lines = {} THEN [type |-> "NONE", kb |-> 0]
  ELSE LET line == Table(r)[Winner(lines)]
           inBank == 8 * (p - line.p1)
       IN [type |-> line.type,
           kb |-> Offset(r, line, b) + (IF Repeats(r, line) THEN inBank % Part(r, line) ELSE inBank)]

-----------------------------------------------------------------------------
MemMapInit ==
  /\ rom = NoRom /\ romSpeed = SLOW
  /\ memsel = 0

\* Reset, with SetSlowRom and the reset of the registers.
ResetRegisters ==
  /\ romSpeed' = SLOW
  /\ memsel' = 0

\* _MainLoopExecuteFile: the old ROM is given up, the new one mapped (with every
\* page slow), and the console is reset.
ExecuteFile(file) ==
  IF CanLoad(file) THEN rom' = LoadedRom(file) /\ ResetRegisters
  ELSE rom' = NoRom /\ UNCHANGED <<romSpeed, memsel>>

\* 420D, which looks at bit 0 and does nothing when it is what it was.
WriteMemsel(data) ==
  /\ rom # NoRom
  /\ memsel' = data
  /\ romSpeed' = IF memsel = data THEN romSpeed ELSE IF data = 1 THEN FAST ELSE SLOW
  /\ UNCHANGED rom

\* RestoreState, of a state that was saved in this game or before.
RestoreMemsel(data) ==
  /\ rom # NoRom
  /\ memsel' = data
  /\ romSpeed' = IF data = 1 THEN FAST ELSE SLOW
  /\ UNCHANGED rom

MemMapNext ==
  \/ \E file \in GameFile : ExecuteFile(file)
  \/ \E data \in 0 .. 1 : WriteMemsel(data) \/ RestoreMemsel(data)

MemMapSpec == MemMapInit /\ [][MemMapNext]_memmapVars

-----------------------------------------------------------------------------
PagesOf(kb) == {8 * n : n \in 0 .. Aligned(kb) - 1}

\* What the CPU reaches of a memory, and how much of a ROM its banks have room for.
ShownPages(r) == {Shows(r, b, p) : b \in 0 .. 255, p \in 0 .. 7}
VisibleOf(r, type) == {x.kb : x \in {y \in ShownPages(r) : y.type = type}}
Room(r) == IF r.mapping = "LOROM" THEN 3584 ELSE BUFFER_KB

\* The CPU reaches all of the RAM, of the battery-backed RAM and of the ROM (but for
\* the end of one above the 3.5 MB that the banks of a LoROM have room for), the
\* registers in every bank that has them, and nothing beyond a memory's end: of a ROM
\* whose size is no multiple of a bank's part, beyond its end but within the buffer.
MapIsComplete ==
  rom # NoRom =>
    /\ VisibleOf(rom, "RAM") = PagesOf(RAM_KB)
    /\ VisibleOf(rom, "SRAM") = PagesOf(rom.sram)
    /\ {kb \in PagesOf(rom.kb) : kb < Room(rom)} \subseteq VisibleOf(rom, "ROM")
    /\ \A kb \in VisibleOf(rom, "ROM") : kb + 8 <= BUFFER_KB
    /\ \A b \in (0 .. 63) \cup (128 .. 191), p \in 0 .. 2 :
         Shows(rom, b, p).type = RegisterLines(b, b)[p + 1].type

\* A program runs at the speed it has chosen: the ROM is fast exactly when memsel, which
\* the game or a restored state has set last, says so; a game begins with the slow one.
SpeedIsMemsel == rom # NoRom => romSpeed = IF memsel = 1 THEN FAST ELSE SLOW

\* A cartridge that is loaded is in its place in the address space, whatever its
\* size, and its ROM is as fast as its game has said (snmemmap.cpp, snes.cpp).
CartridgeIsMapped == MapIsComplete /\ SpeedIsMemsel
=============================================================================
