------------------------------ MODULE SnesDMA -------------------------------
(***************************************************************************)
(* The DMA of the console core (sndma.cpp: ProcessMDMA and what it calls). *)
(* A program enables channels, and each transfers its bytes, one channel   *)
(* after the other, in chunks of what the buffer and the CPU's cycles      *)
(* allow: a transfer goes on in the next line where it was interrupted.    *)
(* The ports of a channel repeat with a period of up to four bytes.  What  *)
(* is in memory is left out: a byte is its address, time is in bytes.      *)
(***************************************************************************)
EXTENDS Integers, Sequences

CONSTANTS
  MODES,              \* dmapx & 7, a subset of 0 .. 7
  FIXED,              \* (dmapx >> 3) & 3, a subset of 0 .. 3
  STARTS,             \* a1tx, addresses
  COUNTS,             \* dasx; 0 stands for BANK
  BUFFER,             \* bytes of DmaBuffer (256)
  BANK,               \* bytes of a bank (0x10000)
  SLICES,             \* the cycles ExecuteCPU may have, in bytes
  Crosses,            \* whether a transfer runs over the end of its bank
  ReadsAlternate      \* whether a transfer from the ports uses more than one

ASSUME SnesDMAAssumption ==
  /\ MODES \subseteq 0 .. 7 /\ FIXED \subseteq 0 .. 3
  /\ BANK \in Nat \ {0} /\ STARTS \subseteq 0 .. BANK - 1 /\ COUNTS \subseteq 0 .. BANK - 1
  /\ BUFFER \in Nat \ {0} /\ BUFFER % 4 = 0
  /\ SLICES \subseteq Nat \ {0}
  /\ Crosses \in BOOLEAN /\ ReadsAlternate \in BOOLEAN

VARIABLES
  channel,       \* the registers of each channel
  enable,        \* m_MDMAEnable: the channels that are enabled
  slice,         \* m_pCPU->Cycles, in bytes; 0 for what is not positive
  uChan,         \* the loop variable of ProcessMDMA; -1: not within it
  started,       \* history: the registers when the channels were enabled
  order,         \* history: the channels enabled, in the order of transfer
  delivered      \* history: the bytes transferred

dmaVars == <<channel, enable, slice, uChan, started, order, delivered>>

Chan == {0, 1}

Registers == [read : BOOLEAN, mode : MODES, fixed : FIXED, a1tx : 0 .. BANK - 1,
              dasx : 0 .. BANK - 1]

\* _SNDma_MDMATransfer and _SNDma_MDMAInc.
Ports(mode) ==
  CASE mode \in {0, 2, 6} -> <<0, 0, 0, 0>>
    [] mode \in {1, 5}    -> <<0, 1, 0, 1>>
    [] mode \in {3, 7}    -> <<0, 0, 1, 1>>
    [] mode = 4           -> <<0, 1, 2, 3>>

Inc(fixed) == CASE fixed = 0 -> 1 [] fixed = 2 -> -1 [] fixed \in {1, 3} -> 0

Bytes(r) == IF r.dasx = 0 THEN BANK ELSE r.dasx

DmaInit ==
  /\ channel = [c \in Chan |-> [read |-> FALSE, mode |-> 0, fixed |-> 0, a1tx |-> 0, dasx |-> 0]]
  /\ enable = {} /\ slice = 0 /\ uChan = -1
  /\ started = channel /\ order = << >> /\ delivered = << >>

-----------------------------------------------------------------------------
\* The program sets the channels up and writes 420B.
Polite(r) ==
  /\ Crosses \/ Inc(r.fixed) # 1 \/ r.a1tx + Bytes(r) <= BANK
  /\ ReadsAlternate \/ ~r.read \/ r.mode \in {0, 2, 6}

DmaSettings ==
  { r \in [read : BOOLEAN, mode : MODES, fixed : FIXED, a1tx : STARTS, dasx : COUNTS] :
      Polite(r) }

EnableDma(on, regs) ==
  /\ enable' = on
  /\ channel' = regs /\ started' = regs
  /\ order' = IF on = Chan THEN <<0, 1>> ELSE <<CHOOSE c \in Chan : on = {c}>>
  /\ UNCHANGED <<slice, uChan, delivered>>

\* ExecuteCPU calls ProcessMDMA with the cycles of a part of a line.
BeginProcess(n) ==
  /\ enable # {} /\ uChan = -1
  /\ slice' = n /\ uChan' = 0
  /\ UNCHANGED <<channel, enable, started, order, delivered>>

\* ProcessMDMA: the next channel that is enabled.
NextChannel ==
  /\ uChan >= 0 /\ enable # {} /\ slice > 0 /\ uChan \notin enable
  /\ uChan' = uChan + 1
  /\ UNCHANGED <<channel, enable, slice, started, order, delivered>>

EndProcess ==
  /\ uChan >= 0 /\ (enable = {} \/ slice = 0)
  /\ uChan' = -1 /\ slice' = 0
  /\ UNCHANGED <<channel, enable, started, order, delivered>>

MinOf(a, b) == IF a <= b THEN a ELSE b

\* Faulty: no more than there are cycles for.
ChunkExact(r) ==
  LET n == MinOf(MinOf(Bytes(r), BUFFER), slice)
  IN IF Inc(r.fixed) = 1 THEN MinOf(n, BANK - r.a1tx) ELSE n

\* ProcessMDMAChFast: the bytes of the next chunk.  The cycles are rounded up
\* to four bytes, so that a chunk ends where the ports repeat; the end of the
\* bank may still cut it short.
Chunk(r) ==
  LET n == MinOf(MinOf(Bytes(r), BUFFER), ((slice + 3) \div 4) * 4)
  IN IF Inc(r.fixed) = 1 THEN MinOf(n, BANK - r.a1tx) ELSE n

\* The n bytes that begin with the registers r; the ports start again with
\* every chunk (TransferData).
Transferred(c, r, n) ==
  [i \in 1 .. n |-> [chan |-> c,
                     port |-> Ports(r.mode)[((i - 1) % 4) + 1],
                     addr |-> (r.a1tx + Inc(r.fixed) * (i - 1)) % BANK]]

\* n bytes are transferred, and the channel is through when none is left.
Transfer(c, n) ==
  LET r == channel[c] IN
  /\ delivered' = delivered \o Transferred(c, r, n)
  /\ channel' = [channel EXCEPT ![c].a1tx = (@ + Inc(r.fixed) * n) % BANK,
                                ![c].dasx = (@ - n) % BANK]
  /\ slice' = IF n < slice THEN slice - n ELSE 0
  /\ enable' = IF channel'[c].dasx = 0 THEN enable \ {c} ELSE enable
  /\ UNCHANGED <<uChan, started, order>>

TransferChunk ==
  /\ uChan \in enable /\ slice > 0
  /\ ~channel[uChan].read
  /\ Transfer(uChan, Chunk(channel[uChan]))

\* ProcessMDMAChRead: until the cycles are used up, whatever the port.
TransferRead ==
  /\ uChan \in enable /\ slice > 0
  /\ channel[uChan].read
  /\ Transfer(uChan, MinOf(Bytes(channel[uChan]), slice))

\* History: another DMA.
AnotherDma ==
  /\ enable = {} /\ uChan = -1 /\ delivered # << >>
  /\ delivered' = << >> /\ order' = << >>
  /\ channel' = [c \in Chan |-> [read |-> FALSE, mode |-> 0, fixed |-> 0, a1tx |-> 0, dasx |-> 0]]
  /\ started' = channel'
  /\ UNCHANGED <<enable, slice, uChan>>

DmaNext ==
  \/ /\ enable = {} /\ delivered = << >>
     /\ \E on \in (SUBSET Chan) \ {{}}, r \in DmaSettings, s \in DmaSettings :
          EnableDma(on, [c \in Chan |-> IF c = 0 THEN r ELSE s])
  \/ \E n \in SLICES : BeginProcess(n)
  \/ NextChannel \/ EndProcess \/ TransferChunk \/ TransferRead \/ AnotherDma

DmaSpec == DmaInit /\ [][DmaNext]_dmaVars

-----------------------------------------------------------------------------
\* What a channel has to transfer: byte by byte, the ports in turn.
Wanted(c) ==
  LET r == started[c] IN
  [i \in 1 .. Bytes(r) |-> [chan |-> c,
                            port |-> Ports(r.mode)[((i - 1) % 4) + 1],
                            addr |-> (r.a1tx + Inc(r.fixed) * (i - 1)) % BANK]]

AllWanted ==
  IF Len(order) = 2 THEN Wanted(0) \o Wanted(1)
  ELSE IF Len(order) = 1 THEN Wanted(order[1]) ELSE << >>

DmaTypeOK ==
  /\ channel \in [Chan -> Registers]
  /\ enable \subseteq Chan /\ uChan \in {-1, 0, 1, 2} /\ slice \in Nat

\* However a DMA is cut into chunks and lines, every byte goes from its address
\* to its port, in order, none twice and none left out, and the channels are
\* disabled when all of them have been transferred and not before.
DmaDelivers ==
  /\ delivered = SubSeq(AllWanted, 1, Len(delivered))
  /\ Len(delivered) <= Len(AllWanted)
  /\ (enable = {}) = (Len(delivered) = Len(AllWanted))

-----------------------------------------------------------------------------
(***************************************************************************)
(* A channel of the HDMA (sndma.cpp: BeginHDMA and ProcessHDMACh), which   *)
(* transfers a few bytes to the PPU at the end of each line, as a table in *)
(* memory tells it.  An entry of the table begins with a byte: how many    *)
(* lines it is for, and the flag REPEAT, whether all of these lines have a *)
(* transfer or only the first; 0 ends the table.  The bytes follow, or a   *)
(* pointer to them.  The byte is counted down in place, flag and all.      *)
(***************************************************************************)

CONSTANTS
  REPEAT,       \* the flag, and the range of the count (0x80)
  MEM,          \* bytes of memory; addresses wrap
  UNIT,         \* bytes of a transfer, by the mode of dmapx (1, 2 or 4)
  HDMA_LINES    \* lines of a frame that have HDMA (225)

ASSUME SnesHDMAAssumption ==
  /\ REPEAT \in Nat \ {0} /\ MEM \in Nat \ {0}
  /\ UNIT \in Nat \ {0} /\ HDMA_LINES \in Nat

Byte == 0 .. 2 * REPEAT - 1

VARIABLES
  memory,      \* the bytes of the table's bank
  indirect,    \* dmapx & 0x40
  hdmaLine,    \* lines of this frame that have been executed
  a2ax,        \* where the table is read
  ntlrx,       \* the counter
  dasx,        \* where the data is read
  entry,       \* history: address and byte of the entry at hand; -1: none yet
  lines,       \* history: lines it has been in force
  units        \* history: transfers it has made

hdmaVars == <<memory, indirect, hdmaLine, a2ax, ntlrx, dasx, entry, lines, units>>

\* The address and the byte of no entry: as where a table has ended.
NoEntry == [addr |-> 0, byte |-> 0]

HdmaInit ==
  \* REPEAT itself, a repeated entry of no lines, is one of REPEAT lines that
  \* are not repeated here, and repeated on the console: no table has it.
  /\ memory \in [0 .. MEM - 1 -> Byte \ {REPEAT}]
  /\ indirect \in BOOLEAN
  /\ hdmaLine = HDMA_LINES
  /\ a2ax = 0 /\ ntlrx = 0 /\ dasx = 0
  /\ entry = NoEntry /\ lines = 0 /\ units = 0
-----------------------------------------------------------------------------
\* BeginHDMA, as a frame begins.
BeginHDMA ==
  /\ hdmaLine = HDMA_LINES
  /\ hdmaLine' = 0
  /\ a2ax' = 0 /\ ntlrx' = 0
  /\ entry' = NoEntry /\ lines' = 0 /\ units' = 0
  /\ UNCHANGED <<memory, indirect, dasx>>

\* ProcessHDMA, at the end of a line of the picture.
Processes ==
  /\ hdmaLine < HDMA_LINES
  /\ hdmaLine' = hdmaLine + 1
  /\ UNCHANGED <<memory, indirect>>

\* Faulty: the flag is taken for a count.
EntryIsOverFlagged == ntlrx = 0

\* No line is left of the entry.
EntryIsOver == ntlrx % REPEAT = 0

\* A pointer in the table: the bank has MEM bytes.
Pointer(addr) == (memory[addr % MEM] + 2 * REPEAT * memory[(addr + 1) % MEM]) % MEM

\* A transfer moves on in the data, and with it in a table that holds it.
TransferUnit(from, table) ==
  /\ dasx' = (from + UNIT) % MEM
  /\ a2ax' = IF indirect THEN table ELSE dasx'
  /\ units' = units + 1

FetchEntry ==
  /\ Processes
  /\ EntryIsOver /\ memory[a2ax] # 0
  /\ ntlrx' = memory[a2ax] - 1
  /\ entry' = [addr |-> a2ax, byte |-> memory[a2ax]]
  /\ lines' = 1
  /\ dasx' = ((IF indirect THEN Pointer(a2ax + 1) ELSE a2ax + 1) + UNIT) % MEM
  /\ a2ax' = IF indirect THEN (a2ax + 3) % MEM ELSE dasx'
  /\ units' = 1

\* The end of the table is read again in every line.
FetchEnd ==
  /\ Processes
  /\ EntryIsOver /\ memory[a2ax] = 0
  /\ ntlrx' = 0
  /\ entry' = [addr |-> a2ax, byte |-> 0]
  /\ lines' = 0 /\ units' = 0
  /\ UNCHANGED <<a2ax, dasx>>

RepeatEntry ==
  /\ Processes
  /\ ~EntryIsOver /\ ntlrx - 1 >= REPEAT
  /\ ntlrx' = ntlrx - 1
  /\ lines' = lines + 1
  /\ TransferUnit(dasx, a2ax)
  /\ UNCHANGED entry

SkipLine ==
  /\ Processes
  /\ ~EntryIsOver /\ ntlrx - 1 < REPEAT
  /\ ntlrx' = ntlrx - 1
  /\ lines' = lines + 1
  /\ UNCHANGED <<a2ax, dasx, entry, units>>

HdmaNext == BeginHDMA \/ FetchEntry \/ FetchEnd \/ RepeatEntry \/ SkipLine

HdmaSpec == HdmaInit /\ [][HdmaNext]_hdmaVars

-----------------------------------------------------------------------------
HdmaTypeOK ==
  /\ hdmaLine \in 0 .. HDMA_LINES
  /\ a2ax \in 0 .. MEM - 1 /\ dasx \in 0 .. MEM - 1
  /\ ntlrx \in Byte
  /\ lines \in 0 .. HDMA_LINES /\ units \in 0 .. lines

\* Whatever is in the table, but for the byte REPEAT (HdmaInit): an entry is in force
\* for the lines it says, has a transfer in the first of them or in all, and the next
\* entry is looked for behind its data, or behind its pointer; the end of the table
\* stays the end.
HdmaFollowsTable ==
  IF entry.byte = 0
    THEN units = 0 /\ ntlrx = 0 /\ a2ax = entry.addr
    ELSE /\ lines <= entry.byte % REPEAT
         /\ (ntlrx % REPEAT = 0) = (lines = entry.byte % REPEAT)
         /\ units = IF entry.byte > REPEAT THEN lines ELSE 1
         /\ IF indirect
              THEN /\ a2ax = (entry.addr + 3) % MEM
                   /\ dasx = (Pointer(entry.addr + 1) + UNIT * units) % MEM
              ELSE a2ax = (entry.addr + 1 + UNIT * units) % MEM
=============================================================================
