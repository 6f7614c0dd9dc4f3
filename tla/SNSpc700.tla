------------------------------- MODULE SNSpc700 -------------------------------
(***************************************************************************)
(* The instructions of the sound processor: the bodies generated for       *)
(* SNSPCExecute_C (opspc700_c.h) and those it has by hand (snspc_c.c).     *)
(* s is the state of the interpreter while it executes:                    *)
(*   A X Y SP P PC   the registers; P is stale in C, Z and N               *)
(*   DP fC fZ fN     what it keeps of P: the direct page, the carry, and   *)
(*                   16 bits that are zero, or negative, when the flag is  *)
(*                   set                                                   *)
(*   cyc, counter    the cycles left of those granted, and those granted   *)
(*   ram, rom        what was written to memory; whether the ROM hides it  *)
(*   due             when the instruction will have been executed          *)
(*   log             the accesses to the registers at F0: when, due when   *)
(*   data, addr, from   the last value, its address, the one before it     *)
(*   over            whether an address lay beyond memory                  *)
(* The operators' last argument is the state they go on from: f with the   *)
(* bytes that follow the opcode, a with an address, m with the operand.    *)
(***************************************************************************)
EXTENDS Integers, Sequences, TLC
LOCAL INSTANCE Bitwise

SNSPC_CYCLE == 21
SNSPC_ROM_ADDR == 65472
SNSPC_VECTOR_BRK == 65502
FLAG_N == 128
FLAG_V == 64
FLAG_P == 32
FLAG_B == 16
FLAG_H == 8
FLAG_I == 4
FLAG_Z == 2
FLAG_C == 1

Flag(v, f) == (v \div f) % 2 = 1
With(v, f) == IF Flag(v, f) THEN v ELSE v + f
Without(v, f) == IF Flag(v, f) THEN v - f ELSE v

-----------------------------------------------------------------------------
\* Memory.  bound: the contents of ROM, and of RAM that nothing wrote to.
Backdrop(a) == (a * 41 + (a \div 256) * 13 + 107) % 256
RomByte(a) == (a * 29 + 5) % 256
Mem(s, a) ==
  IF s.rom # 0 /\ a >= SNSPC_ROM_ADDR THEN RomByte(a)
  ELSE IF a \in DOMAIN s.ram THEN s.ram[a] ELSE Backdrop(a)
MemWord(s, a) == Mem(s, a) + 256 * Mem(s, a + 1)
Reach(a, n, s) == [s EXCEPT !.over = @ \/ a < 0 \/ a + n > 65536]

\* SNSPCGetCounter: in an instruction cyc is as it was when it began.
Time(s) == s.counter - s.cyc
IsTrapped(a) == a \in 240 .. 255
\* What answers at F3 to F7 and FD to FF is in other modules: here it depends on the time.
Answers(a) == a \in 243 .. 247 \cup 253 .. 255
ReadByte(a, s) == IF Answers(a) THEN (a + Time(s)) % 256 ELSE Mem(s, a)
ReadLog(a, n, s) ==
  SelectSeq([i \in 1 .. n |-> <<Time(s), "read", a + i - 1, s.due>>], LAMBDA r : IsTrapped(r[3]))
Read(n, a, s) ==
  [Reach(a, n, s) EXCEPT
     !.data = IF n = 1 THEN ReadByte(a, s) ELSE ReadByte(a, s) + 256 * ReadByte(a + 1, s),
     !.log = @ \o ReadLog(a, n, s)]

\* SNSPCSetRomEnable: is and was are 0, TRUE (1, at the reset) or 128.  What memory shows is
\* kept under the ROM, even if that is the ROM.
Shown(s) == IF s.rom = 0 THEN << >> ELSE [a \in SNSPC_ROM_ADDR .. 65535 |-> RomByte(a)]
SNSPCSetRomEnable(is, s) ==
  IF is = s.rom THEN s
  ELSE [s EXCEPT !.rom = is, !.ram = IF is = 0 THEN @ ELSE Shown(s) @@ @]
\* F1 clears the ports and says whether the ROM is there.
Cleared(v, p, is, s) == IF Flag(v, is) THEN [s EXCEPT !.ram = (p :> 0) @@ ((p + 1) :> 0) @@ @] ELSE s
Control(v, s) ==
  SNSPCSetRomEnable(IF Flag(v, 128) THEN 128 ELSE 0, Cleared(v, 246, 32, Cleared(v, 244, 16, s)))
Controlled(a, v, s) == IF a = 241 THEN Control(v, s) ELSE s
Write(a, v, s) ==
  Controlled(a, v % 256,
    [Reach(a, 1, s) EXCEPT
       !.ram = (a :> (v % 256)) @@ @,
       !.log = IF IsTrapped(a) THEN Append(@, <<Time(s), v % 256, a, s.due>>) ELSE @])

\* The stack and the program pass by the registers.
Stack(i, s) == 256 + ((s.SP + i) % 256)
Push(n, v, s) ==
  [s EXCEPT !.ram = (IF n = 1 THEN Stack(0, s) :> (v % 256)
                     ELSE (Stack(-1, s) :> (v % 256)) @@ (Stack(0, s) :> ((v \div 256) % 256))) @@ @,
            !.SP = (@ - n) % 256]
Pop(n, s) ==
  [s EXCEPT !.SP = (@ + n) % 256,
            !.data = Mem(s, Stack(1, s)) + (IF n = 2 THEN 256 * Mem(s, Stack(2, s)) ELSE 0)]
Fetch(n, s) ==
  IF n = 0 THEN s
  ELSE [Reach(s.PC, n, s) EXCEPT !.data = IF n = 1 THEN Mem(s, s.PC) ELSE MemWord(s, s.PC),
                                 !.PC = @ + n]

-----------------------------------------------------------------------------
\* SNSPC_PACKFLAGS and SNSPC_UNPACKFLAGS.
Kept(p) == Without(Without(Without(p, FLAG_C), FLAG_Z), FLAG_N)
Pack(s) ==
  (IF s.fZ = 0 THEN FLAG_Z ELSE 0) + (IF Flag(s.fN, 32768) THEN FLAG_N ELSE 0) + s.fC + Kept(s.P)
Unpack(s) ==
  [s EXCEPT !.fC = s.P % 2, !.DP = IF Flag(s.P, FLAG_P) THEN 256 ELSE 0,
            !.fZ = IF Flag(s.P, FLAG_Z) THEN 0 ELSE FLAG_Z, !.fN = s.P * 256]

NZ8(v, s) == [s EXCEPT !.fN = (v * 256) % 65536, !.fZ = (v * 256) % 65536]
NZ16(v, s) == [s EXCEPT !.fN = v % 65536, !.fZ = v % 65536]
Carry(v, s) == [s EXCEPT !.fC = v % 2]
Set(r, v, s) == [s EXCEPT ![r] = v % 256]
YA(s) == s.A + 256 * s.Y
SetYA(v, s) == [s EXCEPT !.A = v % 256, !.Y = (v \div 256) % 256]

-----------------------------------------------------------------------------
\* The addressing modes.
At(a, s) == [s EXCEPT !.addr = a]
Direct(f) == At(f.data + f.DP, f)
DirectIndexed(r, f) == At(f.DP + ((f.data + f[r]) % 256), f)
Postincrement(f) == At(f.X + f.DP, Set("X", f.X + 1, f))
\* MOV1 and its like: the byte that has the bit.
Member(f) == At(f.data % 8192, [f EXCEPT !.from = f.data \div 8192])
Based(mode, f) ==
  CASE mode \in {"dp", "(dp),y", "word"} -> Direct(f)
    [] mode \in {"dp,x", "(dp,x)"} -> DirectIndexed("X", f)
    [] mode = "dp,y" -> DirectIndexed("Y", f)
    [] mode = "(x)" -> At(f.X + f.DP, f)
    [] mode = "(y)" -> At(f.Y + f.DP, f)
    [] mode = "(x)+" -> Postincrement(f)
    [] mode = "abs" -> At(f.data, f)
    [] mode = "abs,x" -> At(f.data + f.X, f)
    [] mode = "abs,y" -> At(f.data + f.Y, f)
    [] mode = "bit" -> Member(f)
Pointer(p) == At(p.data, p)
PointerY(p) == At(p.data + p.Y, p)
Followed(mode, a) ==
  CASE mode = "(dp,x)" -> Pointer(Read(2, a.addr, a))
    [] mode = "(dp),y" -> PointerY(Read(2, a.addr, a))
    [] OTHER -> a
OperandSize(mode) ==
  CASE mode \in {"", "(x)", "(y)", "(x)+"} -> 0
    [] mode \in {"abs", "abs,x", "abs,y", "bit", "imm16"} -> 2
    [] OTHER -> 1
Address(mode, s) == Followed(mode, Based(mode, Fetch(OperandSize(mode), s)))
ReadAt(n, a) == Read(n, a.addr, a)
Source(mode, s) ==
  IF mode \in {"", "imm", "imm16"} THEN Fetch(OperandSize(mode), s)
  ELSE ReadAt(IF mode = "word" THEN 2 ELSE 1, Address(mode, s))
WriteBack(v, m) == Write(m.addr, v, m)

-----------------------------------------------------------------------------
\* What an operation makes of t and an operand v: data, and the flags.
Result(v, m) == NZ8(v, [m EXCEPT !.data = v % 256])
Overflowed(t, v, w, top) == Flag(t, top) = Flag(v, top) /\ Flag(t, top) # Flag(w, top)
SetV(is, m) ==
  [m EXCEPT !.P = (IF is THEN FLAG_V ELSE 0) + Without(Without(@, FLAG_V), FLAG_H)]
\* SNSPC_ADC8; SNSPC_SBC8 has the complement of the operand.
AddCarry(t, v, w, m) == Carry(w \div 256, Result(w, SetV(Overflowed(t, v, w, 128), m)))
ADC(t, v, m) == AddCarry(t, v, t + v + m.fC, m)
SBC(t, v, m) == AddCarry(t, 255 - v, t + 255 - v + m.fC, m)
CMP(t, v, m) == Carry(IF t >= v THEN 1 ELSE 0, NZ8(t - v, m))
OR(t, v, m) == Result(t | v, m)
AND(t, v, m) == Result(t & v, m)
EOR(t, v, m) == Result(t ^^ v, m)
Operate(op, t, v, m) ==
  CASE op = "OR" -> OR(t, v, m) [] op = "AND" -> AND(t, v, m) [] op = "EOR" -> EOR(t, v, m)
    [] op = "CMP" -> CMP(t, v, m) [] op = "ADC" -> ADC(t, v, m) [] op = "SBC" -> SBC(t, v, m)
Operations == {"OR", "AND", "EOR", "CMP", "ADC", "SBC"}
\* To the accumulator, and from the program or from memory (m.from) to memory.
ToAccumulator(op, r) == IF op = "CMP" THEN r ELSE Set("A", r.data, r)
ToMemory(op, r) == IF op = "CMP" THEN r ELSE WriteBack(r.data, r)

LoadInto(r, m) == NZ8(m.data, Set(r, m.data, m))
LDA(m) == LoadInto("A", m)
LDX(m) == LoadInto("X", m)
LDY(m) == LoadInto("Y", m)
Move(from, to, s) == NZ8(s[from], Set(to, s[from], s))
MoveToSP(s) == Set("SP", s.X, s)

ASL(m) == Carry(m.data \div 128, Result(2 * m.data, m))
ROL(m) == Carry(m.data \div 128, Result(2 * m.data + m.fC, m))
LSR(m) == Carry(m.data, Result(m.data \div 2, m))
ROR(m) == Carry(m.data, Result((m.data + 256 * m.fC) \div 2, m))
INC(m) == Result(m.data + 1, m)
DEC(m) == Result(m.data - 1, m)
Modified(op, m) ==
  CASE op = "ASL" -> ASL(m) [] op = "ROL" -> ROL(m) [] op = "LSR" -> LSR(m)
    [] op = "ROR" -> ROR(m) [] op = "INC" -> INC(m) [] op = "DEC" -> DEC(m)
Modifications == {"ASL", "ROL", "LSR", "ROR", "INC", "DEC"}
Nibbles(v) == 16 * (v % 16) + (v \div 16)
XCN(s) == NZ8(Nibbles(s.A), Set("A", Nibbles(s.A), s))

\* Two bytes of the direct page, and Y with A.
LoadYA(m) == NZ16(m.data, SetYA(m.data, m))
StoreYA(a) == Write(a.addr + 1, a.Y, Write(a.addr, a.A, a))
WriteWord(v, m) == Write(m.addr + 1, (v \div 256) % 256, WriteBack(v, m))
StepWord(by, m) == NZ16(m.data + by, WriteWord((m.data + by) % 65536, m))
\* SNSPC_ADC16, without the carry; SUBW adds 65536 less the operand.
AddWord(v, w, m) ==
  Carry(w \div 65536, NZ16(w, SetYA(w, SetV(Overflowed(YA(m), v, w, 32768), m))))
ADDW(m) == AddWord(m.data, YA(m) + m.data, m)
SUBW(m) == AddWord(65536 - m.data, YA(m) + 65536 - m.data, m)
CMPW(m) == Carry(IF YA(m) >= m.data THEN 1 ELSE 0, NZ16(YA(m) - m.data, m))
MUL(s) == NZ16(s.Y * s.A, SetYA(s.Y * s.A, s))
Divided(q, r, s) ==
  NZ8(q, [s EXCEPT !.A = q % 256, !.Y = r % 256,
                   !.P = IF q >= 256 THEN With(@, FLAG_V) ELSE Without(@, FLAG_V)])
DIV(s) == IF s.X = 0 THEN Divided(65535, 0, s) ELSE Divided(YA(s) \div s.X, YA(s) % s.X, s)

\* Bits: of the direct page, of a byte whose number m.from has, those that A has.
SetBit(b, m) == WriteBack(With(m.data, 2 ^ b), m)
ClearBit(b, m) == WriteBack(Without(m.data, 2 ^ b), m)
BitAt(m) == (m.data \div 2 ^ m.from) % 2
PutBit(v, m) == WriteBack(m.data + (v - BitAt(m)) * 2 ^ m.from, m)
TestBits(v, m) == WriteBack(v, NZ8(m.A & m.data, m))

-----------------------------------------------------------------------------
\* SNSPC_BRREL: a branch that is taken costs two more; not BRA.
SignedOf(v) == IF v >= 128 THEN v - 256 ELSE v
Jump(a, s) == [s EXCEPT !.PC = a]
BRA(f) == Jump(f.PC + SignedOf(f.data), f)
BranchIf(taken, f) == IF taken THEN [BRA(f) EXCEPT !.cyc = @ - 2 * SNSPC_CYCLE] ELSE f

Call(a, s) == Jump(a, Push(2, s.PC, s))
Branched(v) == Jump(v.data, v)
Called(v) == Call(v.data, v)
PushPSW(s) == Push(1, Pack(s), [s EXCEPT !.P = Pack(s)])
PopPSW(p) == Unpack([p EXCEPT !.P = p.data])
Broken(s) == Branched(Read(2, SNSPC_VECTOR_BRK, s))
BRK(s) == Broken(PushPSW(Push(2, s.PC, [s EXCEPT !.P = With(With(@, FLAG_I), FLAG_B)])))

\* Flags of 1 bit.
CLRP(s) == [s EXCEPT !.P = Without(@, FLAG_P), !.DP = 0]
SETP(s) == [s EXCEPT !.P = Without(With(@, FLAG_P), FLAG_I), !.DP = 256]
EI(s) == [s EXCEPT !.P = With(@, FLAG_I)]
DI(s) == [s EXCEPT !.P = Without(@, FLAG_I)]
CLRV(s) == [s EXCEPT !.P = Without(Without(@, FLAG_V), FLAG_H)]
STOP(s) == Jump(s.PC - 1, s)

-----------------------------------------------------------------------------
\* The table: the columns in which no two opcodes are alike, 16 rows.
Column0 == <<"NOP", "BPL", "CLRP", "BMI", "SETP", "BVC", "CLRC", "BVS",
             "SETC", "BCC", "EI", "BCS", "DI", "BNE", "CLRV", "BEQ">>
ColumnA == <<"", "DECW", "", "INCW", "", "CMPW", "", "ADDW",
             "EOR1", "SUBW", "MOV1 C", "MOVW YA", "MOV1 m", "MOVW dp", "NOT1", "MOV">>
ColumnD == <<"PUSH PSW", "DEC X", "PUSH A", "INC X", "PUSH X", "MOV X,A", "PUSH Y", "MOV A,X",
             "LDY", "MOV X,SP", "CMPY", "MOV SP,X", "LDX", "MOV A,Y", "NOTC", "MOV Y,A">>
ColumnE == <<"TSET1", "CMPX", "CBNE", "CMPX", "TCLR1", "CMPY", "DBNZ", "CMPY",
             "POP PSW", "DIV", "POP A", "", "POP X", "CBNE", "POP Y", "DBNZ Y">>
ColumnF == <<"BRK", "JMP x", "BRA", "CALL", "PCALL", "JMP", "RET", "",
             "MOV", "XCN", "STA", "LDA", "MUL", "", "SLEEP", "STOP">>
\* The others, two rows to an operation.
Pairs == [c \in 4 .. 7 |-> <<"OR", "AND", "EOR", "CMP", "ADC", "SBC", "STA", "LDA">>]
  @@ (8 :> <<"OR", "AND", "EOR", "CMP", "ADC", "SBC", "CMPX", "LDA">>)
  @@ (9 :> <<"OR", "AND", "EOR", "CMP", "ADC", "SBC", "STX", "LDX">>)
  @@ (11 :> <<"ASL", "ROL", "LSR", "ROR", "DEC", "INC", "STY", "LDY">>)
  @@ (12 :> <<"ASL", "ROL", "LSR", "ROR", "DEC", "INC", "STY", "LDY">>)
Row(op) == op \div 16
Column(op) == op % 16
Odd(op) == Row(op) % 2 = 1
NameOf(op) ==
  CASE Column(op) = 0 -> Column0[Row(op) + 1] [] Column(op) = 1 -> "TCALL"
    [] Column(op) = 2 -> (IF Odd(op) THEN "CLR1" ELSE "SET1")
    [] Column(op) = 3 -> (IF Odd(op) THEN "BBC" ELSE "BBS")
    [] Column(op) = 10 -> ColumnA[Row(op) + 1] [] Column(op) = 13 -> ColumnD[Row(op) + 1]
    [] Column(op) = 14 -> ColumnE[Row(op) + 1] [] Column(op) = 15 -> ColumnF[Row(op) + 1]
    [] op = 216 -> "STX" [] op = 248 -> "LDX" [] op = 220 -> "DEC Y" [] op = 252 -> "INC Y"
    [] OTHER -> Pairs[Column(op)][(Row(op) \div 2) + 1]

\* The columns of the accumulator's operations in memory.
BetweenMemory(op) == Row(op) < 12 /\ (Column(op) = 9 \/ (Column(op) = 8 /\ Odd(op)))
OtherModes ==
  [op \in {14, 30, 78, 94} |-> "abs"] @@ [op \in {46, 62, 110, 126} |-> "dp"] @@ (222 :> "dp,x")
  @@ [op \in {31, 63, 95} |-> "imm16"] @@ [op \in {47, 79, 143, 141, 173, 205} |-> "imm"]
  @@ [op \in {175, 191} |-> "(x)+"] @@ [op \in {138, 170, 202, 234} |-> "bit"]
  @@ [op \in {26, 58, 90, 122, 154, 186} |-> "word"] @@ [op \in {218, 250} |-> "dp"]
  @@ [op \in {201, 233} |-> "abs"] @@ [op \in {217, 249} |-> "dp,y"] @@ [op \in {216, 248} |-> "dp"]
EvenModes == [c \in {2, 3, 4, 9, 11} |-> "dp"] @@ [c \in {5, 12} |-> "abs"]
             @@ (6 :> "(x)") @@ (7 :> "(dp,x)") @@ (8 :> "imm")
OddModes == [c \in {2, 3} |-> "dp"] @@ [c \in {4, 11} |-> "dp,x"] @@ (5 :> "abs,x")
            @@ (6 :> "abs,y") @@ (7 :> "(dp),y") @@ (8 :> "imm") @@ (9 :> "(y)")
ModeOf(op) ==
  CASE op \in DOMAIN OtherModes -> OtherModes[op]
    [] op \notin DOMAIN OtherModes /\ ~Odd(op) /\ Column(op) \in DOMAIN EvenModes ->
         EvenModes[Column(op)]
    [] op \notin DOMAIN OtherModes /\ Odd(op) /\ Column(op) \in DOMAIN OddModes ->
         OddModes[Column(op)]
    [] OTHER -> ""
\* Where the result goes of an operation between memory, and what MOV dp copies to.
TargetMode(op) == IF Column(op) = 9 /\ Odd(op) THEN "(x)" ELSE "dp"

\* The cycles, 16 opcodes in a row.
Costs == <<
  <<2, 8, 4, 5, 3, 4, 3, 6, 2, 6, 1, 4, 5, 4, 6, 8>>, <<2, 8, 4, 5, 4, 5, 5, 6, 5, 5, 6, 5, 2, 2, 4, 6>>,
  <<2, 8, 4, 5, 3, 4, 3, 6, 2, 6, 1, 4, 5, 4, 5, 4>>, <<2, 8, 4, 5, 4, 5, 5, 6, 5, 5, 6, 5, 2, 2, 3, 8>>,
  <<2, 8, 4, 5, 3, 4, 3, 6, 2, 6, 1, 4, 5, 4, 6, 6>>, <<2, 8, 4, 5, 4, 5, 5, 6, 5, 5, 4, 5, 2, 2, 4, 3>>,
  <<2, 8, 4, 5, 3, 4, 3, 6, 2, 6, 1, 4, 5, 4, 5, 5>>, <<2, 8, 4, 5, 4, 5, 5, 6, 5, 5, 5, 5, 2, 2, 3, 1>>,
  <<2, 8, 4, 5, 3, 4, 3, 6, 2, 6, 5, 4, 5, 2, 4, 5>>, <<2, 8, 4, 5, 4, 5, 5, 6, 5, 5, 5, 5, 2, 2, 12, 5>>,
  <<3, 8, 4, 5, 3, 4, 3, 6, 2, 6, 4, 4, 5, 2, 4, 4>>, <<2, 8, 4, 5, 4, 5, 5, 6, 5, 5, 5, 5, 2, 2, 1, 4>>,
  <<3, 8, 4, 5, 4, 5, 4, 7, 2, 5, 5, 4, 5, 2, 4, 9>>, <<2, 8, 4, 5, 5, 6, 6, 7, 4, 5, 5, 5, 2, 2, 6, 1>>,
  <<2, 8, 4, 5, 3, 4, 3, 6, 2, 4, 5, 3, 4, 3, 4, 3>>, <<2, 8, 4, 5, 4, 5, 5, 6, 3, 4, 5, 4, 2, 2, 4, 3>> >>
CostOf(op) == Costs[Row(op) + 1][Column(op) + 1] * SNSPC_CYCLE
Implemented(op) == NameOf(op) # ""

-----------------------------------------------------------------------------
Stores == {"STA", "STX", "STY", "MOVW dp"}
Stored(name, a) ==
  CASE name = "STA" -> WriteBack(a.A, a) [] name = "STX" -> WriteBack(a.X, a)
    [] name = "STY" -> WriteBack(a.Y, a) [] name = "MOVW dp" -> StoreYA(a)

Branches == {"BPL", "BMI", "BVC", "BVS", "BCC", "BCS", "BNE", "BEQ", "BBS", "BBC", "CBNE", "DBNZ",
             "DBNZ Y"}
\* b is the number of a bit.
Taken(name, b, m) ==
  CASE name = "BPL" -> ~Flag(m.fN, 32768) [] name = "BMI" -> Flag(m.fN, 32768)
    [] name = "BNE" -> m.fZ # 0 [] name = "BEQ" -> m.fZ = 0
    [] name = "BCC" -> m.fC = 0 [] name = "BCS" -> m.fC # 0
    [] name = "BVC" -> ~Flag(m.P, FLAG_V) [] name = "BVS" -> Flag(m.P, FLAG_V)
    [] name = "BBS" -> Flag(m.data, 2 ^ b) [] name = "BBC" -> ~Flag(m.data, 2 ^ b)
    [] name = "CBNE" -> m.data # m.A [] name = "DBNZ" -> m.data # 1 [] name = "DBNZ Y" -> m.Y # 1
Counted(name, m) ==
  CASE name = "DBNZ" -> WriteBack(m.data - 1, m) [] name = "DBNZ Y" -> Set("Y", m.Y - 1, m)
    [] OTHER -> m
\* The operand is read before the distance is fetched.
Branching(name, b, m) == BranchIf(Taken(name, b, m), Fetch(1, Counted(name, m)))

Combined(op, t) == ToMemory(op, Operate(op, t.data, t.from, t))
Remembered(m) == [m EXCEPT !.from = m.data]
Copied(a) == WriteBack(a.from, a)
Pushed(name, s) ==
  CASE name = "PUSH A" -> s.A [] name = "PUSH X" -> s.X [] name = "PUSH Y" -> s.Y
Popped(name, p) ==
  CASE name = "POP A" -> Set("A", p.data, p) [] name = "POP X" -> Set("X", p.data, p)
    [] name = "POP Y" -> Set("Y", p.data, p) [] name = "POP PSW" -> PopPSW(p)
Registers == {"MOV X,A", "MOV A,X", "MOV Y,A", "MOV A,Y", "MOV X,SP", "MOV SP,X", "XCN", "MUL",
              "DIV", "CLRC", "SETC", "NOTC", "CLRV", "CLRP", "SETP", "EI", "DI", "NOP", "SLEEP",
              "STOP"}
Registered(name, s) ==
  CASE name = "MOV X,A" -> Move("A", "X", s) [] name = "MOV A,X" -> Move("X", "A", s)
    [] name = "MOV Y,A" -> Move("A", "Y", s) [] name = "MOV A,Y" -> Move("Y", "A", s)
    [] name = "MOV X,SP" -> Move("SP", "X", s) [] name = "MOV SP,X" -> MoveToSP(s)
    [] name = "XCN" -> XCN(s) [] name = "MUL" -> MUL(s) [] name = "DIV" -> DIV(s)
    [] name = "CLRC" -> Carry(0, s) [] name = "SETC" -> Carry(1, s)
    [] name = "NOTC" -> Carry(1 - s.fC, s) [] name = "CLRV" -> CLRV(s)
    [] name = "CLRP" -> CLRP(s) [] name = "SETP" -> SETP(s) [] name = "EI" -> EI(s)
    [] name = "DI" -> DI(s) [] name \in {"NOP", "SLEEP"} -> s [] name = "STOP" -> STOP(s)
Steppers == ("DEC X" :> "X") @@ ("INC X" :> "X") @@ ("DEC Y" :> "Y") @@ ("INC Y" :> "Y")
Increments == {"INC X", "INC Y"}
Operated(name, b, m) ==
  CASE name \in Operations -> ToAccumulator(name, Operate(name, m.A, m.data, m))
    [] name = "LDA" -> LDA(m) [] name = "LDX" -> LDX(m)
    [] name = "LDY" -> LDY(m) [] name = "CMPX" -> CMP(m.X, m.data, m)
    [] name = "CMPY" -> CMP(m.Y, m.data, m) [] name = "MOVW YA" -> LoadYA(m)
    [] name = "DECW" -> StepWord(-1, m) [] name = "INCW" -> StepWord(1, m)
    [] name = "ADDW" -> ADDW(m) [] name = "SUBW" -> SUBW(m) [] name = "CMPW" -> CMPW(m)
    [] name = "SET1" -> SetBit(b, m) [] name = "CLR1" -> ClearBit(b, m)
    [] name = "MOV1 C" -> Carry(BitAt(m), m) [] name = "EOR1" -> Carry(BitAt(m) + m.fC, m)
    [] name = "MOV1 m" -> PutBit(m.fC, m) [] name = "NOT1" -> PutBit(1 - BitAt(m), m)
    [] name = "TSET1" -> TestBits(m.data | m.A, m)
    [] name = "TCLR1" -> TestBits(m.data - (m.data & m.A), m)
    [] name = "BRA" -> BRA(m) [] name = "JMP" -> Branched(m) [] name = "CALL" -> Called(m)
    [] name = "PCALL" -> Call(65280 + m.data, m)
    [] name = "JMP x" -> Branched(Read(2, m.data + m.X, m))

\* A modification of X or Y, or of A in column 12; of memory otherwise.
Stepped(r, op, s) == Set(r, Modified(op, [s EXCEPT !.data = s[r]]).data,
                         Modified(op, [s EXCEPT !.data = s[r]]))
Replaced(m) == WriteBack(m.data, m)

\* The body of an opcode, which has been fetched.
Perform(name, mode, op, s) ==
  CASE name \in Stores -> Stored(name, Address(mode, s))
    [] name = "MOV" -> Copied(Address("dp", Remembered(Source(mode, s))))
    [] BetweenMemory(op) -> Combined(name, Source(TargetMode(op), Remembered(Source(mode, s))))
    [] name \in Branches -> Branching(name, Row(op) \div 2, Source(mode, s))
    [] name \in Modifications /\ mode = "" -> Stepped("A", name, s)
    [] name \in Modifications /\ mode # "" -> Replaced(Modified(name, Source(mode, s)))
    [] name \in DOMAIN Steppers -> Stepped(Steppers[name], IF name \in Increments THEN "INC" ELSE "DEC", s)
    [] name \in Registers -> Registered(name, s)
    [] name \in {"PUSH A", "PUSH X", "PUSH Y"} -> Push(1, Pushed(name, s), s)
    [] name = "PUSH PSW" -> PushPSW(s)
    [] name \in {"POP A", "POP X", "POP Y", "POP PSW"} -> Popped(name, Pop(1, s))
    [] name = "TCALL" -> Called(Read(2, SNSPC_ROM_ADDR + 2 * (15 - Row(op)), s))
    [] name = "RET" -> Branched(Pop(2, s))
    [] name = "BRK" -> BRK(s)
    [] OTHER -> Operated(name, Row(op) \div 2, Source(mode, s))

-----------------------------------------------------------------------------
\* One turn of the loop of SNSPCExecute_C: an opcode that there are not the cycles for is left
\* for the next time, one that is not implemented costs one.
Paid(n, s) == [s EXCEPT !.cyc = @ - n]
\* Faulty: as long as there are any cycles.
AffordableLate(s) == s.cyc > 0
Affordable(s) == ~Implemented(Mem(s, s.PC)) \/ s.cyc >= CostOf(Mem(s, s.PC))
Executed(op, s) ==
  IF Implemented(op)
  THEN Paid(CostOf(op), Perform(NameOf(op), ModeOf(op), op, [s EXCEPT !.due = Time(s) + CostOf(op)]))
  ELSE Paid(SNSPC_CYCLE, s)
Turn(s) == Executed(Mem(s, s.PC), Reach(s.PC, 1, [s EXCEPT !.PC = @ + 1]))
=============================================================================
