------------------------------ MODULE SN65816Ops ------------------------------
(***************************************************************************)
(* The instructions of the 65816: the bodies generated for SNCPUExecute_C  *)
(* (op65816.h) and for SNCPUExecute_ASM (op65816_mips.h), and those that   *)
(* each has by hand (sncpu_c.c, sn65816.S).  A body is generated once for  *)
(* each width; here the width is a parameter, of 1 or 2 bytes.             *)
(***************************************************************************)
EXTENDS SN65816
LOCAL INSTANCE Bitwise

-----------------------------------------------------------------------------
\* The addressing modes: what comes before READ or WRITE.  f is the state with the bytes
\* that follow the opcode, a one with an address.
At(a, s) == [s EXCEPT !.addr = a]
Direct(f) == At((f.data + f.DP) % 65536, f)
DirectIndexed(r, d) ==
  At((d.addr + d[r]) % (IF d.E = 1 THEN 256 ELSE 65536), Cycles(1, d))
StackRelative(f) == At((f.data + f.S) % 65536, Cycles(1, f))
Absolute(f) == At(f.data + f.DB, f)
Long(f) == At(f.data, f)
ReadAt(n, a) == Read(n, a.addr, a)
\* A pointer of 2 bytes, in the data bank, or of 3.
PointerAt(n, p) == At(IF n = 2 THEN p.data + p.DB ELSE p.data, p)
Through(n, a) == PointerAt(n, ReadAt(n, a))
Plus(r, a) == At(a.addr + a[r], a)

Based(mode, f) ==
  CASE mode \in {"dp", "(dp)", "(dp),y", "[dp]", "[dp],y"} -> Direct(f)
    [] mode \in {"dp,x", "(dp,x)"} -> DirectIndexed("X", Direct(f))
    [] mode = "dp,y" -> DirectIndexed("Y", Direct(f))
    [] mode \in {"sr", "(sr),y"} -> StackRelative(f)
    [] mode \in {"abs", "abs,x", "abs,y"} -> Absolute(f)
    [] mode \in {"long", "long,x"} -> Long(f)
Followed(mode, a) ==
  CASE mode \in {"(dp)", "(dp,x)", "(dp),y"} -> Through(2, a)
    [] mode = "(sr),y" -> Cycles(1, Through(2, a))
    [] mode \in {"[dp]", "[dp],y"} -> Through(3, a)
    [] OTHER -> a
Indexed(mode, a) ==
  CASE mode \in {"abs,x", "long,x"} -> Plus("X", a)
    [] mode \in {"(dp),y", "[dp],y", "(sr),y", "abs,y"} -> Plus("Y", a)
    [] OTHER -> a
Address(mode, f) == Indexed(mode, Followed(mode, Based(mode, f)))

\* The operand, n bytes, of an instruction that reads.
Source(mode, n, f) == IF mode = "imm" THEN f ELSE ReadAt(n, Address(mode, f))

-----------------------------------------------------------------------------
\* Loads and the accumulator's operations: m is the state with the operand.
LoadInto(r, n, m) == WithNZ(n, m.data, Set(r, n, m.data, m))
LDA(m) == LoadInto("A", M(m), m)
LDX(m) == LoadInto("X", XY(m), m)
LDY(m) == LoadInto("Y", XY(m), m)

Arithmetic(op, m) ==
  LET r == AddResult(m.who, [op |-> op, d |-> m.fD = 1, c |-> m.fC, w |-> 2 * M(m),
                             a |-> Get("A", M(m), m), m |-> m.data])
  IN [WithNZ(M(m), r.a, Set("A", M(m), r.a, m)) EXCEPT !.fC = r.c, !.fV = IF r.v THEN 1 ELSE 0]
ADC(m) == Arithmetic("ADC", m)
SBC(m) == Arithmetic("SBC", m)

Accumulate(v, m) == WithNZ(M(m), v, Set("A", M(m), v, m))
AND(m) == Accumulate(Get("A", M(m), m) & m.data, m)
EOR(m) == Accumulate(Get("A", M(m), m) ^^ m.data, m)
ORA(m) == Accumulate(Get("A", M(m), m) | m.data, m)

Compare(r, n, m) ==
  LET v == Get(r, n, m) - m.data IN
  [WithNZ(n, v % 256 ^ n, m) EXCEPT !.fC = IF v < 0 THEN 0 ELSE 1]
CMP(m) == Compare("A", M(m), m)
CPX(m) == Compare("X", XY(m), m)
CPY(m) == Compare("Y", XY(m), m)

\* The one with an immediate operand, BITI, has only Z.
BITI(m) == WithZ(M(m), Get("A", M(m), m) & m.data, m)
BIT(m) == [WithN(M(m), m.data, BITI(m)) EXCEPT !.fV = Bit(m.data, 8 * M(m) - 2)]

\* Stores; a is the state with the address.
StoreAt(v, n, a) == Write(n, a.addr, v, a)
StoreIndexed(v, n, mode, a) ==
  StoreAt(v, n, IF mode \in {"(dp),y", "abs,x", "abs,y"} THEN Cycles(1, a) ELSE a)
STA(mode, a) == StoreIndexed(a.A, M(a), mode, a)
STZ(mode, a) == StoreIndexed(0, M(a), mode, a)
STX(a) == StoreAt(a.X, XY(a), a)
STY(a) == StoreAt(a.Y, XY(a), a)

-----------------------------------------------------------------------------
\* What an instruction makes of m.data, in memory or in the accumulator.
Stepped(by, n, m) ==
  LET v == (m.data + by) % 256 ^ n IN WithNZ(n, v, [m EXCEPT !.data = v])
ShiftedLeft(in, n, m) ==
  LET v == 2 * m.data + in IN
  WithNZ(n, v, [m EXCEPT !.data = v % 256 ^ n, !.fC = v \div 256 ^ n])
ShiftedRight(in, n, m) ==
  LET v == (m.data + in * 256 ^ n) \div 2 IN
  WithNZ(n, v, [m EXCEPT !.data = v, !.fC = m.data % 2])
Tested(v, n, m) == [WithZ(n, Get("A", n, m) & m.data, m) EXCEPT !.data = v]

INC(m) == Stepped(1, M(m), m)
DEC(m) == Stepped(-1, M(m), m)
ASL(m) == ShiftedLeft(0, M(m), m)
ROL(m) == ShiftedLeft(m.fC, M(m), m)
LSR(m) == ShiftedRight(0, M(m), m)
ROR(m) == ShiftedRight(m.fC, M(m), m)
TSB(m) == Tested(m.data | Get("A", M(m), m), M(m), m)
TRB(m) == Tested(m.data - (m.data & Get("A", M(m), m)), M(m), m)

\* Where the result goes.
ToMemory(mode, r) ==
  Cycles(IF mode = "abs,x" THEN 2 ELSE 1, StoreAt(r.data, M(r), r))
ToAccumulator(r) == Cycles(1, Set("A", M(r), r.data, r))

-----------------------------------------------------------------------------
\* From register to register, with flags; TXY and TYX move both bytes at any width.
Move(from, to, n, s) == Cycles(1, WithNZ(n, s[from], Set(to, n, s[from], s)))
Exchange(from, to, s) == Cycles(1, WithNZ(XY(s), s[from], Set(to, 2, s[from], s)))
MoveToS(r, s) == Cycles(1, Set("S", IF s.E = 1 THEN 1 ELSE 2, s[r], s))
StepIndex(r, by, s) ==
  LET v == (Get(r, XY(s), s) + by) % 256 ^ XY(s) IN
  Cycles(1, WithNZ(XY(s), v, Set(r, XY(s), v, s)))
SetFlag(f, v, s) == Cycles(1, [s EXCEPT ![f] = v])
XBA(s) ==
  Cycles(2, WithNZ(1, s.A \div 256, [s EXCEPT !.A = (s.A % 256) * 256 + (s.A \div 256)]))
XCE(s) == Cycles(1, UpdateOpTable([s EXCEPT !.E = s.fC, !.fC = s.E]))

\* SEP and REP: in C it is the operand that makes the index registers short, in
\* assembly what it leaves in P.
WithFlags(m) ==
  [m EXCEPT !.fN = @ + (1 - @) * Bit(m.data, 7), !.fV = @ + (1 - @) * Bit(m.data, 6),
            !.fM = @ + (1 - @) * Bit(m.data, 5), !.fX = @ + (1 - @) * Bit(m.data, 4),
            !.fD = @ + (1 - @) * Bit(m.data, 3), !.fI = @ + (1 - @) * Bit(m.data, 2),
            !.fZ = @ + (1 - @) * Bit(m.data, 1), !.fC = @ + (1 - @) * Bit(m.data, 0)]
WithoutFlags(m) ==
  [m EXCEPT !.fN = @ * (1 - Bit(m.data, 7)), !.fV = @ * (1 - Bit(m.data, 6)),
            !.fM = @ * (1 - Bit(m.data, 5)), !.fX = @ * (1 - Bit(m.data, 4)),
            !.fD = @ * (1 - Bit(m.data, 3)), !.fI = @ * (1 - Bit(m.data, 2)),
            !.fZ = @ * (1 - Bit(m.data, 1)), !.fC = @ * (1 - Bit(m.data, 0))]
\* Faulty: in assembly the index registers keep their high bytes.
SEPKeeps(p) ==
  Cycles(1, UpdateOpTable(IF p.who = "C" /\ Bit(p.data, 4) = 1 THEN ShortIndex(p) ELSE p))
\* p is the state with the flags.
SEP(p) ==
  Cycles(1, UpdateOpTable(
    IF (IF p.who = "C" THEN Bit(p.data, 4) = 1 ELSE p.fX = 1) THEN ShortIndex(p) ELSE p))
REP(p) == Cycles(1, UpdateOpTable(p))

-----------------------------------------------------------------------------
\* The stack; p is a state with what was popped.
PushIt(n, v, s) == Cycles(1, Push(n, v, s))
PullInto(r, n, p) == Cycles(2, WithNZ(n, p.data, Set(r, n, p.data, p)))
Unpacked(p) == Unpack(p.data, p)
PLP(p) == Cycles(2, Unpacked(p))
PLB(p) == Cycles(2, WithNZ(1, p.data, [p EXCEPT !.DB = p.data * 65536]))
PEA(f) == Push(2, f.data, f)
PEI(p) == Push(2, p.addr, p)
PER(f) == PushIt(2, f.data + f.PC, f)

\* Branches, jumps and calls; f is the state with the operand or with the pointer that
\* is read from there.
BranchIf(taken, f) == IF taken THEN Cycles(1, Branch(f)) ELSE f
BRL(f) == Cycles(1, BranchLong(f))
\* The pointer of JMP (a,x) and JSR (a,x) is in the bank of the program.
Vectored(f) == Read(2, BankOf(f.PC) * 65536 + ((f.data + f.X) % 65536), f)
JMP(f) == SetPC16(f.data, f)
JMPL(f) == SetPC24(f.data, f)
JMPIndexed(f) == Cycles(1, JMP(f))
JSR(f) == Cycles(1, SetPC16(f.data, Push(2, f.PC - 1, f)))
JSL(f) == Cycles(1, SetPC24(f.data, Push(3, f.PC - 1, f)))
RTS(p) == Cycles(3, SetPC16(p.data + 1, p))
RTL(p) == Cycles(2, SetPC24(p.data + 1, p))
Resumed(p) == IF p.E = 1 THEN JMP(p) ELSE JMPL(p)
RTI(p) == Cycles(2, Resumed(Pop(IF p.E = 1 THEN 2 ELSE 3, Unpacked(p))))

\* BRK and COP: n bytes of the PC, behind the byte that follows the opcode.
\* Faulty: the PC of the byte itself.
TrapHere(n, vector, s) ==
  JMPL(Read(2, vector, [Push(1, Pack(s), Push(n, s.PC, s)) EXCEPT !.fD = 0, !.fI = 1]))
Trap(n, vector, s) ==
  JMPL(Read(2, vector, [Push(1, Pack(s), Push(n, s.PC + 1, s)) EXCEPT !.fD = 0, !.fI = 1]))
BRK(s) == IF s.E = 1 THEN Cycles(2, Trap(2, 65526, s)) ELSE Cycles(1, Trap(3, 65510, s))
COP(s) == Cycles(1, Trap(3, 65508, s))

\* MVN and MVP, a byte each time: the bank it goes to, which d has, and the one it comes
\* from.
MoveRead(b) == Read(1, b.data * 65536 + Get("X", XY(b), b), b)
MoveWrite(r) == Write(1, r.DB + Get("Y", XY(r), r), r.data, r)
MoveNext(by, w) ==
  [w EXCEPT !.X = (Get("X", XY(w), w) + by) % 256 ^ XY(w),
            !.Y = (Get("Y", XY(w), w) + by) % 256 ^ XY(w),
            !.PC = IF w.A # 0 THEN @ - 3 ELSE @, !.A = (@ - 1) % 65536]
BlockMove(by, d) ==
  Cycles(2, MoveNext(by, MoveWrite(MoveRead(Fetch(1, [d EXCEPT !.DB = d.data * 65536])))))

\* In C the rest of the time that there was is spent at once, which is not a cost of
\* the instruction.
WAI(s) ==
  Cycles(2, IF s.irq THEN [s EXCEPT !.wai = FALSE]
            ELSE [s EXCEPT !.wai = TRUE, !.PC = @ - 1])
\* WDM and STP: in C a short NOP, in assembly the end of the execution.
Unimplemented(s) == IF s.who = "C" THEN Cycles(1, s) ELSE [s EXCEPT !.PC = @ - 1]

-----------------------------------------------------------------------------
\* The opcodes, 16 in a row.
Mnemonics == <<
  <<"BRK","ORA","COP","ORA","TSB","ORA","ASL","ORA","PHP","ORA","ASL","PHD","TSB","ORA","ASL","ORA">>,
  <<"BPL","ORA","ORA","ORA","TRB","ORA","ASL","ORA","CLC","ORA","INC","TCS","TRB","ORA","ASL","ORA">>,
  <<"JSR","AND","JSL","AND","BIT","AND","ROL","AND","PLP","AND","ROL","PLD","BIT","AND","ROL","AND">>,
  <<"BMI","AND","AND","AND","BIT","AND","ROL","AND","SEC","AND","DEC","TSC","BIT","AND","ROL","AND">>,
  <<"RTI","EOR","WDM","EOR","MVP","EOR","LSR","EOR","PHA","EOR","LSR","PHK","JMP","EOR","LSR","EOR">>,
  <<"BVC","EOR","EOR","EOR","MVN","EOR","LSR","EOR","CLI","EOR","PHY","TCD","JML","EOR","LSR","EOR">>,
  <<"RTS","ADC","PER","ADC","STZ","ADC","ROR","ADC","PLA","ADC","ROR","RTL","JMP()","ADC","ROR","ADC">>,
  <<"BVS","ADC","ADC","ADC","STZ","ADC","ROR","ADC","SEI","ADC","PLY","TDC","JMP(,x)","ADC","ROR","ADC">>,
  <<"BRA","STA","BRL","STA","STY","STA","STX","STA","DEY","BIT","TXA","PHB","STY","STA","STX","STA">>,
  <<"BCC","STA","STA","STA","STY","STA","STX","STA","TYA","STA","TXS","TXY","STZ","STA","STZ","STA">>,
  <<"LDY","LDA","LDX","LDA","LDY","LDA","LDX","LDA","TAY","LDA","TAX","PLB","LDY","LDA","LDX","LDA">>,
  <<"BCS","LDA","LDA","LDA","LDY","LDA","LDX","LDA","CLV","LDA","TSX","TYX","LDY","LDA","LDX","LDA">>,
  <<"CPY","CMP","REP","CMP","CPY","CMP","DEC","CMP","INY","CMP","DEX","WAI","CPY","CMP","DEC","CMP">>,
  <<"BNE","CMP","CMP","CMP","PEI","CMP","DEC","CMP","CLD","CMP","PHX","STP","JML[]","CMP","DEC","CMP">>,
  <<"CPX","SBC","SEP","SBC","CPX","SBC","INC","SBC","INX","SBC","NOP","XBA","CPX","SBC","INC","SBC">>,
  <<"BEQ","SBC","SBC","SBC","PEA","SBC","INC","SBC","SED","SBC","PLX","XCE","JSR(,x)","SBC","INC","SBC">> >>
Mnemonic(op) == Mnemonics[(op \div 16) + 1][(op % 16) + 1]

\* The modes of the columns, in even and in odd rows, and the opcodes that have others.
EvenModes == <<"imm", "(dp,x)", "imm", "sr", "dp", "dp", "dp", "[dp]",
               "", "imm", "acc", "", "abs", "abs", "abs", "long">>
OddModes == <<"", "(dp),y", "(dp)", "(sr),y", "dp,x", "dp,x", "dp,x", "[dp],y",
              "", "abs,y", "acc", "", "abs,x", "abs,x", "abs,x", "long,x">>
OtherModes ==
  [name \in {"BRK", "COP", "RTI", "RTS", "WDM"} |-> ""]
  @@ [name \in {"BPL", "BMI", "BVC", "BVS", "BCC", "BCS", "BNE", "BEQ", "BRA"} |-> "rel"]
  @@ [name \in {"BRL", "PER"} |-> "rel16"] @@ [name \in {"SEP", "REP"} |-> "imm8"]
  @@ [name \in {"JSR", "JMP(,x)", "JSR(,x)", "JML[]", "PEA"} |-> "abs"]
  @@ [name \in {"JSL", "JML"} |-> "long"] @@ [name \in {"MVN", "MVP"} |-> "banks"]
  @@ ("PEI" :> "dp")
ModeOf(op) ==
  LET m == IF (op \div 16) % 2 = 0 THEN EvenModes[(op % 16) + 1] ELSE OddModes[(op % 16) + 1]
      name == Mnemonic(op)
  IN IF name \in DOMAIN OtherModes THEN OtherModes[name]
     ELSE IF name = "TRB" THEN (IF op % 16 = 4 THEN "dp" ELSE "abs")
     ELSE IF name \in {"STX", "LDX"} /\ m = "dp,x" THEN "dp,y"
     ELSE IF name = "LDX" /\ m = "abs,x" THEN "abs,y"
     ELSE IF op = 156 THEN "abs" ELSE m

\* What each opcode is of: which register goes where, which flag it sets to what, which
\* flag it branches on when it has which value.
Moved == ("TAX" :> <<"A", "X">>) @@ ("TAY" :> <<"A", "Y">>) @@ ("TXA" :> <<"X", "A">>)
         @@ ("TYA" :> <<"Y", "A">>) @@ ("TSX" :> <<"S", "X">>)
Moved16 == ("TCD" :> <<"A", "DP">>) @@ ("TDC" :> <<"DP", "A">>) @@ ("TSC" :> <<"S", "A">>)
FlagSet == ("CLC" :> <<"fC", 0>>) @@ ("SEC" :> <<"fC", 1>>) @@ ("CLI" :> <<"fI", 0>>)
           @@ ("SEI" :> <<"fI", 1>>) @@ ("CLD" :> <<"fD", 0>>) @@ ("SED" :> <<"fD", 1>>)
           @@ ("CLV" :> <<"fV", 0>>)
BranchOn == ("BPL" :> <<"fN", 0>>) @@ ("BMI" :> <<"fN", 1>>) @@ ("BNE" :> <<"fZ", 0>>)
            @@ ("BEQ" :> <<"fZ", 1>>) @@ ("BCC" :> <<"fC", 0>>) @@ ("BCS" :> <<"fC", 1>>)
            @@ ("BVC" :> <<"fV", 0>>) @@ ("BVS" :> <<"fV", 1>>)
IndexStep == ("INX" :> <<"X", 1>>) @@ ("INY" :> <<"Y", 1>>) @@ ("DEX" :> <<"X", -1>>)
             @@ ("DEY" :> <<"Y", -1>>)

Indexes == {"LDX", "LDY", "CPX", "CPY", "STX", "STY"}
Readers == {"ORA", "AND", "EOR", "ADC", "SBC", "LDA", "CMP", "BIT", "LDX", "LDY", "CPX", "CPY"}
Writers == {"STA", "STZ", "STX", "STY"}
Modifiers == {"ASL", "ROL", "LSR", "ROR", "INC", "DEC", "TSB", "TRB"}
Pushers == {"PHA", "PHX", "PHY", "PHP", "PHD", "PHB", "PHK"}
Pullers == {"PLA", "PLX", "PLY", "PLP", "PLD", "PLB"}
Returners == {"RTS", "RTL", "RTI"}
Jumpers == {"JMP", "JML", "JMP()", "JML[]", "JMP(,x)", "JSR", "JSL", "JSR(,x)", "BRL", "BRA"}

\* The bytes that follow an opcode; of MVN and MVP, those that come first.
OperandSize(name, mode, s) ==
  CASE mode \in {"", "acc"} -> 0
    [] mode = "imm" -> IF name \in Indexes THEN XY(s) ELSE M(s)
    [] mode \in {"abs", "abs,x", "abs,y", "rel16"} -> 2
    [] mode \in {"long", "long,x"} -> 3
    [] OTHER -> 1

Operated(name, mode, m) ==
  CASE name = "ORA" -> ORA(m) [] name = "AND" -> AND(m) [] name = "EOR" -> EOR(m)
    [] name = "ADC" -> ADC(m) [] name = "SBC" -> SBC(m) [] name = "CMP" -> CMP(m)
    [] name = "LDA" -> LDA(m) [] name = "LDX" -> LDX(m) [] name = "LDY" -> LDY(m)
    [] name = "CPX" -> CPX(m) [] name = "CPY" -> CPY(m)
    [] name = "BIT" -> IF mode = "imm" THEN BITI(m) ELSE BIT(m)
Stored(name, mode, a) ==
  CASE name = "STA" -> STA(mode, a) [] name = "STZ" -> STZ(mode, a)
    [] name = "STX" -> STX(a) [] name = "STY" -> STY(a)
Modified(name, m) ==
  CASE name = "ASL" -> ASL(m) [] name = "ROL" -> ROL(m) [] name = "LSR" -> LSR(m)
    [] name = "ROR" -> ROR(m) [] name = "INC" -> INC(m) [] name = "DEC" -> DEC(m)
    [] name = "TSB" -> TSB(m) [] name = "TRB" -> TRB(m)
Pushed(name, s) ==
  CASE name = "PHA" -> <<M(s), s.A>> [] name = "PHX" -> <<XY(s), s.X>>
    [] name = "PHY" -> <<XY(s), s.Y>> [] name = "PHP" -> <<1, Pack(s)>>
    [] name = "PHD" -> <<2, s.DP>> [] name = "PHB" -> <<1, BankOf(s.DB)>>
    [] name = "PHK" -> <<1, BankOf(s.PC)>>
PullSize(name, s) ==
  CASE name = "PLA" -> M(s) [] name \in {"PLX", "PLY"} -> XY(s)
    [] name \in {"PLP", "PLB", "RTI"} -> 1 [] name \in {"PLD", "RTS"} -> 2 [] name = "RTL" -> 3
Pulled(name, p) ==
  CASE name = "PLP" -> PLP(p) [] name = "PLB" -> PLB(p)
    [] name = "PLA" -> PullInto("A", M(p), p) [] name = "PLD" -> PullInto("DP", 2, p)
    [] name = "PLX" -> PullInto("X", XY(p), p) [] name = "PLY" -> PullInto("Y", XY(p), p)
Returned(name, p) ==
  CASE name = "RTS" -> RTS(p) [] name = "RTL" -> RTL(p) [] name = "RTI" -> RTI(p)
JumpPointer(name, f) ==
  CASE name = "JMP()" -> Read(2, f.data, f) [] name = "JML[]" -> Read(3, f.data, f)
    [] name \in {"JMP(,x)", "JSR(,x)"} -> Vectored(f) [] OTHER -> f
Jumped(name, f) ==
  CASE name \in {"JMP", "JMP()"} -> JMP(f) [] name \in {"JML", "JML[]"} -> JMPL(f)
    [] name = "JMP(,x)" -> JMPIndexed(f) [] name \in {"JSR", "JSR(,x)"} -> JSR(f)
    [] name = "JSL" -> JSL(f) [] name = "BRL" -> BRL(f) [] name = "BRA" -> BranchIf(TRUE, f)

\* The body of an opcode, which has been fetched, and so have the bytes that follow it.
Perform(name, mode, s) ==
  CASE name \in Readers ->
         Operated(name, mode, Source(mode, IF name \in Indexes THEN XY(s) ELSE M(s), s))
    [] name \in Writers -> Stored(name, mode, Address(mode, s))
    [] name \in Modifiers ->
         IF mode = "acc" THEN ToAccumulator(Modified(name, [s EXCEPT !.data = Get("A", M(s), s)]))
         ELSE ToMemory(mode, Modified(name, ReadAt(M(s), Address(mode, s))))
    [] name \in Pushers -> PushIt(Pushed(name, s)[1], Pushed(name, s)[2], s)
    [] name \in Pullers -> Pulled(name, Pop(PullSize(name, s), s))
    [] name \in Returners -> Returned(name, Pop(PullSize(name, s), s))
    [] name \in Jumpers -> Jumped(name, JumpPointer(name, s))
    [] name \in DOMAIN Moved ->
         Move(Moved[name][1], Moved[name][2], IF Moved[name][2] = "A" THEN M(s) ELSE XY(s), s)
    [] name \in DOMAIN Moved16 -> Move(Moved16[name][1], Moved16[name][2], 2, s)
    [] name \in DOMAIN FlagSet -> SetFlag(FlagSet[name][1], FlagSet[name][2], s)
    [] name \in DOMAIN BranchOn -> BranchIf(s[BranchOn[name][1]] = BranchOn[name][2], s)
    [] name \in DOMAIN IndexStep -> StepIndex(IndexStep[name][1], IndexStep[name][2], s)
    [] name = "TXY" -> Exchange("X", "Y", s)
    [] name = "TYX" -> Exchange("Y", "X", s)
    [] name = "TXS" -> MoveToS("X", s)
    [] name = "TCS" -> MoveToS("A", s)
    [] name = "MVN" -> BlockMove(1, s)
    [] name = "MVP" -> BlockMove(-1, s)
    [] name = "SEP" -> SEP(WithFlags(s))
    [] name = "REP" -> REP(WithoutFlags(s))
    [] name = "XBA" -> XBA(s)
    [] name = "XCE" -> XCE(s)
    [] name = "WAI" -> WAI(s)
    [] name = "NOP" -> Cycles(1, s)
    [] name \in {"WDM", "STP"} -> Unimplemented(s)
    [] name = "PEA" -> PEA(s)
    [] name = "PEI" -> PEI(Through(2, Direct(s)))
    [] name = "PER" -> PER(s)
    [] name = "BRK" -> BRK(s)
    [] name = "COP" -> COP(s)

\* One instruction, of these bytes at the PC.
AtOpcode(op, bytes, s) ==
  [s EXCEPT !.code = <<op>> \o bytes, !.at = s.PC, !.cyc = 0, !.torn = FALSE]
Finished(s) == [s EXCEPT !.code = << >>, !.at = 0, !.data = 0, !.addr = 0]
Step(op, bytes, s) ==
  Finished(Perform(Mnemonic(op), ModeOf(op),
    Fetch(OperandSize(Mnemonic(op), ModeOf(op), s), Fetch(1, AtOpcode(op, bytes, s)))))
=============================================================================
