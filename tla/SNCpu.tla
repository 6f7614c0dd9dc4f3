-------------------------------- MODULE SNCpu ---------------------------------
(***************************************************************************)
(* The CPU executes a program twice, once with each interpreter, in step:  *)
(* the debugging mode of the main loop that runs a frame in C and in       *)
(* assembly and compares the states (mainloop.cpp, SNStateCompare).        *)
(* Between two instructions the execution may be left and entered again,   *)
(* and NMI and IRQ come there.  A program has any instruction at its PC.   *)
(***************************************************************************)
EXTENDS SN65816Ops

CONSTANTS
  CpuStrays,    \* what the programs do on which the code is known to differ:
                \* "index", "page0", "speed", "bank", "cop", "reserved"
  CPU_STEPS,    \* bound: instructions and interrupts, but for nested calls and returns
  CALL_DEPTH    \* bound: calls, pushes and interrupts that are nested

ASSUME CpuAssumption ==
  /\ CpuStrays \subseteq {"index", "page0", "speed", "bank", "cop", "reserved"}
  /\ CPU_STEPS \in Nat /\ CALL_DEPTH \in Nat

VARIABLES
  cpu,       \* the states of the two; << >>: there is no CPU
  calls,     \* what has not been taken back yet, and the states it was done in
  cpuSteps

cpuVars == <<cpu, calls, cpuSteps>>

-----------------------------------------------------------------------------
\* bound: what is in the registers at first.
CpuStart == {
  [A |-> 32767, X |-> 258, Y |-> 254, S |-> 480, DP |-> 0, DB |-> HIRAM, PC |-> 40958,
   fN |-> 0, fV |-> 1, fD |-> 0, fI |-> 1, fZ |-> 1, fC |-> 1, irq |-> FALSE, fast |-> 0],
  [A |-> 33024, X |-> 255, Y |-> 4224, S |-> 7808, DP |-> 272, DB |-> 0, PC |-> 8519672,
   fN |-> 1, fV |-> 0, fD |-> 1, fI |-> 0, fZ |-> 0, fC |-> 0, irq |-> TRUE, fast |-> 1]}
Blank(i) == [who |-> i, wai |-> FALSE, cyc |-> 0, torn |-> FALSE, ram |-> << >>, PB |-> 0,
             page |-> NO_PAGE, pcyc |-> 0, code |-> << >>, at |-> 0, data |-> 0, addr |-> 0]
\* In emulation mode a program is in bank 0.
Begin(i, v, e, m, x) ==
  LET s == v @@ Blank(i) @@ [E |-> e, fM |-> m, fX |-> x] IN
  Enter(IF e = 1 THEN [s EXCEPT !.PC = InBank(@)] ELSE s)

CpuInit ==
  /\ \E v \in CpuStart, e, m, x \in 0 .. 1 :
       /\ e = 1 => m = 1 /\ x = 1
       /\ cpu = [i \in Interpreter |-> Begin(i, v, e, m, x)]
  /\ calls = << >> /\ cpuSteps = 0

-----------------------------------------------------------------------------
\* bound: what follows the opcodes, and the instructions that come second.
OperandBytes ==
  {<<16, 0, 126>>, <<240, 5, 1>>, <<49, 146, 128>>, <<13, 66, 0>>}
FollowerBytes == {<<16, 0, 126>>, <<49, 146, 128>>}
Followers == {op \in 0 .. 255 : Mnemonic(op) \in {"XCE", "SEP", "JML", "INX"}}
             \cup {145}   \* STA (dp),y

\* What takes back what, and how far behind it the program is then.
Returner == ("JSR" :> "RTS") @@ ("JSR(,x)" :> "RTS") @@ ("JSL" :> "RTL")
            @@ ("BRK" :> "RTI") @@ ("COP" :> "RTI") @@ ("NMI" :> "RTI") @@ ("IRQ" :> "RTI")
            @@ ("PHA" :> "PLA") @@ ("PHX" :> "PLX") @@ ("PHY" :> "PLY") @@ ("PHP" :> "PLP")
            @@ ("PHD" :> "PLD") @@ ("PHB" :> "PLB")
Advance(name) ==
  CASE name \in {"JSR", "JSR(,x)"} -> 3 [] name = "JSL" -> 4 [] name \in {"BRK", "COP"} -> 2
    [] name \in {"NMI", "IRQ"} -> 0 [] OTHER -> 2

\* The stack is in RAM, and does not wrap.
StackIsRam(s) == IF s.E = 1 THEN s.S \in 264 .. 503 ELSE s.S \in 16 .. 8175
\* In emulation mode an interrupt does not push the bank, and its program is in bank 0.
BankIsKept(name, s) == s.E = 1 /\ name \in {"BRK", "NMI", "IRQ"} => BankOf(s.PC) = 0
FarJumpers == {"JML", "JML[]", "JSL", "RTL", "RTI", "BRK", "COP"}
\* From s to t: nothing on which the interpreters, or an interpreter that is left and
\* one that is not, are known to differ.
Agreed(op, s, t) ==
  LET name == Mnemonic(op) IN
  /\ name # "XCE" => StackIsRam(t)
  /\ BankIsKept(name, s)
  /\ name = "XCE" /\ s.fC = 1 /\ (s.X > 255 \/ s.Y > 255) => "index" \in CpuStrays
  /\ name \in {"TCD", "PLD"} /\ s.E = 1 /\ t.DP # 0 => "page0" \in CpuStrays
  /\ t.fast # s.fast /\ IsUpperRom(s.PC) => "speed" \in CpuStrays
  /\ InBank(s.PC) > 65532 \/ (BankOf(t.PC) # BankOf(s.PC) /\ name \notin FarJumpers)
       => "bank" \in CpuStrays
  /\ name = "COP" /\ s.E = 1 => "cop" \in CpuStrays
  /\ name \in {"WDM", "STP"} => "reserved" \in CpuStrays

Waiting == cpu["C"].wai
Results(op, bytes) == [i \in Interpreter |-> Step(op, bytes, cpu[i])]
BothExecute(op, result) ==
  /\ Waiting => Mnemonic(op) = "WAI"
  /\ \A i \in Interpreter : Agreed(op, cpu[i], result[i])
  /\ cpu' = result

\* Calls and pushes wait for what takes them back.
CpuExecutes ==
  /\ calls = << >> /\ cpuSteps < CPU_STEPS
  /\ cpuSteps' = cpuSteps + 1
  /\ \E op \in (IF cpuSteps = 0 THEN 0 .. 255 ELSE Followers) :
       /\ \E bytes \in (IF cpuSteps = 0 THEN OperandBytes ELSE FollowerBytes) :
            BothExecute(op, Results(op, bytes))
       /\ calls' = IF Mnemonic(op) \in DOMAIN Returner
                   THEN <<[name |-> Mnemonic(op), from |-> cpu]>> ELSE << >>

CpuReturns ==
  /\ calls # << >>
  /\ \E op \in {op \in 0 .. 255 : Mnemonic(op) = Returner[calls[Len(calls)].name]} :
       BothExecute(op, Results(op, <<16, 0, 126>>))
  /\ calls' = SubSeq(calls, 1, Len(calls) - 1)
  /\ UNCHANGED cpuSteps

\* SNCPUNMI, SNCPUIRQ: between two executions.
PushPC(n, s) == Push(n, s.PC, [s EXCEPT !.who = "C"])
PushState(s) ==
  IF s.E = 1 THEN Push(1, Pack(s) - 16 * s.fX, PushPC(2, s)) ELSE Push(1, Pack(s), PushPC(3, s))
Awake(s) == [s EXCEPT !.PC = IF s.wai THEN @ + 1 ELSE @, !.wai = FALSE]
Vector(name, e) ==
  CASE name = "NMI" -> IF e = 1 THEN 65530 ELSE 65514
    [] name = "IRQ" -> IF e = 1 THEN 65534 ELSE 65518
Interrupt(name, s) ==
  [PushState(Awake(s)) EXCEPT
     !.who = s.who, !.PC = BytesAt(s, Vector(name, s.E), 2), !.fD = 0,
     !.fI = IF name = "IRQ" THEN 1 ELSE @,
     !.cyc = 6 * SNCPU_CYCLE_SLOW + 2 * SNCPU_CYCLE_FAST, !.torn = FALSE]
CpuInterrupts(name, result) ==
  /\ name = "IRQ" => cpu["C"].irq /\ cpu["C"].fI = 0
  /\ cpuSteps < CPU_STEPS /\ Len(calls) < CALL_DEPTH
  /\ \A i \in Interpreter : StackIsRam(result[i]) /\ BankIsKept(name, cpu[i])
  /\ cpu' = result
  /\ calls' = Append(calls, [name |-> name, from |-> cpu])
  /\ cpuSteps' = cpuSteps + 1
CpuInterrupted(name) ==
  CpuInterrupts(name, [i \in Interpreter |-> Enter(Interrupt(name, Leave(cpu[i])))])

\* SNCPUExecuteOne, and every event for which the CPU is made to stop.
CpuIsCut ==
  /\ cpu' = [i \in Interpreter |-> Enter(Leave(cpu[i]))]
  /\ UNCHANGED <<calls, cpuSteps>>

\* SNCPUSignalIRQ: bound, while the CPU waits.
CpuIsSignalled ==
  /\ Waiting /\ ~cpu["C"].irq
  /\ cpu' = [i \in Interpreter |-> [cpu[i] EXCEPT !.irq = TRUE]]
  /\ UNCHANGED <<calls, cpuSteps>>

CpuNext ==
  \/ CpuExecutes \/ CpuReturns \/ CpuIsCut \/ CpuIsSignalled
  \/ \E name \in {"NMI", "IRQ"} : CpuInterrupted(name)

CpuSpec == CpuInit /\ [][CpuNext]_cpuVars

-----------------------------------------------------------------------------
Flags == {"fN", "fV", "fM", "fX", "fD", "fI", "fZ", "fC"}
Visible == {"A", "X", "Y", "S", "DP", "DB", "PC", "E", "wai", "irq", "ram", "fast"} \cup Flags

CpuTypeOK ==
  cpu # << >> => \A i \in Interpreter :
    LET s == cpu[i] IN
    /\ {s.A, s.X, s.Y, s.S, s.DP} \subseteq 0 .. 65535
    /\ s.DB % 65536 = 0 /\ BankOf(s.DB) \in 0 .. 255
    /\ s.PC \in 0 .. 2 ^ 24 - 1 /\ \A f \in Flags \cup {"E"} : s[f] \in 0 .. 1
    /\ s.E = 1 => s.fM = 1 /\ s.fX = 1 /\ s.S \div 256 = 1

\* The two interpreters agree: after the same instructions, interrupts and cuts, the
\* registers, the flags, what is in RAM and the cycles of the last instruction are the
\* same; but for the cycles of an access that crosses from memory of one speed into
\* another's, and of WAI when it waits.
InterpretersAgree ==
  cpu # << >> =>
    /\ \A f \in Visible : cpu["C"][f] = cpu["ASM"][f]
    /\ cpu["C"].torn \/ Waiting \/ cpu["C"].cyc = cpu["ASM"].cyc

\* It does not matter where the execution is cut: what an interpreter keeps in registers
\* of its own, and decides again when it is entered, is what the program can tell.
CutsAreInvisible ==
  cpu # << >> => \A i \in Interpreter, f \in Visible : Enter(Leave(cpu[i]))[f] = cpu[i][f]

\* What takes a call, a push or an interrupt back leaves the registers, the flags and the
\* stack as they were, and goes on behind it; but for the N and Z of what is pulled.
Restored(call, s, t) ==
  /\ t.PC = s.PC + (IF s.wai THEN 1 ELSE Advance(call))
  /\ \A f \in Visible \ {"PC", "wai", "irq", "ram", "fast"} :
       t[f] = s[f] \/ (f \in {"fN", "fZ"} /\ Returner[call] \in {"PLA", "PLX", "PLY", "PLD", "PLB"})
ReturnsBalance ==
  [][Len(calls') < Len(calls) =>
       \A i \in Interpreter :
         Restored(calls[Len(calls)].name, calls[Len(calls)].from[i], cpu'[i])]_cpuVars
=============================================================================
