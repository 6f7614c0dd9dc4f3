----------------------------- MODULE SNCpuAdder -----------------------------
(***************************************************************************)
(* ADC and SBC of the two interpreters of the 65816, the one in C          *)
(* (sncpu_c.c, SNCPUExecute_C) and the one in assembly (sn65816.S,         *)
(* SNCPUExecute_ASM): binary, and decimal digit by digit, with borrows     *)
(* that make an unsigned register wrap.                                    *)
(***************************************************************************)
EXTENDS Integers

CONSTANT UINT   \* bound: the range of a Uint32

ASSUME AdderAssumption == UINT \in Nat /\ UINT >= 16 ^ 5 /\ UINT % (16 ^ 5) = 0

Interpreter == {"C", "ASM"}

-----------------------------------------------------------------------------
Digit(x, i) == ((x \div 16 ^ i) % 16) * 16 ^ i
Masked(x, i) == x % (16 ^ (i + 1))
Complement(x, w) == 16 ^ w - 1 - x
Uint(x) == x % UINT
Sign(x, w) == (x \div (8 * 16 ^ (w - 1))) % 2

\* _SNCpuDecimalADC8 and 16, _SNCPU_ADC_DIGIT: d is the sum of the digits below i.
AddDigit(d, t, s, i) ==
  LET sum == d + Digit(t, i) + Digit(s, i) IN
  IF sum >= 10 * 16 ^ i THEN Masked(sum - 10 * 16 ^ i, i) + 16 ^ (i + 1) ELSE sum
DecimalAdd(c, t, s, w) ==
  LET d[i \in 0 .. w] == IF i = 0 THEN c ELSE AddDigit(d[i - 1], t, s, i - 1) IN d[w]

\* Faulty: the register is compared as a signed number.
SubDigitSigned(d, t, s, i) ==
  LET dif == Uint(d + Digit(t, i) - Digit(s, i)) IN
  IF dif < UINT \div 2 /\ dif >= 10 * 16 ^ i
  THEN Uint(Masked(dif + 10 * 16 ^ i, i) - 16 ^ (i + 1)) ELSE dif
\* _SNCpuDecimalSBC8 and 16, _SNCPU_SBC_DIGIT: a borrow wraps the register.
SubDigit(d, t, s, i) ==
  LET dif == Uint(d + Digit(t, i) - Digit(s, i)) IN
  IF dif >= 10 * 16 ^ i
  THEN Uint(Masked(dif + 10 * 16 ^ i, i) - 16 ^ (i + 1)) ELSE dif
InvertCarry(x, w) == IF (x \div 16 ^ w) % 2 = 1 THEN x - 16 ^ w ELSE x + 16 ^ w
DecimalSub(c, t, s, w) ==
  LET d[i \in 0 .. w] == IF i = 0 THEN Uint(c - 1) ELSE SubDigit(d[i - 1], t, s, i - 1)
  IN InvertCarry(d[w], w)

\* SBC gets the complement s of what is in memory.  The one in C complements it
\* back; the one in assembly complements the accumulator t instead, and swaps.
Decimal(who, op, c, t, s, w) ==
  IF op = "ADC" THEN DecimalAdd(c, t, s, w)
  ELSE IF who = "C" THEN DecimalSub(c, t, Complement(s, w), w)
  ELSE DecimalSub(c, s, Complement(t, w), w)

\* The opcodes.  i: the instruction, what is in the flag D, in the accumulator and in
\* the carry, the width in digits, and the operand in memory.  The result leaves its
\* width in the accumulator and the next bit in the carry; the overflow is that of
\* the binary sum.
AddResult(who, i) ==
  LET t == i.a
      w == i.w
      s == IF i.op = "SBC" THEN Complement(i.m, w) ELSE i.m
      sum == t + s + i.c
      dest == IF i.d THEN Decimal(who, i.op, i.c, t, s, w) ELSE sum
  IN [a |-> dest % (16 ^ w), c |-> (dest \div 16 ^ w) % 2,
      v |-> Sign(t, w) = Sign(s, w) /\ Sign(t, w) # Sign(sum, w)]

-----------------------------------------------------------------------------
(***************************************************************************)
(* Additions and subtractions of the two interpreters of the 65816, one    *)
(* after the other, of any operands.                                       *)
(***************************************************************************)

CONSTANTS ByteDigit, WordDigit   \* bound: the digits of 8-bit and of 16-bit operands

ASSUME DecimalAssumption == ByteDigit \subseteq 0 .. 15 /\ WordDigit \subseteq 0 .. 15

VARIABLES
  instr,   \* the instruction, what is in the flag D, in the accumulator and in
           \* the carry, the width in digits, and the operand in memory
  results  \* what each interpreter makes of it; NoResults: not executed yet

decimalVars == <<instr, results>>

NoResults == [i \in Interpreter |-> [a |-> 0, c |-> 0, v |-> FALSE, done |-> FALSE]]
Operand(width) ==
  IF width = 2 THEN {16 * h + l : h, l \in ByteDigit}
  ELSE {4096 * g + 256 * h + 16 * k + l : g, h, k, l \in WordDigit}

DecimalInit ==
  /\ \E op \in {"ADC", "SBC"}, d \in BOOLEAN, c \in 0 .. 1, w \in {2, 4} :
       \E a, m \in Operand(w) : instr = [op |-> op, d |-> d, c |-> c, w |-> w, a |-> a, m |-> m]
  /\ results = NoResults

-----------------------------------------------------------------------------
Result(who) ==
  LET r == AddResult(who, instr) IN [a |-> r.a, c |-> r.c, v |-> r.v, done |-> TRUE]

Execute ==
  /\ results = NoResults
  /\ results' = [i \in Interpreter |-> Result(i)]
  /\ UNCHANGED instr

\* The program goes on with the result, and takes back what it did.
Undo ==
  /\ results # NoResults
  /\ instr' = [instr EXCEPT !.op = IF @ = "ADC" THEN "SBC" ELSE "ADC",
                            !.c = 1 - @, !.a = results["ASM"].a]
  /\ results' = NoResults

DecimalNext == Execute \/ Undo

DecimalSpec == DecimalInit /\ [][DecimalNext]_decimalVars

-----------------------------------------------------------------------------
Base == IF instr.d THEN 10 ELSE 16
IsNumber(x) == \A i \in 0 .. instr.w - 1 : Digit(x, i) < Base * 16 ^ i
DigitValue(x, i) == (Digit(x, i) \div 16 ^ i) * Base ^ i
Number(x) ==
  LET n[i \in 0 .. instr.w] == IF i = 0 THEN 0 ELSE n[i - 1] + DigitValue(x, i - 1)
  IN n[instr.w]
Signed(x) == IF Sign(x, instr.w) = 1 THEN x - 16 ^ instr.w ELSE x

\* Sums and differences are exact: of numbers in the base that the flag D says, the
\* accumulator and the carry (for a difference: the borrow) have the sum (the
\* difference), and the overflow of a binary one says whether it has a sign of its
\* own; the interpreters agree, also on digits above 9 in decimal mode.
ArithmeticIsExact ==
  results # NoResults =>
    /\ results["C"] = results["ASM"]
    /\ LET r == results["C"]
           term == IF instr.op = "ADC" THEN 1 ELSE -1
           in == IF instr.op = "ADC" THEN instr.c ELSE 1 - instr.c
           out == IF instr.op = "ADC" THEN r.c ELSE 1 - r.c
       IN /\ IsNumber(instr.a) /\ IsNumber(instr.m) =>
               Number(r.a) + term * out * Base ^ instr.w
                 = Number(instr.a) + term * (Number(instr.m) + in)
          /\ ~instr.d =>
               r.v = (Signed(r.a) # Signed(instr.a) + term * (Signed(instr.m) + in))
=============================================================================
