------------------------------- MODULE SnesIO -------------------------------
(***************************************************************************)
(* The joypads of the emulated console (snio.cpp; snes.cpp: the registers  *)
(* 4016, 4017, 4200, 4201 and 4218 to 421F, and ExecuteFrame).  A frame    *)
(* begins with the input of five pads.  A program reads them bit by bit,   *)
(* after a strobe, or has them read into registers at the end of the       *)
(* picture.  A word is the set of its bits that are on: bit 15 is the      *)
(* button B, bits 4 to 14 are the others, and all bits, which no pad       *)
(* gives, mean that there is no pad.                                       *)
(***************************************************************************)
EXTENDS Integers

CONSTANTS
  SysInput,        \* what a frame may be given: a word for each of five pads
  MaxReads         \* bound: reads of a port since the strobe that are not automatic

Pad == 0 .. 4
Word == SUBSET (0 .. 15)
DISCONNECTED == 0 .. 15

ASSUME JoypadAssumption == SysInput \subseteq [Pad -> Word] /\ MaxReads \in Nat

VARIABLES
  padInput,        \* m_Input
  serial,          \* the serial port: of each pad the word the reads shift (joyserial),
                   \* and bit 0 of joydata, the strobe; history: the input at the last
                   \* strobe, and how often each word was shifted since
  wrioHigh,        \* bit 7 of wrio: the half of the multitap that is read
  autoRead,        \* bit 0 of nmitimen
  joy,             \* the registers joy1 to joy4
  inPicture,       \* m_uLine is one of the picture's
  lastAuto         \* history: the input of the last frame that ended with UpdateJoyPads,
                   \* and the half of the multitap
ioVars == <<padInput, serial, wrioHigh, autoRead, joy, inPicture, lastAuto>>

HasPad(p) == padInput[p] # DISCONNECTED

\* Reset clears everything, the input too, which then is that of five pads that are
\* there.
IOInit ==
  /\ padInput = [p \in Pad |-> {}]
  /\ serial = [word |-> [p \in Pad |-> {}], strobe |-> FALSE,
               latched |-> [p \in Pad |-> {}], shifted |-> [p \in Pad |-> 0]]
  /\ wrioHigh = FALSE /\ autoRead = FALSE
  /\ joy = [r \in 1 .. 4 |-> {}]
  /\ inPicture = FALSE
  /\ lastAuto = [input |-> [p \in Pad |-> {}], high |-> FALSE]

-----------------------------------------------------------------------------
\* The four bits below the buttons are off when a pad is latched.
Latch(word) == IF word = DISCONNECTED THEN {} ELSE word \cap (4 .. 15)

\* WriteSerial: the rising edge latches the pads.
WriteSerial(s, on) ==
  IF on /\ ~s.strobe
  THEN [word |-> [p \in Pad |-> Latch(padInput[p])], strobe |-> on,
        latched |-> padInput, shifted |-> [p \in Pad |-> 0]]
  ELSE [s EXCEPT !.strobe = on]

\* ShiftSerialPad, "n" times: ones follow the bits of a pad that is there.
ShiftWord(p, word, n) ==
  {b \in 0 .. 15 : b - n \in word \/ (b < n /\ HasPad(p))}

ShiftSerialPads(s, pads, n) ==
  [s EXCEPT
     !.word = [p \in Pad |-> IF p \in pads THEN ShiftWord(p, s.word[p], n) ELSE s.word[p]],
     !.shifted = [p \in Pad |-> IF p \in pads THEN s.shifted[p] + n ELSE s.shifted[p]]]

\* The pads behind the second port: a multitap is there if one of its pads is.
Multitap == \E p \in 2 .. 4 : HasPad(p)
Port(n) == IF n = 0 THEN {0} ELSE IF ~Multitap THEN {1} ELSE IF wrioHigh THEN {1, 2} ELSE {3, 4}

\* The pads that ReadSerial0 and ReadSerial1 read and shift: none while the strobe is on.
\* Faulty: the strobe is not looked at.
ReadAlways(s, n) == Port(n)
Read(s, n) == IF s.strobe THEN {} ELSE Port(n)

\* UpdateJoyPads: a strobe, whatever the program has left the port at, the registers,
\* and sixteen reads of both ports.
\* Faulty: the strobe rises without having fallen.
StrobedFromHere(s) == WriteSerial(WriteSerial(s, TRUE), FALSE)
Strobed(s) == WriteSerial(WriteSerial(WriteSerial(s, FALSE), TRUE), FALSE)

PadOfRegister(r, high) ==
  CASE r = 1 -> 0 [] r = 2 -> 1
    [] r = 3 -> (IF high THEN 1 ELSE 3) [] r = 4 -> (IF high THEN 2 ELSE 4)

UpdateJoyPads ==
  /\ joy' = [r \in 1 .. 4 |-> Strobed(serial).word[PadOfRegister(r, wrioHigh)]]
  /\ serial' = ShiftSerialPads(Strobed(serial), Port(0) \cup Port(1), 16)
  /\ lastAuto' = [input |-> padInput, high |-> wrioHigh]

-----------------------------------------------------------------------------
\* ExecuteFrame: the input is latched, the picture follows, and at its end the pads
\* are read if nmitimen says so.
BeginFrame(input) ==
  /\ ~inPicture /\ inPicture' = TRUE
  /\ padInput' = input
  /\ UNCHANGED <<serial, wrioHigh, autoRead, joy, lastAuto>>

EndPicture ==
  /\ inPicture /\ inPicture' = FALSE
  /\ IF autoRead THEN UpdateJoyPads ELSE UNCHANGED <<serial, joy, lastAuto>>
  /\ UNCHANGED <<padInput, wrioHigh, autoRead>>

\* The program, at any time: a read of 4016 or 4017, and writes to 4016, 4201 and 4200.
ReadPort(n) ==
  /\ \A p \in Read(serial, n) : serial.shifted[p] % 16 < MaxReads
  /\ serial' = ShiftSerialPads(serial, Read(serial, n), 1)
  /\ UNCHANGED <<padInput, wrioHigh, autoRead, joy, inPicture, lastAuto>>

WriteStrobe(on) ==
  /\ serial' = WriteSerial(serial, on)
  /\ UNCHANGED <<padInput, wrioHigh, autoRead, joy, inPicture, lastAuto>>

WriteWrio(high) ==
  /\ wrioHigh' = high
  /\ UNCHANGED <<padInput, serial, autoRead, joy, inPicture, lastAuto>>

WriteNmitimen(on) ==
  /\ autoRead' = on
  /\ UNCHANGED <<padInput, serial, wrioHigh, joy, inPicture, lastAuto>>

IONext ==
  \/ \E input \in SysInput : BeginFrame(input)
  \/ EndPicture
  \/ \E n \in {0, 1} : ReadPort(n)
  \/ \E on \in BOOLEAN : WriteStrobe(on) \/ WriteWrio(on) \/ WriteNmitimen(on)

IOSpec == IOInit /\ [][IONext]_ioVars

-----------------------------------------------------------------------------
IOTypeOK ==
  /\ padInput \in [Pad -> Word]
  /\ serial \in [word : [Pad -> Word], strobe : BOOLEAN, latched : [Pad -> Word],
                 shifted : [Pad -> Nat]]
  /\ wrioHigh \in BOOLEAN /\ autoRead \in BOOLEAN /\ inPicture \in BOOLEAN
  /\ joy \in [1 .. 4 -> Word]
  /\ lastAuto \in [input : [Pad -> Word], high : BOOLEAN]

\* What a program reads bit by bit is the pad at the last strobe, its own or an
\* automatic one, in the order of the bits and without a gap, whatever has been read,
\* written or plugged in since; while the strobe is on, the words stay at the button B
\* (ReadSerial0, ReadSerial1, WriteSerial).  A port with a multitap is read as 2 then,
\* whatever the words say, which is a conversion of the bit that is left out here.
SerialIsThePad ==
  \A p \in Pad :
    /\ serial.strobe => serial.shifted[p] = 0
    /\ \A b \in 0 .. 15 : b >= serial.shifted[p] =>
         (b \in serial.word[p] <=> b - serial.shifted[p] \in Latch(serial.latched[p]))

\* The registers show the pads of the frame in which they were read, in whatever
\* state the program had left the serial port (UpdateJoyPads).
JoyIsThePad ==
  \A r \in 1 .. 4 : joy[r] = Latch(lastAuto.input[PadOfRegister(r, lastAuto.high)])

\* The pads reach the program by two ways, which share a port and do not spoil each
\* other (ReadSerial0, ReadSerial1, UpdateJoyPads).
JoypadsAreRight == SerialIsThePad /\ JoyIsThePad
=============================================================================
