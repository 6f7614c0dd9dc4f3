----------------------------- MODULE NetRunLength ---------------------------
(***************************************************************************)
(* The run-length coding of an input packet (netclient.c): the sender      *)
(* writes the elements of its output queue as pairs of a length and a      *)
(* value into the packet, the receiver writes the elements of each pair    *)
(* into a buffer on its stack.  One step is one round of a loop: of        *)
(* _NetClientCalcRunLength within _NetClientEncodeData and, on the other   *)
(* side, of _NetClientDecodeData.  An operator called Faulty is what the   *)
(* code must not do; nothing uses it.                                      *)
(***************************************************************************)
EXTENDS Integers, Sequences

CONSTANTS
  RunElement,      \* the inputs
  DATA_MAX,     \* elements a transmit takes from its queue (64)
  ENCODE_MAX,   \* words of EncodeData in a packet, nMaxEncode (128)
  DECODE_MAX    \* elements of the receiver's buffer (256)

\* A pair takes two words.
ASSUME NetRunLengthAssumption ==
  /\ DATA_MAX \in Nat /\ ENCODE_MAX \in Nat /\ DECODE_MAX \in Nat
  /\ 2 * DATA_MAX <= ENCODE_MAX
  /\ DATA_MAX <= DECODE_MAX

VARIABLES
  data,     \* the elements to be sent
  nData,    \* how many of them are not encoded yet
  nRun,     \* the length found so far of the run at hand
  encode,   \* the pairs of the packet
  nSent,    \* the pairs the packet's length tells of; -1: not sent yet
  nRead,    \* the pairs the receiver has read
  decode,   \* the elements it has written
  starts    \* history: where the run of each pair starts, and the next one

vars == <<data, nData, nRun, encode, nSent, nRead, decode, starts>>

Pair == [uLength : Nat \ {0}, uRunData : RunElement]

\* Where the part of data that is not encoded yet starts (pData).
Position == Len(data) - nData + 1

nEncode == 2 * Len(encode)

-----------------------------------------------------------------------------
\* Faulty: a run is held to go on whatever comes next.
RunGoesOnAlways == nRun < nData

\* The condition of the loop of _NetClientCalcRunLength.
RunGoesOn == nRun < nData /\ data[Position + nRun] = data[Position]

\* The first element of a run belongs to it, the others if they equal it.
CalcRunLength ==
  /\ nSent = -1
  /\ \/ nRun = 0 /\ nData > 0 /\ nEncode < ENCODE_MAX
     \/ nRun > 0 /\ RunGoesOn
  /\ nRun' = nRun + 1
  /\ UNCHANGED <<data, nData, encode, nSent, nRead, decode, starts>>

EncodeRun ==
  /\ nSent = -1
  /\ nRun > 0 /\ ~RunGoesOn
  /\ encode' = Append(encode, [uLength |-> nRun, uRunData |-> data[Position]])
  /\ nData' = nData - nRun
  /\ nRun' = 0
  /\ starts' = Append(starts, Position + nRun)
  /\ UNCHANGED <<data, nSent, nRead, decode>>

\* _NetClientPeerTransmit: the length of the packet is that of its pairs.
Send ==
  /\ nSent = -1 /\ nRun = 0
  /\ nData = 0 \/ nEncode >= ENCODE_MAX
  /\ nSent' = nEncode \div 2
  /\ UNCHANGED <<data, nData, nRun, encode, nRead, decode, starts>>

\* Faulty: once too often.
WrittenInclusive(pair) == [k \in 1 .. pair.uLength + 1 |-> pair.uRunData]

\* One pair is written out, uLength times.
Written(pair) == [k \in 1 .. pair.uLength |-> pair.uRunData]

DecodeRun ==
  /\ nRead < nSent
  /\ decode' = decode \o Written(encode[nRead + 1])
  /\ nRead' = nRead + 1
  /\ UNCHANGED <<data, nData, nRun, encode, nSent, starts>>

Init ==
  /\ data \in UNION { [1 .. n -> RunElement] : n \in 1 .. DATA_MAX }
  /\ nData = Len(data)
  /\ nRun = 0 /\ encode = << >>
  /\ nSent = -1 /\ nRead = 0 /\ decode = << >>
  /\ starts = <<1>>

Next == CalcRunLength \/ EncodeRun \/ Send \/ DecodeRun

Spec == Init /\ [][Next]_vars

-----------------------------------------------------------------------------
\* What the receiver has written is what was sent, as far as it goes, and all
\* of it once every pair is read: nothing is cut off or run together.
RoundTrip ==
  /\ \A j \in 1 .. Len(decode) : j <= Len(data) /\ decode[j] = data[j]
  /\ nRead = nSent => Len(decode) = Len(data)

\* Neither loop writes past its buffer, EncodeData or Elements: the second
\* never looks at how much it has written.
BuffersFit == nEncode <= ENCODE_MAX /\ Len(decode) <= DECODE_MAX

\* A packet carries its inputs, and nothing but them is written
\* (_NetClientEncodeData, _NetClientDecodeData).
EncodingIsExact == RoundTrip /\ BuffersFit

(***************************************************************************)
(* The invariant of the two loops.                                         *)
(***************************************************************************)
TypeOK ==
  /\ data \in Seq(RunElement) /\ Len(data) \in 1 .. DATA_MAX
  /\ nData \in 0 .. Len(data) /\ nRun \in 0 .. nData
  /\ encode \in Seq(Pair)
  /\ nSent \in -1 .. Len(encode)
  /\ nRead \in 0 .. Len(encode)
  /\ decode \in Seq(RunElement)
  /\ starts \in Seq(Nat \ {0}) /\ Len(starts) = Len(encode) + 1

\* The pairs are the runs of data up to the position reached.
EncodeInv ==
  /\ starts[1] = 1 /\ starts[Len(starts)] = Position
  /\ Len(encode) <= Len(data) - nData
  /\ \A k \in 1 .. Len(encode) :
       /\ starts[k + 1] = starts[k] + encode[k].uLength
       /\ starts[k + 1] <= Position
       /\ \A j \in starts[k] .. starts[k + 1] - 1 :
            data[j] = encode[k].uRunData
  /\ \A j \in Position .. Position + nRun - 1 : data[j] = data[Position]
  /\ nRun > 0 => nEncode < ENCODE_MAX
  /\ nSent # -1 => nSent = Len(encode) /\ nData = 0

\* What is decoded is what stands before the next pair to be read.
DecodeInv ==
  /\ nRead > 0 => nSent # -1
  /\ Len(decode) = starts[nRead + 1] - 1
  /\ \A j \in 1 .. Len(decode) : decode[j] = data[j]

LoopInv == TypeOK /\ EncodeInv /\ DecodeInv
=============================================================================
