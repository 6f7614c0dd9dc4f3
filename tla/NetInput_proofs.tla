-------------------------- MODULE NetInput_proofs ---------------------------
(***************************************************************************)
(* A client's inputs on their way: what the run-length coding of a packet  *)
(* makes of them, and what the loops over the ring do with one of several. *)
(***************************************************************************)
EXTENDS NetRunLength, NetQueueLoops, NetQueue_proofs, SequenceTheorems, TLAPS

LEMMA LoopInit == Init => LoopInv
<1> SUFFICES ASSUME Init PROVE LoopInv
  OBVIOUS
<1>1. PICK n \in 1 .. DATA_MAX : data \in [1 .. n -> RunElement]
  BY DEF Init
<1>2. data \in Seq(RunElement) /\ Len(data) = n /\ n \in 1 .. DATA_MAX
  BY <1>1, NetRunLengthAssumption
<1>3. TypeOK
  BY <1>2 DEF Init, TypeOK
<1>4. EncodeInv
  BY <1>2 DEF Init, EncodeInv, Position, nEncode
<1>5. DecodeInv
  BY <1>2 DEF Init, DecodeInv
<1> QED BY <1>3, <1>4, <1>5 DEF LoopInv

\* A round of _NetClientCalcRunLength.
LEMMA LengthenStep == LoopInv /\ CalcRunLength => LoopInv'
<1> SUFFICES ASSUME LoopInv, CalcRunLength PROVE LoopInv'
  OBVIOUS
<1> USE DEF LoopInv
<1>1. TypeOK'
  BY DEF TypeOK, CalcRunLength, RunGoesOn
<1>2. /\ data' = data /\ nData' = nData /\ encode' = encode /\ starts' = starts
      /\ nSent' = nSent /\ nRead' = nRead /\ decode' = decode
      /\ nRun' = nRun + 1 /\ Position' = Position /\ nEncode' = nEncode
  BY DEF CalcRunLength, Position, nEncode
<1>3. Position \in Nat /\ nRun \in Nat
  BY DEF TypeOK, Position
<1>4. ASSUME NEW j \in Position .. Position + nRun
      PROVE  data[j] = data[Position]
  <2>1. CASE j \in Position .. Position + nRun - 1
    BY <2>1 DEF EncodeInv
  <2>2. CASE j = Position + nRun
    BY <1>3, <2>2 DEF CalcRunLength, RunGoesOn
  <2> QED BY <1>3, <2>1, <2>2
<1>5. \A j \in Position' .. Position' + nRun' - 1 : data'[j] = data'[Position']
  BY <1>2, <1>3, <1>4
<1>6. nEncode < ENCODE_MAX
  BY <1>3 DEF CalcRunLength, EncodeInv
<1>7. EncodeInv'
  <2>1. /\ starts'[1] = 1 /\ starts'[Len(starts')] = Position'
        /\ Len(encode') <= Len(data') - nData'
    BY <1>2 DEF EncodeInv
  <2>2. \A k \in 1 .. Len(encode') :
          /\ starts'[k + 1] = starts'[k] + encode'[k].uLength
          /\ starts'[k + 1] <= Position'
          /\ \A j \in starts'[k] .. starts'[k + 1] - 1 :
               data'[j] = encode'[k].uRunData
    BY <1>2 DEF EncodeInv
  <2>3. nEncode' < ENCODE_MAX /\ nSent' = -1
    BY <1>2, <1>6 DEF CalcRunLength
  <2> QED BY <1>5, <2>1, <2>2, <2>3 DEF EncodeInv
<1>8. DecodeInv'
  BY <1>2 DEF DecodeInv
<1> QED BY <1>1, <1>7, <1>8

\* A round of _NetClientEncodeData: the run becomes a pair.
LEMMA EncodeStep == LoopInv /\ EncodeRun => LoopInv'
<1> SUFFICES ASSUME LoopInv, EncodeRun PROVE LoopInv'
  OBVIOUS
<1> USE DEF LoopInv
<1> DEFINE pair == [uLength |-> nRun, uRunData |-> data[Position]]
           n    == Len(encode)
<1>1. /\ data' = data /\ nSent' = nSent /\ nSent = -1 /\ nRead' = nRead
      /\ decode' = decode /\ nRun \in Nat \ {0} /\ nRun' = 0
      /\ nData' = nData - nRun
      /\ encode' = Append(encode, pair) /\ starts' = Append(starts, Position + nRun)
  BY DEF EncodeRun, TypeOK
<1>2. /\ Position \in 1 .. Len(data) /\ Position' = Position + nRun
      /\ nData \in Nat /\ nRun <= nData /\ Len(data) \in Nat
      /\ data[Position] \in RunElement
  BY <1>1 DEF TypeOK, Position
<1>3. pair \in Pair /\ n \in Nat /\ Len(starts) = n + 1
  BY <1>1, <1>2 DEF TypeOK, Pair
<1>4. /\ Len(encode') = n + 1 /\ Len(starts') = n + 2
      /\ encode'[n + 1] = pair /\ starts'[n + 2] = Position + nRun
      /\ \A k \in 1 .. n : encode'[k] = encode[k]
      /\ \A k \in 1 .. n + 1 : starts'[k] = starts[k]
  BY <1>1, <1>2, <1>3 DEF TypeOK
<1>5. TypeOK'
  BY <1>1, <1>2, <1>3, <1>4 DEF TypeOK
<1>6. /\ starts'[1] = 1 /\ starts'[Len(starts')] = Position'
      /\ Len(encode') <= Len(data') - nData'
  BY <1>1, <1>2, <1>3, <1>4 DEF EncodeInv
<1>7. ASSUME NEW k \in 1 .. n + 1
      PROVE  /\ starts'[k + 1] = starts'[k] + encode'[k].uLength
             /\ starts'[k + 1] <= Position'
             /\ \A j \in starts'[k] .. starts'[k + 1] - 1 :
                  data[j] = encode'[k].uRunData
  <2>1. CASE k \in 1 .. n
    <3>1. /\ starts'[k] = starts[k] /\ starts'[k + 1] = starts[k + 1]
          /\ encode'[k] = encode[k]
      BY <1>3, <1>4, <2>1
    <3>2. starts[k + 1] \in Nat
      BY <1>3, <2>1 DEF TypeOK
    <3>3. /\ starts[k + 1] = starts[k] + encode[k].uLength
          /\ starts[k + 1] <= Position
          /\ \A j \in starts[k] .. starts[k + 1] - 1 :
               data[j] = encode[k].uRunData
      BY <2>1 DEF EncodeInv
    <3>4. starts[k + 1] <= Position'
      BY <1>1, <1>2, <3>2, <3>3
    <3> QED BY <3>1, <3>3, <3>4
  <2>2. CASE k = n + 1
    <3>1. /\ starts'[k] = Position /\ starts'[k + 1] = Position + nRun
          /\ encode'[k] = pair
      BY <1>3, <1>4, <2>2 DEF EncodeInv
    <3>2. pair.uLength = nRun /\ pair.uRunData = data[Position]
      OBVIOUS
    <3>3. \A j \in Position .. Position + nRun - 1 : data[j] = data[Position]
      BY DEF EncodeInv
    <3>4. Position + nRun <= Position'
      BY <1>1, <1>2
    <3>5. starts'[k] + encode'[k].uLength = starts'[k + 1]
      BY <3>1, <3>2
    <3>6. \A j \in starts'[k] .. starts'[k + 1] - 1 :
            data[j] = encode'[k].uRunData
      <4>1. encode'[k].uRunData = data[Position]
        BY <3>1, <3>2
      <4>2. Position \in Nat /\ nRun \in Nat
        BY <1>1, <1>2
      <4>3. starts'[k + 1] - 1 = Position + nRun - 1
        BY ONLY <3>1, <4>2
      <4> TAKE j \in starts'[k] .. starts'[k + 1] - 1
      <4>4. j \in Position .. Position + nRun - 1
        BY <3>1, <4>3
      <4> QED BY <3>3, <4>1, <4>4
    <3> QED BY <3>1, <3>4, <3>5, <3>6
  <2> QED BY <1>3, <2>1, <2>2
<1>8. EncodeInv'
  <2>1. \A j \in Position' .. Position' + nRun' - 1 : data'[j] = data'[Position']
    BY <1>1, <1>2
  <2>2. ~(nRun' > 0) /\ nSent' = -1
    BY <1>1
  <2> QED BY <1>1, <1>4, <1>6, <1>7, <2>1, <2>2 DEF EncodeInv
<1>9. DecodeInv'
  <2>1. starts'[nRead + 1] = starts[nRead + 1]
    BY <1>3, <1>4 DEF TypeOK
  <2> QED BY <1>1, <2>1 DEF DecodeInv
<1> QED BY <1>5, <1>8, <1>9

\* The limit on the words never ends the loop before the data does.
LEMMA SendStep == LoopInv /\ Send => LoopInv'
<1> SUFFICES ASSUME LoopInv, Send PROVE LoopInv'
  OBVIOUS
<1> USE DEF LoopInv
<1>1. /\ data' = data /\ nData' = nData /\ nRun' = nRun /\ encode' = encode
      /\ nRead' = nRead /\ decode' = decode /\ starts' = starts
      /\ nSent = -1
      /\ Position' = Position /\ nEncode' = nEncode
  BY DEF Send, Position, nEncode
<1>2. nSent' = Len(encode)
  BY DEF Send, nEncode, TypeOK
<1>3. nData = 0
  <2>1. CASE nEncode >= ENCODE_MAX
    <3>1. /\ Len(encode) <= Len(data) - nData /\ nData \in Nat
          /\ Len(encode) \in Nat /\ Len(data) \in Nat /\ Len(data) <= DATA_MAX
          /\ 2 * Len(encode) >= ENCODE_MAX
      BY <2>1 DEF TypeOK, EncodeInv, nEncode
    <3> QED BY <3>1, NetRunLengthAssumption
  <2> QED BY <2>1 DEF Send
<1>4. TypeOK'
  BY <1>1, <1>2 DEF TypeOK
<1>5. EncodeInv'
  BY <1>1, <1>2, <1>3 DEF EncodeInv
<1>6. DecodeInv'
  BY <1>1, <1>2 DEF DecodeInv, TypeOK
<1> QED BY <1>4, <1>5, <1>6

\* A round of _NetClientDecodeData: a pair becomes its run again.
LEMMA DecodeStep == LoopInv /\ DecodeRun => LoopInv'
<1> SUFFICES ASSUME LoopInv, DecodeRun PROVE LoopInv'
  OBVIOUS
<1> USE DEF LoopInv
<1> DEFINE k    == nRead + 1
           pair == encode[k]
<1>1. /\ data' = data /\ nData' = nData /\ nRun' = nRun /\ encode' = encode
      /\ nSent' = nSent /\ starts' = starts /\ nRead' = k
      /\ Position' = Position /\ nEncode' = nEncode
      /\ decode' = decode \o Written(pair)
  BY DEF DecodeRun, Position, nEncode
<1>2. k \in 1 .. Len(encode) /\ nSent # -1 /\ nRead \in Nat
  BY DEF DecodeRun, TypeOK
<1>3. pair \in Pair /\ starts[k] \in Nat /\ starts[k + 1] \in Nat
  BY <1>2 DEF TypeOK
<1>4. pair.uLength \in Nat /\ pair.uRunData \in RunElement
  BY <1>3 DEF Pair
<1>5. /\ Written(pair) \in Seq(RunElement) /\ Len(Written(pair)) = pair.uLength
      /\ \A i \in 1 .. pair.uLength : Written(pair)[i] = pair.uRunData
  BY <1>4 DEF Written
<1>6. /\ Len(decode) \in Nat /\ decode \in Seq(RunElement)
      /\ Len(decode) = starts[k] - 1
      /\ starts[k + 1] = starts[k] + pair.uLength
  BY <1>2 DEF TypeOK, DecodeInv, EncodeInv
<1>7. decode' \in Seq(RunElement) /\ Len(decode') = starts[k + 1] - 1
  BY <1>1, <1>3, <1>4, <1>5, <1>6
<1>8. ASSUME NEW j \in 1 .. Len(decode')
      PROVE  decode'[j] = data[j]
  <2>1. CASE j <= Len(decode)
    BY <1>1, <1>5, <1>6, <2>1 DEF DecodeInv
  <2>2. CASE j > Len(decode)
    <3>1. j - Len(decode) \in 1 .. pair.uLength
      BY <1>3, <1>4, <1>6, <1>7, <2>2
    <3>2. decode'[j] = Written(pair)[j - Len(decode)]
      BY <1>1, <1>5, <1>6, <1>7, <2>2
    <3>3. j \in starts[k] .. starts[k + 1] - 1
      BY <1>3, <1>6, <1>7, <2>2
    <3>4. data[j] = pair.uRunData
      BY <1>2, <3>3 DEF EncodeInv
    <3> QED BY <1>5, <3>1, <3>2, <3>4
  <2> QED BY <1>6, <1>7, <2>1, <2>2
<1>9. TypeOK'
  BY <1>1, <1>2, <1>7 DEF TypeOK
<1>10. EncodeInv'
  BY <1>1 DEF EncodeInv
<1>11. DecodeInv'
  BY <1>1, <1>2, <1>7, <1>8 DEF DecodeInv
<1> QED BY <1>9, <1>10, <1>11

LEMMA LoopStep == LoopInv /\ [Next]_vars => LoopInv'
<1> SUFFICES ASSUME LoopInv, [Next]_vars PROVE LoopInv'
  OBVIOUS
<1>1. CASE UNCHANGED vars
  BY <1>1 DEF vars, LoopInv, TypeOK, EncodeInv, DecodeInv, Position, nEncode
<1> QED BY <1>1, LengthenStep, EncodeStep, SendStep, DecodeStep DEF Next

\* What is decoded never passes the position the encoder has reached.
LEMMA LoopInvImplies == LoopInv => RoundTrip /\ BuffersFit
<1> SUFFICES ASSUME LoopInv PROVE RoundTrip /\ BuffersFit
  OBVIOUS
<1> USE DEF LoopInv
<1>1. /\ nRead \in Nat /\ nRead <= Len(encode) /\ Len(encode) \in Nat
      /\ Len(starts) = Len(encode) + 1 /\ nData \in Nat /\ Len(data) \in Nat
      /\ Len(data) <= DATA_MAX /\ Len(decode) \in Nat
      /\ starts[nRead + 1] \in Nat /\ Position = Len(data) - nData + 1
  BY DEF TypeOK, Position
<1>2. starts[nRead + 1] <= Position
  <2>1. CASE nRead = 0
    BY <1>1, <2>1 DEF EncodeInv, TypeOK
  <2>2. CASE nRead > 0
    BY <1>1, <2>2 DEF EncodeInv
  <2> QED BY <1>1, <2>1, <2>2
<1>3. Len(decode) <= Len(data)
  BY <1>1, <1>2 DEF DecodeInv
<1>4. ASSUME nRead = nSent PROVE Len(decode) = Len(data)
  <2>1. nSent = Len(encode) /\ nData = 0
    BY <1>1, <1>4 DEF EncodeInv
  <2>2. starts[nRead + 1] = Position
    BY <1>1, <1>4, <2>1 DEF EncodeInv
  <2> QED BY <1>1, <2>1, <2>2 DEF DecodeInv
<1>5. RoundTrip
  BY <1>1, <1>3, <1>4 DEF RoundTrip, DecodeInv
<1>6. Len(encode) <= DATA_MAX
  <2>1. Len(encode) <= Len(data) - nData
    BY DEF EncodeInv
  <2> QED BY <1>1, <2>1, NetRunLengthAssumption
<1>7. BuffersFit
  BY <1>1, <1>3, <1>6, NetRunLengthAssumption DEF BuffersFit, nEncode
<1> QED BY <1>5, <1>7

\* Whatever inputs a packet carries, the receiver decodes those and no
\* others (_NetClientEncodeData, _NetClientDecodeData).
\* A transmit of at most DATA_MAX inputs fits the packet and the buffer of its
\* receiver, though only the encoder looks at a limit.
THEOREM EncodingIsExactHolds == Spec => []EncodingIsExact
<1>1. Spec => []LoopInv
  BY LoopInit, LoopStep, PTL DEF Spec
<1> QED BY <1>1, LoopInvImplies, PTL DEF EncodingIsExact

-----------------------------------------------------------------------------
\* The loops over the ring.

\* Appending one more element that fits the ring writes its slot and no other.
LEMMA ExtendOneMore ==
  ASSUME NEW r \in Queue, NEW payload \in Seq(Element), NEW e \in Element,
         Len(payload) < NETQUEUE_SIZE
  PROVE  Extend(r, Append(payload, e)) =
           [Extend(r, payload) EXCEPT !.Elements[Slot(r.uTail + Len(payload))] = e, !.uTail = @ + 1]
<1> DEFINE n == Len(payload)
           more == Append(payload, e)
           at(s) == { i \in 1 .. n : Slot(r.uTail + i - 1) = s }
           atMore(s) == { i \in 1 .. n + 1 : Slot(r.uTail + i - 1) = s }
           old == [s \in SlotIndex |-> IF at(s) = {} THEN r.Elements[s]
                                       ELSE payload[CHOOSE i \in at(s) : TRUE]]
           new == [s \in SlotIndex |-> IF atMore(s) = {} THEN r.Elements[s]
                                       ELSE more[CHOOSE i \in atMore(s) : TRUE]]
           last == Slot(r.uTail + n)
<1>1. /\ r.uTail \in Nat /\ n \in Nat /\ n < NETQUEUE_SIZE /\ NETQUEUE_SIZE \in Nat
      /\ Len(more) = n + 1 /\ more[n + 1] = e
      /\ \A i \in 1 .. n : more[i] = payload[i]
  BY NetQueueAssumption DEF Queue
<1>2. Extend(r, payload) = [uHead |-> r.uHead, uTail |-> r.uTail + n, Elements |-> old]
  BY DEF Extend
<1>3. Extend(r, more) = [uHead |-> r.uHead, uTail |-> r.uTail + (n + 1), Elements |-> new]
  BY <1>1 DEF Extend
<1>4. last \in SlotIndex /\ r.uTail + n = r.uTail + (n + 1) - 1
  BY <1>1, SlotType
<1>5. \A i \in 1 .. n : Slot(r.uTail + i - 1) # last
  <2> SUFFICES ASSUME NEW i \in 1 .. n PROVE Slot(r.uTail + i - 1) # last
    OBVIOUS
  <2>1. r.uTail + i - 1 \in Nat /\ r.uTail + n \in Nat /\ r.uTail + i - 1 < r.uTail + n
        /\ r.uTail + n < (r.uTail + i - 1) + NETQUEUE_SIZE
    BY <1>1
  <2> QED BY <2>1, SlotDistinct
<1> HIDE DEF n, more
<1>6. atMore(last) = {n + 1}
  <2>1. n + 1 \in 1 .. n + 1 /\ Slot(r.uTail + (n + 1) - 1) = last
    BY <1>1, <1>4
  <2>2. \A i \in 1 .. n + 1 : i = n + 1 \/ i \in 1 .. n
    BY <1>1
  <2> QED BY <1>5, <2>1, <2>2
<1>7. ASSUME NEW s \in SlotIndex, s # last
      PROVE  atMore(s) = at(s)
  <2>1. \A i \in 1 .. n + 1 : i = n + 1 \/ i \in 1 .. n
    BY <1>1
  <2>2. \A i \in 1 .. n : i \in 1 .. n + 1
    BY <1>1
  <2>3. Slot(r.uTail + (n + 1) - 1) # s
    BY <1>4, <1>7
  <2> QED BY <2>1, <2>2, <2>3
<1>8. new[last] = e
  <2>1. (CHOOSE i \in atMore(last) : TRUE) = n + 1 /\ atMore(last) # {}
    BY <1>6
  <2> QED BY <1>1, <1>4, <2>1
<1>9. ASSUME NEW s \in SlotIndex, s # last
      PROVE  new[s] = old[s]
  <2>1. CASE at(s) = {}
    BY <1>7, <1>9, <2>1
  <2>2. CASE at(s) # {}
    <3>1. (CHOOSE i \in at(s) : TRUE) \in 1 .. n
      BY <2>2
    <3>2. more[CHOOSE i \in at(s) : TRUE] = payload[CHOOSE i \in at(s) : TRUE]
      BY <1>1, <3>1
    <3> HIDE DEF at, atMore
    <3> QED BY <1>7, <1>9, <2>2, <3>2
  <2> QED BY <2>1, <2>2
<1>10. new = [old EXCEPT ![last] = e]
  <2>1. DOMAIN old = SlotIndex /\ DOMAIN new = SlotIndex
    OBVIOUS
  <2>2. new = [s \in SlotIndex |-> new[s]] /\ old = [s \in SlotIndex |-> old[s]]
    OBVIOUS
  <2> HIDE DEF new, old, last
  <2> QED BY <1>4, <1>8, <1>9, <2>1, <2>2
<1> HIDE DEF old, new, last
<1>11. [Extend(r, payload) EXCEPT !.Elements[last] = e, !.uTail = @ + 1]
         = [uHead |-> r.uHead, uTail |-> (r.uTail + n) + 1, Elements |-> [old EXCEPT ![last] = e]]
  <2> DEFINE grown == Extend(r, payload)
             t == r.uTail + n
  <2>1. grown = [uHead |-> r.uHead, uTail |-> t, Elements |-> old]
    BY <1>2
  <2> HIDE DEF grown, t
  <2>2. PICK m : m = [grown EXCEPT !.Elements[last] = e]
    OBVIOUS
  <2>3. m = [uHead |-> r.uHead, uTail |-> t, Elements |-> [old EXCEPT ![last] = e]]
    BY <2>1, <2>2
  <2>4. [m EXCEPT !.uTail = @ + 1]
          = [uHead |-> r.uHead, uTail |-> t + 1, Elements |-> [old EXCEPT ![last] = e]]
    BY <2>3
  <2>5. [grown EXCEPT !.Elements[last] = e, !.uTail = @ + 1] = [m EXCEPT !.uTail = @ + 1]
    <3>1. m.uTail = grown.uTail
      BY <2>1, <2>3
    <3> QED BY <2>2, <3>1, Zenon
  <2>6. [grown EXCEPT !.Elements[last] = e, !.uTail = @ + 1]
          = [uHead |-> r.uHead, uTail |-> t + 1, Elements |-> [old EXCEPT ![last] = e]]
    BY <2>4, <2>5, Zenon
  <2> QED BY <2>6, Zenon DEF grown, t
<1>12. (r.uTail + n) + 1 = r.uTail + (n + 1)
  BY <1>1
<1> QED BY <1>3, <1>10, <1>11, <1>12 DEF n, more, last

LEMMA ExtendByNothing == ASSUME NEW r \in Queue PROVE Extend(r, << >>) = r
<1> DEFINE at(s) == { i \in 1 .. Len(<< >>) : Slot(r.uTail + i - 1) = s }
           same == [ s \in SlotIndex |-> IF at(s) = {} THEN r.Elements[s]
                                         ELSE << >>[CHOOSE i \in at(s) : TRUE] ]
<1>1. \A s : at(s) = {}
  OBVIOUS
<1>2. same = r.Elements
  BY <1>1 DEF Queue
<1>3. r.uTail + Len(<< >>) = r.uTail
  BY DEF Queue
<1>4. Extend(r, << >>) = [uHead |-> r.uHead, uTail |-> r.uTail + Len(<< >>), Elements |-> same]
  BY DEF Extend
<1> HIDE DEF same
<1> QED BY <1>2, <1>3, <1>4 DEF Queue

\* Where k elements from position s reach, in a queue that ends at t and has
\* room for some more.
Reaches(s, k, t, n, room, fresh) ==
  /\ fresh \in Int /\ s + (k + 1) - t = fresh + 1 /\ t - s + (fresh + 1) = k + 1
  /\ s > t \/ s + k < t =>
       /\ ~(s <= t /\ Lesser(fresh, room) > 0) /\ ~(s <= t /\ Lesser(fresh + 1, room) > 0)
       /\ s + k # t
  /\ s <= t /\ s + k >= t /\ room <= 0 =>
       ~(Lesser(fresh, room) > 0) /\ ~(Lesser(fresh + 1, room) > 0)
  /\ s <= t /\ s + k >= t /\ room > 0 /\ fresh >= room =>
       /\ Lesser(fresh, room) = room /\ Lesser(fresh + 1, room) = room /\ room \in Nat
       /\ \A i \in 1 .. room : t - s + i \in 1 .. k
  /\ s <= t /\ s + k >= t /\ fresh < room =>
       /\ Lesser(fresh, room) = fresh /\ Lesser(fresh + 1, room) = fresh + 1
       /\ fresh \in Nat /\ fresh < n /\ fresh + 1 > 0
       /\ \A i \in 1 .. fresh : t - s + i \in 1 .. k

LEMMA Reach ==
  ASSUME NEW s \in Nat, NEW k \in Nat, NEW t \in Nat, NEW n \in Nat, NEW room \in Int,
         room <= n, NEW fresh, fresh = s + k - t
  PROVE  Reaches(s, k, t, n, room, fresh)
<1>1. fresh \in Int
  OBVIOUS
<1>2. \A a, b \in Int : Lesser(a, b) = IF a < b THEN a ELSE b
  BY DEF Lesser
<1> QED BY <1>1, <1>2 DEF Reaches

\* EnqueueFrom of one more element is one more call of NetQueueEnqueueAt.
LEMMA EnqueueOneMore ==
  ASSUME NEW r \in Queue, r.uHead <= r.uTail, NEW s \in Nat,
         NEW d \in Seq(Element), NEW e \in Element
  PROVE  EnqueueFrom(r, s, Append(d, e))
           = NetQueueEnqueueAt(EnqueueFrom(r, s, d), s + Len(d), e)
<1> DEFINE k == Len(d)
           more == Append(d, e)
           room == NETQUEUE_SIZE - NetQueueGetCount(r)
           fresh == s + k - r.uTail
           F(m) == [i \in 1 .. m |-> d[r.uTail - s + i]]
           G(m) == [i \in 1 .. m |-> more[r.uTail - s + i]]
           before == EnqueueFrom(r, s, d)
           after == EnqueueFrom(r, s, more)
<1>1. /\ r.uHead \in Nat /\ r.uTail \in Nat /\ k \in Nat /\ NETQUEUE_SIZE \in Nat
      /\ room = NETQUEUE_SIZE - (r.uTail - r.uHead) /\ room \in Int /\ fresh \in Int
      /\ Len(more) = k + 1 /\ more[k + 1] = e /\ \A i \in 1 .. k : more[i] = d[i]
      /\ room <= NETQUEUE_SIZE
  BY NetQueueAssumption DEF Queue, NetQueueGetCount
<1>10. /\ r.uTail \in Nat /\ k \in Nat /\ NETQUEUE_SIZE \in Nat /\ Len(more) = k + 1
      /\ room \in Int /\ room <= NETQUEUE_SIZE
  BY <1>1
<1>9. Reaches(s, k, r.uTail, NETQUEUE_SIZE, room, fresh)
  <2>1. fresh = s + k - r.uTail
    OBVIOUS
  <2> HIDE DEF k, more, fresh, room
  <2> QED BY <1>10, <2>1, Reach
<1>2. before = IF s <= r.uTail /\ Lesser(fresh, room) > 0
                 THEN Extend(r, F(Lesser(fresh, room))) ELSE r
  BY DEF EnqueueFrom
<1>3. after = IF s <= r.uTail /\ Lesser(fresh + 1, room) > 0
                THEN Extend(r, G(Lesser(fresh + 1, room))) ELSE r
  <2>1. s + Len(more) - r.uTail = fresh + 1
    <3> HIDE DEF k, more, fresh, room
    <3> QED BY <1>10, <1>9 DEF Reaches
  <2> HIDE DEF fresh, more, room
  <2> QED BY <2>1 DEF EnqueueFrom, room
<1>4. CASE s > r.uTail \/ s + k < r.uTail
  <2>1. ~(s <= r.uTail /\ Lesser(fresh, room) > 0) /\ ~(s <= r.uTail /\ Lesser(fresh + 1, room) > 0)
        /\ s + k # r.uTail
    <3> HIDE DEF k, more, fresh, room
    <3> QED BY <1>4, <1>9 DEF Reaches
  <2> QED BY <1>2, <1>3, <2>1 DEF NetQueueEnqueueAt
<1>5. CASE s <= r.uTail /\ s + k >= r.uTail /\ room <= 0
  <2>1. ~(Lesser(fresh, room) > 0) /\ ~(Lesser(fresh + 1, room) > 0)
        /\ ~(NetQueueGetCount(r) < NETQUEUE_SIZE)
    <3>1. ~(NetQueueGetCount(r) < NETQUEUE_SIZE)
      <4>1. NetQueueGetCount(r) = r.uTail - r.uHead
        BY <1>1 DEF NetQueueGetCount
      <4>2. \A n, m \in Int : n - m <= 0 => ~(m < n)
        OBVIOUS
      <4> HIDE DEF k, more, fresh
      <4> QED BY <1>1, <1>5, <4>1, <4>2
    <3> HIDE DEF k, more, fresh, room
    <3> QED BY <1>5, <1>9, <3>1 DEF Reaches
  <2> QED BY <1>2, <1>3, <2>1 DEF NetQueueEnqueueAt, NetQueueEnqueue
<1>6. CASE s <= r.uTail /\ s + k >= r.uTail /\ room > 0 /\ fresh >= room
  <2>1. Lesser(fresh, room) = room /\ Lesser(fresh + 1, room) = room /\ room \in Nat
    <3> HIDE DEF k, more, fresh, room
    <3> QED BY <1>6, <1>9 DEF Reaches
  <2>2. ASSUME NEW i \in 1 .. room
        PROVE  d[r.uTail - s + i] = more[r.uTail - s + i] /\ d[r.uTail - s + i] \in Element
    <3>1. r.uTail - s + i \in 1 .. k
      <4> HIDE DEF k, more, fresh, room
      <4> QED BY <1>6, <1>9 DEF Reaches
    <3> QED BY <1>1, <3>1
  <2>3. F(room) = G(room)
    BY <2>2
  <2>4. F(room) \in Seq(Element) /\ Len(F(room)) = room
    <3> HIDE DEF room
    <3> QED BY <2>1, <2>2
  <2>5. before = Extend(r, F(room)) /\ after = before
    <3> HIDE DEF F, G, room, fresh, before, after
    <3> QED BY <1>2, <1>3, <1>6, <2>1, <2>3
  <2> HIDE DEF before, after, F, G
  <2>6. before.uHead = r.uHead /\ before.uTail = r.uTail + room
    BY <2>4, <2>5, ExtendType
  <2>7. ~(NetQueueGetCount(before) < NETQUEUE_SIZE)
    BY <1>1, <2>6 DEF NetQueueGetCount
  <2> QED BY <2>5, <2>7 DEF NetQueueEnqueueAt, NetQueueEnqueue, before, after
<1>7. CASE s <= r.uTail /\ s + k >= r.uTail /\ fresh < room
  <2>1. Lesser(fresh, room) = fresh /\ Lesser(fresh + 1, room) = fresh + 1 /\ fresh \in Nat
        /\ fresh < NETQUEUE_SIZE /\ fresh + 1 > 0
    <3> HIDE DEF k, more, fresh, room
    <3> QED BY <1>7, <1>9 DEF Reaches
  <2>2. ASSUME NEW i \in 1 .. fresh
        PROVE  d[r.uTail - s + i] = more[r.uTail - s + i] /\ d[r.uTail - s + i] \in Element
    <3>1. r.uTail - s + i \in 1 .. k
      <4> HIDE DEF k, more, fresh, room
      <4> QED BY <1>7, <1>9 DEF Reaches
    <3> QED BY <1>1, <3>1
  <2>3. F(fresh) \in Seq(Element) /\ Len(F(fresh)) = fresh
    <3> HIDE DEF fresh
    <3> QED BY <2>1, <2>2
  <2>4. r.uTail - s + (fresh + 1) = k + 1
    <3> HIDE DEF k, more, fresh, room
    <3> QED BY <1>9 DEF Reaches
  <2>5. G(fresh + 1) = Append(F(fresh), e)
    <3>1. G(fresh + 1)[fresh + 1] = e
      <4>1. more[k + 1] = e
        BY <1>1
      <4> HIDE DEF k, more, fresh
      <4>2. fresh + 1 \in 1 .. fresh + 1
        BY <2>1
      <4> QED BY <2>4, <4>1, <4>2
    <3>2. \A i \in 1 .. fresh : G(fresh + 1)[i] = F(fresh)[i]
      <4> HIDE DEF fresh, more
      <4> QED BY <2>1, <2>2
    <3>3. G(fresh + 1) = [i \in 1 .. fresh + 1 |-> G(fresh + 1)[i]]
      OBVIOUS
    <3> HIDE DEF fresh, F, G
    <3> QED BY <2>1, <2>3, <3>1, <3>2, <3>3
  <2>6. before = Extend(r, F(fresh))
    <3>1. CASE fresh > 0
      BY <1>2, <1>7, <2>1, <3>1
    <3>2. CASE fresh = 0
      <4>1. F(fresh) = << >>
        <5> HIDE DEF F, fresh
        <5> QED BY <2>3, <3>2
      <4>2. before = r
        BY <1>2, <2>1, <3>2
      <4> QED BY <4>1, <4>2, ExtendByNothing
    <3> QED BY <2>1, <3>1, <3>2
  <2>7. after = Extend(r, Append(F(fresh), e))
    BY <1>3, <1>7, <2>1, <2>5
  <2> HIDE DEF before, after, F, G, room
  <2>8. before.uHead = r.uHead /\ before.uTail = r.uTail + fresh
    BY <2>3, <2>6, ExtendType
  <2>9. before.uTail = s + k /\ NetQueueGetCount(before) < NETQUEUE_SIZE
    <3>1. fresh = s + k - r.uTail
      OBVIOUS
    <3>2. \A h, t, n, f \in Int : f < n - (t - h) => (t + f) - h < n
      OBVIOUS
    <3> HIDE DEF k, fresh, more
    <3>3. before.uTail = s + k
      BY <1>10, <2>8, <3>1
    <3>4. (r.uTail + fresh) - r.uHead < NETQUEUE_SIZE
      BY <1>1, <1>7, <3>2
    <3> QED BY <2>8, <3>3, <3>4 DEF NetQueueGetCount
  <2>10. after = [before EXCEPT !.Elements[Slot(before.uTail)] = e, !.uTail = @ + 1]
    <3>1. Extend(r, Append(F(fresh), e)) =
           [Extend(r, F(fresh)) EXCEPT !.Elements[Slot(r.uTail + Len(F(fresh)))] = e, !.uTail = @ + 1]
      <4>1. F(fresh) \in Seq(Element) /\ Len(F(fresh)) < NETQUEUE_SIZE
        BY <2>1, <2>3
      <4> HIDE DEF fresh
      <4> QED BY <4>1, ExtendOneMore, Zenon
    <3>2. r.uTail + Len(F(fresh)) = before.uTail
      BY <2>3, <2>8
    <3> HIDE DEF fresh
    <3> QED BY <2>6, <2>7, <3>1, <3>2, Zenon
  <2> HIDE DEF k, more
  <2>11. NetQueueEnqueueAt(before, s + k, e)
          = [before EXCEPT !.Elements[Slot(before.uTail)] = e, !.uTail = @ + 1]
    BY <2>9, Zenon DEF NetQueueEnqueueAt, NetQueueEnqueue
  <2> QED BY <2>10, <2>11, Zenon DEF before, after, k, more
<1>8. s > r.uTail \/ s + k < r.uTail
      \/ (s <= r.uTail /\ s + k >= r.uTail /\ room <= 0)
      \/ (s <= r.uTail /\ s + k >= r.uTail /\ room > 0 /\ fresh >= room)
      \/ (s <= r.uTail /\ s + k >= r.uTail /\ fresh < room)
  BY <1>1
<1> HIDE DEF before, after, room, fresh, k, F, G
<1> QED BY <1>4, <1>5, <1>6, <1>7, <1>8

-----------------------------------------------------------------------------
\* k elements of the packet have been enqueued.
Enqueued(k) ==
  /\ uStart = call.uStart + k
  /\ inputs = SubSeq(call.inputs, k + 1, Len(call.inputs))
  /\ q = EnqueueFrom(call.q, call.uStart, SubSeq(call.inputs, 1, k))

EnqueueInv == \E k \in 0 .. Len(call.inputs) : Enqueued(k)

\* What a loop of NetQueueFetchRange has fetched up to now.
ForwardInv ==
  /\ q = call.q
  /\ uEnd = call.uEnd /\ call.uStart <= uStart /\ uStart <= uEnd
  /\ fetched = [i \in 1 .. uStart - call.uStart |-> q.Elements[Slot(call.uStart + i - 1)]]
  /\ uStart > call.uStart => Holds(q, call.uStart) /\ uStart <= q.uTail

BackwardInv ==
  /\ q = call.q
  /\ uStart = call.uStart /\ uEnd <= call.uEnd /\ call.uEnd < uStart
  /\ fetched = [i \in 1 .. call.uEnd - uEnd |-> q.Elements[Slot(call.uEnd - i + 1)]]
  /\ uEnd < call.uEnd => Holds(q, call.uEnd) /\ uEnd >= q.uHead - 1

\* A queue's cursors are in order, and each loop is as far as its closed form
\* says of what it has done.
LoopsInv ==
  /\ q \in Queue /\ q.uHead <= q.uTail
  /\ loop \in {"none", "enqueue", "forward", "backward"}
  /\ uStart \in Int /\ uEnd \in Int
  /\ call \in [q : Queue, uStart : Nat, uEnd : Nat, inputs : Seq(Element)]
  /\ call.q.uHead <= call.q.uTail
  /\ loop = "enqueue" => EnqueueInv
  /\ loop = "forward" => ForwardInv
  /\ loop = "backward" => BackwardInv

\* Nothing has been enqueued yet.
LEMMA EnqueueFromNothing ==
  ASSUME NEW r \in Queue, NEW s \in Nat
  PROVE  EnqueueFrom(r, s, << >>) = r
<1>1. r.uTail \in Nat /\ r.uHead \in Nat /\ NETQUEUE_SIZE \in Nat
  BY NetQueueAssumption DEF Queue
<1>2. ~(s <= r.uTail /\ Lesser(s + Len(<< >>) - r.uTail, NETQUEUE_SIZE - NetQueueGetCount(r)) > 0)
  BY <1>1 DEF Lesser, NetQueueGetCount
<1> QED BY <1>2 DEF EnqueueFrom

\* The calls that take or refuse one element keep a queue a queue.
LEMMA EnqueueType ==
  ASSUME NEW r \in Queue, r.uHead <= r.uTail, NEW e \in Element
  PROVE  /\ NetQueueEnqueue(r, e) \in Queue
         /\ NetQueueEnqueue(r, e).uHead <= NetQueueEnqueue(r, e).uTail
<1>1. /\ r.uTail \in Nat /\ r.uHead \in Nat /\ NETQUEUE_SIZE \in Nat /\ NETQUEUE_SIZE > 0
      /\ << >> \in Seq(Element) /\ Len(<< >>) = 0 /\ <<e>> \in Seq(Element) /\ Len(<<e>>) = 1
  BY NetQueueAssumption DEF Queue
<1>2. Append(<< >>, e) = <<e>>
  OBVIOUS
<1>3. CASE NetQueueGetCount(r) < NETQUEUE_SIZE
  <2>1. Extend(r, << >>) = r /\ r.uTail + Len(<< >>) = r.uTail
    BY <1>1, ExtendByNothing
  <2>2. Extend(r, Append(<< >>, e)) =
          [Extend(r, << >>) EXCEPT !.Elements[Slot(r.uTail + Len(<< >>))] = e, !.uTail = @ + 1]
    <3>1. Len(<< >>) < NETQUEUE_SIZE /\ << >> \in Seq(Element)
      BY <1>1
    <3> QED BY <3>1, ExtendOneMore, Zenon
  <2>3. NetQueueEnqueue(r, e) = Extend(r, <<e>>)
    BY <1>2, <1>3, <2>1, <2>2, Zenon DEF NetQueueEnqueue
  <2>4. /\ Extend(r, <<e>>) \in Queue /\ Extend(r, <<e>>).uHead = r.uHead
        /\ Extend(r, <<e>>).uTail = r.uTail + 1
    BY <1>1, ExtendType
  <2> QED BY <1>1, <2>3, <2>4
<1>4. CASE ~(NetQueueGetCount(r) < NETQUEUE_SIZE)
  <2>1. NetQueueEnqueue(r, e) = r
    BY <1>4, Zenon DEF NetQueueEnqueue
  <2> QED BY <2>1
<1> QED BY <1>3, <1>4

-----------------------------------------------------------------------------
LEMMA EnqueueStep ==
  ASSUME LoopsInv, EnqueueNext
  PROVE  LoopsInv'
<1> DEFINE s == call.uStart
           d == call.inputs
           n == Len(d)
           r == call.q
<1>1. loop = "enqueue" /\ loop' = "enqueue" /\ inputs # << >> /\ q' = NetQueueEnqueueAt(q, uStart, Head(inputs))
      /\ uStart' = uStart + 1 /\ inputs' = Tail(inputs) /\ uEnd' = uEnd /\ call' = call
  BY DEF EnqueueNext
<1>2. /\ r \in Queue /\ r.uHead <= r.uTail /\ s \in Nat /\ d \in Seq(Element) /\ n \in Nat
      /\ r.uHead \in Nat /\ r.uTail \in Nat /\ uStart \in Int
  BY DEF LoopsInv, Queue
<1>3. PICK k \in 0 .. n : Enqueued(k)
  BY <1>1 DEF LoopsInv, EnqueueInv
<1>4. k < n
  <2>1. CASE k = n
    <3>1. SubSeq(d, k + 1, n) = << >>
      BY <1>2, <2>1, SubSeqEmpty
    <3> QED BY <1>1, <1>3, <3>1 DEF Enqueued
  <2> QED BY <1>2, <2>1
<1>5. k + 1 \in 1 .. n /\ k \in Nat /\ n \in (k + 1) .. n /\ k + 1 \in 1 .. k + 1 /\ (k + 1) - 1 = k
      /\ 1 \in 1 .. n /\ k + 1 \in 1 .. Len(d)
  BY <1>2, <1>4
<1>6. Head(inputs) = d[k + 1] /\ Tail(inputs) = SubSeq(d, (k + 1) + 1, n) /\ d[k + 1] \in Element
  <2>1. Head(SubSeq(d, k + 1, n)) = d[k + 1] /\ Tail(SubSeq(d, k + 1, n)) = SubSeq(d, (k + 1) + 1, n)
    BY <1>2, <1>5, HeadTailOfSubSeq
  <2> QED BY <1>2, <1>3, <1>5, <2>1 DEF Enqueued
<1>7. SubSeq(d, 1, k) \in Seq(Element) /\ Len(SubSeq(d, 1, k)) = k
  <2>1. \A i \in 1 .. k : d[i] \in Element
    BY <1>2, <1>5
  <2>2. Len(SubSeq(d, 1, k)) = IF 1 <= k THEN k - 1 + 1 ELSE 0
    BY <1>5, <2>1, SubSeqProperties
  <2>3. SubSeq(d, 1, k) \in Seq(Element)
    BY <1>5, <2>1, SubSeqProperties
  <2> QED BY <1>5, <2>2, <2>3
<1>8. SubSeq(d, 1, k + 1) = Append(SubSeq(d, 1, k), d[k + 1])
  <2>1. SubSeq(d, 1, k + 1) = SubSeq(d, 1, (k + 1) - 1) \o <<d[k + 1]>>
    BY <1>2, <1>5, SubSeqRecursiveSecond
  <2> QED BY <1>5, <1>6, <1>7, <2>1, AppendIsConcat
<1>9. q' = EnqueueFrom(r, s, SubSeq(d, 1, k + 1))
  <2>1. EnqueueFrom(r, s, Append(SubSeq(d, 1, k), d[k + 1]))
          = NetQueueEnqueueAt(EnqueueFrom(r, s, SubSeq(d, 1, k)), s + Len(SubSeq(d, 1, k)), d[k + 1])
    BY <1>2, <1>6, <1>7, EnqueueOneMore
  <2>2. q = EnqueueFrom(r, s, SubSeq(d, 1, k)) /\ uStart = s + k
    BY <1>3 DEF Enqueued
  <2> QED BY <1>1, <1>6, <1>7, <1>8, <2>1, <2>2
<1>10. SubSeq(d, 1, k + 1) \in Seq(Element)
  BY <1>6, <1>7, <1>8
<1>11. q' \in Queue /\ q'.uHead <= q'.uTail
  <2>1. /\ EnqueueFrom(r, s, SubSeq(d, 1, k + 1)) \in Queue
        /\ EnqueueFrom(r, s, SubSeq(d, 1, k + 1)).uHead = r.uHead
        /\ EnqueueFrom(r, s, SubSeq(d, 1, k + 1)).uTail >= r.uTail
    BY <1>2, <1>10, EnqueueFromType
  <2>2. q'.uHead \in Nat /\ q'.uTail \in Nat
    BY <1>9, <2>1 DEF Queue
  <2> QED BY <1>2, <1>9, <2>1, <2>2
<1>12. EnqueueInv'
  <2>1. uStart' = s + (k + 1)
    BY <1>1, <1>2, <1>3, <1>5 DEF Enqueued
  <2>2. Enqueued(k + 1)'
    BY <1>1, <1>6, <1>9, <2>1 DEF Enqueued
  <2>3. k + 1 \in 0 .. Len(call'.inputs)
    BY <1>1, <1>2, <1>5
  <2> QED BY <2>2, <2>3 DEF EnqueueInv
<1>13. uStart' \in Int
  BY <1>1, <1>2
<1> QED BY <1>1, <1>11, <1>12, <1>13 DEF LoopsInv

LEMMA ForwardStep ==
  ASSUME LoopsInv, FetchForward
  PROVE  LoopsInv'
<1> DEFINE s == call.uStart
<1>1. /\ loop = "forward" /\ loop' = "forward" /\ uStart # uEnd /\ Holds(q, uStart)
      /\ fetched' = Append(fetched, q.Elements[Slot(uStart)])
      /\ uStart' = uStart + 1 /\ UNCHANGED <<q, uEnd, inputs, call>>
  BY DEF FetchForward
<1>2. ForwardInv
  BY <1>1 DEF LoopsInv
<1>3. s \in Nat /\ uStart \in Int /\ uEnd \in Int /\ q.uHead \in Nat /\ q.uTail \in Nat
      /\ s <= uStart /\ uStart <= uEnd
  BY <1>2 DEF LoopsInv, Queue, ForwardInv
<1>4. PICK m \in Nat : m = uStart - s
  BY <1>3
<1>5. uStart' - s = m + 1 /\ uStart = s + (m + 1) - 1 /\ uStart' <= uEnd /\ s <= uStart' /\ uStart' > s
      /\ uStart' \in Int
  BY <1>1, <1>3, <1>4
<1>6. fetched = [i \in 1 .. m |-> q.Elements[Slot(s + i - 1)]]
  BY <1>2, <1>4 DEF ForwardInv
<1>7. fetched' = [i \in 1 .. m + 1 |-> q.Elements[Slot(s + i - 1)]]
  <2> DEFINE E(i) == q.Elements[Slot(s + i - 1)]
  <2>1. fetched = [i \in 1 .. m |-> E(i)]
    BY <1>6
  <2>2. fetched' = Append(fetched, E(m + 1))
    BY <1>1, <1>5
  <2> HIDE DEF E
  <2>3. fetched' = [i \in 1 .. m + 1 |-> E(i)]
    BY <2>1, <2>2
  <2> QED BY <2>3 DEF E
<1>8. Holds(q, s) /\ uStart' <= q.uTail
  BY <1>1, <1>2, <1>3 DEF Holds, ForwardInv
<1>9. ForwardInv'
  BY <1>1, <1>2, <1>5, <1>7, <1>8 DEF ForwardInv, Holds
<1> QED BY <1>1, <1>5, <1>9 DEF LoopsInv

LEMMA BackwardStep ==
  ASSUME LoopsInv, FetchBackward
  PROVE  LoopsInv'
<1> DEFINE s == call.uEnd
<1>1. /\ loop = "backward" /\ loop' = "backward" /\ Holds(q, uEnd)
      /\ fetched' = Append(fetched, q.Elements[Slot(uEnd)])
      /\ uEnd' = uEnd - 1 /\ UNCHANGED <<q, uStart, inputs, call>>
  BY DEF FetchBackward
<1>2. BackwardInv
  BY <1>1 DEF LoopsInv
<1>3. s \in Nat /\ uStart \in Int /\ uEnd \in Int /\ q.uHead \in Nat /\ q.uTail \in Nat
      /\ uEnd <= s /\ s < uStart
  BY <1>2 DEF LoopsInv, Queue, BackwardInv
<1>4. PICK m \in Nat : m = s - uEnd
  BY <1>3
<1>5. s - uEnd' = m + 1 /\ uEnd = s - (m + 1) + 1 /\ uEnd' <= s /\ uEnd' < s /\ uEnd' \in Int
  BY <1>1, <1>3, <1>4
<1>6. fetched = [i \in 1 .. m |-> q.Elements[Slot(s - i + 1)]]
  BY <1>2, <1>4 DEF BackwardInv
<1>7. fetched' = [i \in 1 .. m + 1 |-> q.Elements[Slot(s - i + 1)]]
  <2> DEFINE E(i) == q.Elements[Slot(s - i + 1)]
  <2>1. fetched = [i \in 1 .. m |-> E(i)]
    BY <1>6
  <2>2. fetched' = Append(fetched, E(m + 1))
    BY <1>1, <1>5
  <2> HIDE DEF E
  <2>3. fetched' = [i \in 1 .. m + 1 |-> E(i)]
    BY <2>1, <2>2
  <2> QED BY <2>3 DEF E
<1>8. Holds(q, s) /\ uEnd' >= q.uHead - 1
  BY <1>1, <1>2, <1>3 DEF Holds, BackwardInv
<1>9. BackwardInv'
  BY <1>1, <1>2, <1>5, <1>7, <1>8 DEF BackwardInv, Holds
<1> QED BY <1>1, <1>5, <1>9 DEF LoopsInv

\* A loop begins with nothing done.
LEMMA BeginStep ==
  ASSUME LoopsInv, NEW s \in Nat, NEW e \in Nat, NEW d \in Seq(Element),
         BeginEnqueue(s, d) \/ BeginFetch(s, e)
  PROVE  LoopsInv'
<1>1. q \in Queue /\ q.uHead <= q.uTail /\ q.uHead \in Nat /\ q.uTail \in Nat /\ << >> \in Seq(Element)
  BY DEF LoopsInv, Queue
<1>2. CASE BeginEnqueue(s, d)
  <2>1. /\ loop' = "enqueue" /\ uStart' = s /\ uEnd' = 0 /\ inputs' = d /\ q' = q
        /\ call' = [q |-> q, uStart |-> s, uEnd |-> 0, inputs |-> d]
    BY <1>2 DEF BeginEnqueue, Begin
  <2>2. Len(d) \in Nat /\ SubSeq(d, 0 + 1, Len(d)) = d /\ SubSeq(d, 1, 0) = << >>
    <3>1. SubSeq(d, 1, Len(d)) = d
      BY SubSeqFull
    <3>2. SubSeq(d, 1, 0) = << >>
      BY SubSeqEmpty
    <3> QED BY <3>1, <3>2
  <2>3. EnqueueFrom(q, s, << >>) = q
    BY <1>1, EnqueueFromNothing
  <2>4. Enqueued(0)'
    <3>1. call'.q = q /\ call'.uStart = s /\ call'.inputs = d /\ s + 0 = s
      BY <2>1
    <3> HIDE DEF Enqueued
    <3>2. q' = EnqueueFrom(call'.q, call'.uStart, SubSeq(call'.inputs, 1, 0))
      BY <2>1, <2>2, <2>3, <3>1
    <3>3. inputs' = SubSeq(call'.inputs, 0 + 1, Len(call'.inputs)) /\ uStart' = call'.uStart + 0
      BY <2>1, <2>2, <3>1
    <3> QED BY <3>2, <3>3 DEF Enqueued
  <2>5. EnqueueInv'
    BY <2>1, <2>2, <2>4 DEF EnqueueInv
  <2> QED BY <1>1, <2>1, <2>5 DEF LoopsInv
<1>3. CASE BeginFetch(s, e)
  <2>1. /\ loop' = IF e - s >= 0 THEN "forward" ELSE "backward"
        /\ uStart' = s /\ uEnd' = e /\ inputs' = << >> /\ fetched' = << >> /\ q' = q
        /\ call' = [q |-> q, uStart |-> s, uEnd |-> e, inputs |-> << >>]
    BY <1>3 DEF BeginFetch, Begin
  <2>2. s - s = 0 /\ e - e = 0 /\ \A f : << >> = [i \in 1 .. 0 |-> f[i]]
    OBVIOUS
  <2>3. fetched' = [i \in 1 .. uStart' - call'.uStart |-> q'.Elements[Slot(call'.uStart + i - 1)]]
        /\ fetched' = [i \in 1 .. call'.uEnd - uEnd' |-> q'.Elements[Slot(call'.uEnd - i + 1)]]
    BY <2>1, <2>2
  <2>4. loop' = "forward" => ForwardInv'
    BY <2>1, <2>3 DEF ForwardInv
  <2>5. loop' = "backward" => BackwardInv'
    BY <2>1, <2>3 DEF BackwardInv
  <2> QED BY <1>1, <2>1, <2>4, <2>5 DEF LoopsInv
<1> QED BY <1>2, <1>3

\* Between loops, one call that keeps the cursors in order.
LEMMA SingleStep ==
  ASSUME LoopsInv, NEW after \in Queue, after.uHead <= after.uTail, Single(after)
  PROVE  LoopsInv'
BY DEF Single, LoopsInv, cursors

LEMMA LoopsStep ==
  ASSUME LoopsInv, [LoopsNext]_loopsVars
  PROVE  LoopsInv'
<1>1. q \in Queue /\ q.uHead <= q.uTail /\ q.uHead \in Nat /\ q.uTail \in Nat
  BY DEF LoopsInv, Queue
<1>2. ASSUME NEW e \in Element, Single(NetQueueEnqueue(q, e)) PROVE LoopsInv'
  BY <1>1, <1>2, EnqueueType, SingleStep
<1>3. CASE Single(NetQueueDequeue(q))
  <2>1. NetQueueDequeue(q) \in Queue
    BY <1>1, CursorType
  <2>2. NetQueueDequeue(q).uHead <= NetQueueDequeue(q).uTail
    BY <1>1 DEF NetQueueDequeue, NetQueueGetCount, Queue
  <2> QED BY <1>3, <2>1, <2>2, SingleStep
<1>4. ASSUME NEW uAckPos \in 0 .. q.uTail, Single([q EXCEPT !.uHead = uAckPos]) PROVE LoopsInv'
  <2>1. [q EXCEPT !.uHead = uAckPos] \in Queue
        /\ [q EXCEPT !.uHead = uAckPos].uHead <= [q EXCEPT !.uHead = uAckPos].uTail
    BY <1>1 DEF Queue
  <2> QED BY <1>4, <2>1, SingleStep
<1>5. ASSUME NEW s \in 0 .. q.uTail + 1, NEW d \in UNION { [1 .. n -> Element] : n \in 1 .. MaxData },
             BeginEnqueue(s, d)
      PROVE  LoopsInv'
  <2>1. s \in Nat /\ 0 \in Nat
    BY <1>1
  <2>2. d \in Seq(Element)
    <3>1. PICK n \in 1 .. MaxData : d \in [1 .. n -> Element]
      OBVIOUS
    <3>2. n \in Nat
      BY NetQueueLoopsAssumption
    <3> QED BY <3>1, <3>2
  <2> QED BY <1>5, <2>1, <2>2, BeginStep
<1>6. ASSUME NEW s \in 0 .. q.uTail + 1, NEW e \in 0 .. q.uTail + 1, BeginFetch(s, e)
      PROVE  LoopsInv'
  <2>1. s \in Nat /\ e \in Nat /\ << >> \in Seq(Element)
    BY <1>1
  <2> QED BY <1>6, <2>1, BeginStep
<1>7. CASE Return
  BY <1>7 DEF Return, cursors, LoopsInv
<1>8. CASE UNCHANGED loopsVars
  BY <1>8 DEF loopsVars, cursors, LoopsInv, EnqueueInv, Enqueued, ForwardInv, BackwardInv, Holds
<1> QED BY <1>2, <1>3, <1>4, <1>5, <1>6, <1>7, <1>8, EnqueueStep, ForwardStep, BackwardStep DEF LoopsNext

LEMMA InvIsClosed == ASSUME LoopsInv PROVE LoopsAreClosed
<1> SUFFICES ASSUME Ended PROVE LoopsAreClosed
  BY DEF LoopsAreClosed
<1>1. /\ q.uHead \in Nat /\ q.uTail \in Nat /\ uStart \in Int /\ uEnd \in Int
      /\ call.uStart \in Nat /\ call.uEnd \in Nat /\ call.inputs \in Seq(Element)
  BY DEF LoopsInv, Queue
<1>2. ASSUME loop = "enqueue"
      PROVE  q = EnqueueFrom(call.q, call.uStart, call.inputs)
  <2> DEFINE d == call.inputs
  <2>1. PICK k \in 0 .. Len(d) : Enqueued(k)
    BY <1>2 DEF LoopsInv, EnqueueInv
  <2>2. inputs = << >> /\ inputs = SubSeq(d, k + 1, Len(d)) /\ Len(d) \in Nat
    BY <1>1, <1>2, <2>1 DEF Ended, Enqueued
  <2>3. k = Len(d)
    <3> SUFFICES ASSUME k < Len(d) PROVE FALSE
      BY <2>2
    <3>1. k + 1 \in 1 .. Len(d) /\ Len(d) \in (k + 1) .. Len(d) /\ k + 1 \in Int
      BY <2>2
    <3>2. \A i \in (k + 1) .. Len(d) : d[i] \in Element
      BY <1>1, <2>2
    <3>3. Len(SubSeq(d, k + 1, Len(d))) = IF k + 1 <= Len(d) THEN Len(d) - (k + 1) + 1 ELSE 0
      BY <2>2, <3>1, <3>2, SubSeqProperties
    <3>4. Len(SubSeq(d, k + 1, Len(d))) = Len(d) - (k + 1) + 1 /\ Len(d) - (k + 1) + 1 > 0
      BY <2>2, <3>1, <3>3
    <3>5. SubSeq(d, k + 1, Len(d)) = << >> /\ Len(<< >>) = 0
      BY <2>2
    <3>6. Len(d) - (k + 1) + 1 = 0
      BY <3>4, <3>5, Zenon
    <3> QED BY <2>2, <3>4, <3>6
  <2>4. SubSeq(d, 1, Len(d)) = d
    BY <1>1, SubSeqFull
  <2> QED BY <2>1, <2>3, <2>4 DEF Enqueued
<1>3. ASSUME loop = "forward"
      PROVE  fetched = NetQueueFetchRange(call.q, call.uStart, call.uEnd)
  <2>1. ForwardInv /\ (uStart = uEnd \/ ~Holds(q, uStart))
    BY <1>3 DEF LoopsInv, Ended
  <2>2. uStart - call.uStart
          = IF Holds(q, call.uStart) THEN Lesser(call.uEnd, q.uTail) - call.uStart ELSE 0
    <3>1. CASE uStart = call.uStart
      BY <1>1, <2>1, <3>1 DEF ForwardInv, Holds, Lesser
    <3>2. CASE uStart > call.uStart
      BY <1>1, <2>1, <3>2 DEF ForwardInv, Holds, Lesser
    <3> QED BY <1>1, <2>1, <3>1, <3>2 DEF ForwardInv
  <2>3. call.uStart <= call.uEnd /\ q = call.q
        /\ fetched = [i \in 1 .. uStart - call.uStart |-> q.Elements[Slot(call.uStart + i - 1)]]
    BY <1>1, <2>1 DEF ForwardInv
  <2> QED BY <2>2, <2>3 DEF NetQueueFetchRange
<1>4. ASSUME loop = "backward"
      PROVE  fetched = NetQueueFetchRange(call.q, call.uStart, call.uEnd)
  <2>1. BackwardInv /\ (uStart = uEnd \/ ~Holds(q, uEnd))
    BY <1>4 DEF LoopsInv, Ended
  <2>2. call.uEnd - uEnd = IF Holds(q, call.uEnd) THEN call.uEnd - q.uHead + 1 ELSE 0
    <3>1. CASE uEnd = call.uEnd
      BY <1>1, <2>1, <3>1 DEF BackwardInv, Holds
    <3>2. CASE uEnd < call.uEnd
      BY <1>1, <2>1, <3>2 DEF BackwardInv, Holds
    <3> QED BY <1>1, <2>1, <3>1, <3>2 DEF BackwardInv
  <2>3. ~(call.uStart <= call.uEnd) /\ q = call.q
        /\ fetched = [i \in 1 .. call.uEnd - uEnd |-> q.Elements[Slot(call.uEnd - i + 1)]]
    BY <1>1, <2>1 DEF BackwardInv
  <2> QED BY <2>2, <2>3 DEF NetQueueFetchRange
<1> QED BY <1>2, <1>3, <1>4 DEF LoopsAreClosed

\* The loops leave what the closed forms say, for every size of the ring, every
\* queue, every packet and every pair of cursors.
THEOREM LoopsAreClosedHolds == LoopsSpec => []LoopsAreClosed
<1>1. LoopsInit => LoopsInv
  <2>1. NetQueueNew \in Queue /\ NetQueueNew.uHead <= NetQueueNew.uTail
    BY NetQueueAssumption DEF NetQueueNew, Queue, SlotIndex
  <2>2. << >> \in Seq(Element)
    OBVIOUS
  <2> QED BY <2>1, <2>2 DEF LoopsInit, LoopsInv
<1> QED BY <1>1, LoopsStep, InvIsClosed, PTL DEF LoopsSpec
=============================================================================
