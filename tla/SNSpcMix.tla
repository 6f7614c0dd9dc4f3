------------------------------ MODULE SNSpcMix -------------------------------
(***************************************************************************)
(* The mixer of the sound generator (snspcmix.cpp, SNSpcDspMixFull, and    *)
(* snspcbrr.c): in every frame it makes samples in chunks, and for each    *)
(* chunk of each voice first the envelope and then the samples, from       *)
(* blocks of 16 that it decodes as it comes to them; then the echo.  The   *)
(* arithmetic is that of the code, for the PS2.                            *)
(*                                                                         *)
(* The same registers are mixed by one mixer for every size of a chunk.    *)
(* Between the frames the program keys voices on and off and writes their  *)
(* registers and the others.                                               *)
(***************************************************************************)
EXTENDS Integers, Sequences, TLC
LOCAL INSTANCE SequencesExt
LOCAL INSTANCE Bitwise

CONSTANTS CHANNEL_NUM,   \* voices: 8 in the code
          ECHO_UNIT,     \* of a delay of 1: 1024 in the code
          MixRate,       \* samples in a second
          MixChunk,      \* the sizes of a chunk that are compared
          MIX_SAMPLES,   \* bound: in a frame
          MIX_FRAMES, MIX_WRITES   \* bounds: of a behaviour

VARIABLES regs,     \* the registers
          mixer,    \* for each size of a chunk, the mixer
          told,     \* what each said of the voices' ends after the last frame
          heard,    \* what each made of the last frame: left and right
          parted,   \* whether a voice has ended: "no", in the last frame ("now"), "before"
          frames, mixWrites
mixVars == <<regs, mixer, told, heard, parted, frames, mixWrites>>

MixVoice == 0 .. CHANNEL_NUM - 1
SAMPLERATE == 32000
ENVELOPE_MAX == 2 ^ 23
ONE == 65536             \* of a phase, and of the time to the next step of an envelope
NEVER == 268435456

Least(a, b) == IF a < b THEN a ELSE b
Most(a, b) == IF a > b THEN a ELSE b
Wrap16(v) == ((v + 32768) % 65536) - 32768
Clamp16(v) == Most(-32768, Least(32767, v))
Steps(n) == [i \in 1 .. n |-> i]

-----------------------------------------------------------------------------
\* Sample memory.  bound: sample 0 is 2 blocks that end, 1 is 2 that repeat the last; the
\* headers give the range, the filter and the flags, and the data is any bytes.
Header == (512 :> 176) @@ (521 :> 153) @@ (640 :> 220) @@ (649 :> 183)
SampleMem(a) == IF a \in DOMAIN Header THEN Header[a] ELSE (a * 73 + 11) % 256
\* GetSampleDir: where a sample begins (0) and repeats (2).
GetSampleDir(srcn, offset) ==
  IF srcn = 0 THEN 512 ELSE IF offset = 0 THEN 640 ELSE 649

\* SNSpcBRRDecode: nibbles, shifted, each put through a filter of the two samples before it.
FilterParm == <<<<0, 0>>, <<240, 0>>, <<488, -240>>, <<460, -208>>>>
BRRRange(header) == IF header \div 16 > 12 THEN header \div 16 - 4 ELSE header \div 16
Nibble(v) == IF v >= 8 THEN v - 16 ELSE v
NibbleAt(addr, i) ==
  Nibble(IF i % 2 = 1 THEN SampleMem(addr + 1 + (i \div 2)) \div 16
                      ELSE SampleMem(addr + (i \div 2)) % 16)
BRRFilter(parm, in, prev0, prev1) ==
  Wrap16(2 * Clamp16((in \div 2) + ((prev0 * parm[1]) \div 512) + ((prev1 * parm[2]) \div 512)))
BRRSample(addr, header, prev, i) ==
  BRRFilter(FilterParm[((header \div 4) % 4) + 1],
            Wrap16(NibbleAt(addr, i) * 2 ^ BRRRange(header)), prev[Len(prev)], prev[Len(prev) - 1])
\* before: the last two samples.  They and the 16 of the block.
SNSpcBRRDecode(addr, before) ==
  FoldLeft(LAMBDA prev, i : Append(prev, BRRSample(addr, SampleMem(addr), prev, i)), before, Steps(16))

-----------------------------------------------------------------------------
\* A channel: BlockData holds the last two samples of the block before, and the 16 of this one.
ChannelReset ==
  [eEnvState |-> "SILENCE", iEnvelope |-> 0, nEnvCount |-> 0, iPhase |-> 0, uBlockAddr |-> 0,
   uOldBlockAddr |-> 0, envx |-> 0, outx |-> 0, endx |-> FALSE, BlockData |-> [i \in 1 .. 18 |-> 0]]

KeyedOn(c, r) ==
  [c EXCEPT !.eEnvState = "ATTACK", !.nEnvCount = 0, !.uBlockAddr = GetSampleDir(r.srcn, 0),
            !.endx = FALSE]
KeyedOff(c) ==
  IF c.eEnvState \in {"RELEASE", "SILENCE"} THEN c
  ELSE [c EXCEPT !.eEnvState = "RELEASE", !.nEnvCount = 0]

\* BuildLookupTables: milliseconds and the steps of the whole way.
Ticks(time, steps) == time * ((32 * ((MixRate * 2048) \div 1000)) \div steps)
Slow(time, steps) == IF time = NEVER - 1 THEN time ELSE Ticks(time, steps)
AttackTimeMS == <<4100, 2600, 1500, 1000, 640, 380, 260, 160, 96, 64, 40, 24, 16, 10, 6, 0>>
DecayTimeMS == <<1200, 740, 440, 290, 180, 110, 74, 37>>
SustainTimeMS ==
  <<NEVER - 1, 38000, 28000, 24000, 19000, 14000, 12000, 9400, 7100, 5900, 4700, 3500, 2900, 2400,
    1800, 1500, 1200, 880, 740, 590, 440, 370, 290, 220, 180, 150, 110, 92, 74, 55, 37, 28>>
LinearMS ==
  <<NEVER - 1, 4100, 3100, 2600, 2000, 1500, 1300, 1000, 770, 640, 510, 380, 320, 260, 190, 160,
    130, 96, 80, 64, 48, 40, 32, 24, 20, 16, 12, 10, 8, 6, 4, 2>>
BentLineMS ==
  <<NEVER - 1, 7200, 5400, 4600, 3500, 2600, 2300, 1800, 1300, 1100, 900, 670, 580, 450, 340, 280,
    220, 170, 140, 110, 84, 70, 56, 42, 35, 28, 21, 18, 14, 11, 7, 3>>

\* The level of an envelope takes a step, and the next is due after some ticks.
Step(c, level, ticks) ==
  [c EXCEPT !.iEnvelope = Most(0, Least(ENVELOPE_MAX, level)), !.nEnvCount = @ + ticks]
Become(state, done, c) == IF done THEN [c EXCEPT !.eEnvState = state] ELSE c
Held(c, level) == [c EXCEPT !.iEnvelope = level, !.nEnvCount = NEVER]
Up(c) == c.iEnvelope + ENVELOPE_MAX \div 64
Down(c) == c.iEnvelope - c.iEnvelope \div 256
SustainLevel(r) == (r.adsr2 \div 32 + 1) * 2 ^ 20
Decayed(c, level, r) ==
  Become("SUSTAIN", Down(c) <= level,
    Step(c, Most(level, Down(c)), Ticks(DecayTimeMS[((r.adsr1 \div 16) % 8) + 1], 595)))
Released(c) ==
  Become("SILENCE", c.iEnvelope <= ENVELOPE_MAX \div 256, Step(c, c.iEnvelope - ENVELOPE_MAX \div 256, ONE))
Bent(c) ==
  c.iEnvelope + ENVELOPE_MAX \div (IF c.iEnvelope >= 3 * (ENVELOPE_MAX \div 4) THEN 256 ELSE 64)
EnvelopeUpdate(c, r) ==
  CASE c.eEnvState = "ATTACK" ->
         Become("DECAY", Up(c) >= ENVELOPE_MAX, Step(c, Up(c), Ticks(AttackTimeMS[(r.adsr1 % 16) + 1], 64)))
    [] c.eEnvState = "DECAY" -> Decayed(c, SustainLevel(r), r)
    [] c.eEnvState = "SUSTAIN" -> Step(c, Down(c), Slow(SustainTimeMS[(r.adsr2 % 32) + 1], 595))
    [] c.eEnvState = "RELEASE" -> Released(c)
    [] c.eEnvState = "DECREASELINEAR" ->
         Step(c, c.iEnvelope - ENVELOPE_MAX \div 64, Slow(LinearMS[(r.gain % 32) + 1], 64))
    [] c.eEnvState = "DECREASEEXP" -> Step(c, Down(c), Slow(SustainTimeMS[(r.gain % 32) + 1], 595))
    [] c.eEnvState = "INCREASELINEAR" -> Step(c, Up(c), Slow(LinearMS[(r.gain % 32) + 1], 64))
    [] c.eEnvState = "INCREASEBENTLINE" -> Step(c, Bent(c), Slow(BentLineMS[(r.gain % 32) + 1], 112))
    [] c.eEnvState = "DIRECT" -> Held(c, r.gain * ONE)
    [] c.eEnvState = "SILENCE" -> Held(c, 0)

\* The gain registers say how the level moves, unless the voice fades.
GainMode(gain) ==
  CASE gain \div 32 = 6 -> "INCREASELINEAR" [] gain \div 32 = 7 -> "INCREASEBENTLINE"
    [] gain \div 32 = 4 -> "DECREASELINEAR" [] gain \div 32 = 5 -> "DECREASEEXP" [] OTHER -> "DIRECT"
IsGain(r) == r.adsr1 < 128
Gained(c, r) ==
  IF ~IsGain(r) \/ c.eEnvState \in {"RELEASE", "SILENCE", GainMode(r.gain)} THEN c
  ELSE [c EXCEPT !.eEnvState = GainMode(r.gain), !.nEnvCount = 0]

EnvelopeSample(e, r) ==
  LET c == IF e.c.nEnvCount <= 0 THEN EnvelopeUpdate(e.c, r) ELSE e.c
  IN  [e EXCEPT !.c = [c EXCEPT !.nEnvCount = @ - ONE], !.out = Append(@, c.iEnvelope \div ONE)]
EnvelopeDone(e) ==
  [e EXCEPT !.c.envx = e.c.iEnvelope \div ONE, !.c.endx = @ \/ e.c.eEnvState = "SILENCE"]
EnvelopeOf(c, r, n) ==
  IF c.eEnvState = "SILENCE" THEN [c |-> c, out |-> << >>]
  ELSE EnvelopeDone(FoldLeft(LAMBDA e, i : EnvelopeSample(e, r), [c |-> c, out |-> << >>], Steps(n)))
\* There is none of a voice that has come to an end, or has no gain.
OutputEnvelope(c, r, n) ==
  IF c.uBlockAddr = 0 \/ (IsGain(r) /\ r.gain = 0)
  THEN [c |-> [c EXCEPT !.envx = 0, !.outx = 0], out |-> << >>]
  ELSE EnvelopeOf(Gained([c EXCEPT !.envx = 0, !.outx = 0], r), r, n)

-----------------------------------------------------------------------------
\* FetchBlock: the flags of the block say whether it is the last, and whether it repeats.
Last2(block) == SubSeq(block, 17, 18)
Silent16(before) == before \o [i \in 1 .. 16 |-> 0]
FetchBlock(c, r) ==
  IF c.uBlockAddr = 0 THEN [c EXCEPT !.BlockData = Silent16(Last2(@))]
  ELSE [c EXCEPT
          !.BlockData = SNSpcBRRDecode(c.uBlockAddr, Last2(@)),
          !.endx = @ \/ SampleMem(c.uBlockAddr) % 2 = 1,
          !.uBlockAddr = IF SampleMem(@) % 2 = 0 THEN (@ + 9) % 65536
                         ELSE IF SampleMem(@) % 4 = 3 THEN GetSampleDir(r.srcn, 2) ELSE 0]

\* The sample at a place, from -2; beyond the block lies the next channel: its state (0 to 10).
EnvStates == <<"SILENCE", "KEYON", "ATTACK", "DECAY", "SUSTAIN", "RELEASE", "DIRECT", "INCREASELINEAR",
               "INCREASEBENTLINE", "DECREASELINEAR", "DECREASEEXP">>
StateNumber(state) == (CHOOSE i \in 1 .. 11 : EnvStates[i] = state) - 1
\* beyond: the next channel's state and level, or, after the last, the rate and the table.
Beyond(ch, v) ==
  IF v + 1 \in MixVoice THEN <<StateNumber(ch[v + 1].eEnvState), 0, Wrap16(ch[v + 1].iEnvelope)>>
  ELSE <<Wrap16(MixRate), 0, Wrap16(Ticks(AttackTimeMS[1], 64))>>
PlaceOf(c) == c.iPhase \div ONE
SampleAt(block, beyond, i) == IF i < 16 THEN block[i + 3] ELSE beyond[i - 15]
\* A voice that was keyed on goes on from the samples it had come to, into the new block.
Put14(block, v) == [block EXCEPT ![17] = v]
Rebase(c, block, beyond) ==
  [c EXCEPT !.BlockData = [block EXCEPT ![18] = SampleAt(block, beyond, PlaceOf(c) + 1)],
            !.iPhase = (@ % ONE) + 14 * ONE]
Rebased(c, beyond) ==
  IF c.uBlockAddr = c.uOldBlockAddr THEN c
  ELSE Rebase(c, Put14(c.BlockData, SampleAt(c.BlockData, beyond, PlaceOf(c))), beyond)

PhaseInc(r) == ((r.pitch * SAMPLERATE) \div MixRate) * 16
InBlock(c, r) ==
  IF c.iPhase >= 14 * ONE THEN [FetchBlock(c, r) EXCEPT !.iPhase = @ - 16 * ONE] ELSE c
Neighbours(c) == <<c.BlockData[PlaceOf(c) + 3], c.BlockData[PlaceOf(c) + 4], c.iPhase % ONE>>
SampleStep(o, c, r) ==
  [c |-> [c EXCEPT !.iPhase = @ + PhaseInc(r)], out |-> Append(o.out, Neighbours(c))]
\* Faulty: the address is not remembered.
SampleDoneUnmarked(o) ==
  [o EXCEPT !.c.eEnvState = IF o.c.uBlockAddr = 0 THEN "SILENCE" ELSE @,
            !.c.endx = @ \/ o.c.uBlockAddr = 0, !.c.outx = o.c.envx]
SampleDone(o) ==
  [o EXCEPT !.c.eEnvState = IF o.c.uBlockAddr = 0 THEN "SILENCE" ELSE @,
            !.c.endx = @ \/ o.c.uBlockAddr = 0, !.c.outx = o.c.envx,
            !.c.uOldBlockAddr = o.c.uBlockAddr]
\* Only after an envelope: the sample has not ended.
OutputSample(c, r, beyond, n) ==
  SampleDone(FoldLeft(LAMBDA o, i : SampleStep(o, InBlock(o.c, r), r),
                      [c |-> Rebased(c, beyond), out |-> << >>], Steps(n)))

-----------------------------------------------------------------------------
\* OutputNoise: 31 bits of a register that is shifted as fast as FLG says.
NoiseFreq ==
  <<0, 16, 21, 25, 31, 42, 50, 63, 83, 100, 125, 107, 200, 250, 333, 400, 500, 667, 800, 1000, 1300,
    1600, 2000, 2700, 3200, 4000, 5300, 6400, 8000, 10700, 16000, 32000>>
NoiseShift(gen) ==
  IF gen >= 2 ^ 30 THEN ((gen % 2 ^ 30) * 2) ^^ 262145 ELSE gen * 2
\* Not more than one shift is due: the frequencies are not above the rate.
Shifted(z) ==
  IF z.phase >= ONE THEN [z EXCEPT !.phase = @ - ONE, !.gen = NoiseShift(@)] ELSE z
NoiseStep(z, inc) ==
  [z EXCEPT !.phase = @ + inc, !.out = Append(@, <<Wrap16(z.gen), Wrap16(z.gen), 0>>)]
OutputNoise(m, FLG, n) ==
  FoldLeft(LAMBDA z, i : NoiseStep(Shifted(z), (ONE * NoiseFreq[(FLG % 32) + 1]) \div MixRate),
           [phase |-> m.iNoisePhase, gen |-> m.uNoiseGen, out |-> << >>], Steps(n))

-----------------------------------------------------------------------------
\* _MixChannel and _MixChannelEcho: between two samples, times the envelope and the volumes.
Interpolated(p) == (p[1] * (32767 - (p[3] \div 2)) + p[2] * (p[3] \div 2)) \div 32768
Shaped(pairs, env) == [i \in DOMAIN env |-> (Interpolated(pairs[i]) * env[i]) \div 128]
Mixed(main, shaped, vol) == [i \in DOMAIN shaped |-> main[i] + shaped[i] * vol]
MixedEcho(echo, shaped, vol) ==
  [i \in DOMAIN shaped |-> Clamp16(echo[i] + Wrap16((shaped[i] * vol) \div 128))]
\* x is what has been made of a chunk: the channels, the noise, and the main and the echo sound.
Sounded(x, shaped, r, echoes) ==
  [x EXCEPT !.main = <<Mixed(@[1], shaped, r.vol_l), Mixed(@[2], shaped, r.vol_r)>>,
            !.echo = IF echoes THEN <<MixedEcho(@[1], shaped, r.vol_l), MixedEcho(@[2], shaped, r.vol_r)>>
                     ELSE @]
VoiceSounded(x, v, r, o, env) ==
  Sounded([x EXCEPT !.ch[v] = o.c], Shaped(IF v \in r.NOV THEN x.noise ELSE o.out, env),
          r.voice[v], v \in r.EON /\ ~r.ECHO_OFF)
Enveloped(x, v, r, e, n) ==
  IF e.out = << >> THEN [x EXCEPT !.ch[v] = e.c]
  ELSE VoiceSounded(x, v, r, OutputSample(e.c, r.voice[v], Beyond(x.ch, v), n), e.out)
MixVoiceInto(x, v, r, n) == Enveloped(x, v, r, OutputEnvelope(x.ch[v], r.voice[v], n), n)
Voices == [i \in 1 .. CHANNEL_NUM |-> i - 1]
MixVoices(x, r, n) ==
  IF r.MUTE THEN x ELSE FoldLeft(LAMBDA y, v : MixVoiceInto(y, v, r, n), x, Voices)

\* _FilterEchoStereo: what is in the buffer goes through the filter, and comes back with what is new.
\* The line has the last eight, of the left and of the right.
ECHOBUFFER_SIZE == (ECHO_UNIT * 15 * 3) \div 2
EchoSize(r) == Least((r.EDL * ECHO_UNIT * MixRate) \div SAMPLERATE, ECHOBUFFER_SIZE)
InBuffer(buffer, a) == IF a \in DOMAIN buffer THEN buffer[a] ELSE <<0, 0>>
Pushed8(last, in) == [i \in 1 .. 8 |-> IF i = 1 THEN in ELSE last[i - 1]]
FIR(last, c) ==
  (last[1] * c[1] + last[2] * c[2] + last[3] * c[3] + last[4] * c[4] + last[5] * c[5]
   + last[6] * c[6] + last[7] * c[7] + last[8] * c[8]) \div 128
EchoAgain(filtered, in, r) == Wrap16((filtered * r.EFB) \div 128 + in)
\* q is the echo so far, l and r1 the lines with a new sample each.
EchoFiltered(q, x, i, r, fl, fr) ==
  [q EXCEPT !.buffer = (q.uEchoAddr :> <<EchoAgain(fl, x.echo[1][i], r), EchoAgain(fr, x.echo[2][i], r)>>) @@ @,
            !.out = <<Append(@[1], Wrap16(fl)), Append(@[2], Wrap16(fr))>>,
            !.uEchoAddr = IF @ + 2 >= EchoSize(r) THEN 0 ELSE @ + 2]
EchoStep(q, x, i, r, lines) ==
  EchoFiltered([q EXCEPT !.lines = lines], x, i, r, FIR(lines[1], r.FIR), FIR(lines[2], r.FIR))
EchoLines(q, in) == <<Pushed8(q.lines[1], in[1]), Pushed8(q.lines[2], in[2])>>
EchoAddrFixed(a, size) == IF a < size THEN a ELSE IF size > 0 THEN a % size ELSE 0
EchoStart(m, r) == [m EXCEPT !.uEchoAddr = EchoAddrFixed(@, EchoSize(r)), !.out = <<<< >>, << >>>>]
FilterEcho(m, x, r, n) ==
  FoldLeft(LAMBDA q, i : EchoStep(q, x, i, r, EchoLines(q, InBuffer(q.buffer, q.uEchoAddr))),
           EchoStart(m, r), Steps(n))

\* _MixEcho: both times their volumes.
MixEcho(main, echo, mvol, evol) ==
  [i \in DOMAIN main |-> Clamp16((Clamp16(main[i] \div 128) * mvol + echo[i] * evol) \div 64)]

\* One chunk.  A mixer has the channels, the noise, the echo, and what it has put out.
MixerReset ==
  [ch |-> [v \in MixVoice |-> ChannelReset], iNoisePhase |-> 0, uNoiseGen |-> 1,
   echo |-> [buffer |-> << >>, uEchoAddr |-> 0, lines |-> <<[i \in 1 .. 8 |-> 0], [i \in 1 .. 8 |-> 0]>>,
             out |-> <<<< >>, << >>>>],
   out |-> << >>]
Quiet(n) == [i \in 1 .. n |-> 0]
ChunkStart(m, z, n) ==
  [ch |-> m.ch, noise |-> z.out, main |-> <<Quiet(n), Quiet(n)>>, echo |-> <<Quiet(n), Quiet(n)>>]
PutOut(m, main, echo, r) ==
  [m EXCEPT !.out = @ \o
     [i \in DOMAIN main[1] |-> <<MixEcho(main[1], echo[1], r.MVOL, r.EVOL)[i],
                                  MixEcho(main[2], echo[2], r.MVOL, r.EVOL)[i]>>]]
EchoEnds(m, x, q, r) == PutOut([m EXCEPT !.ch = x.ch, !.echo = q], x.main, q.out, r)
ChunkEnds(m, x, r, n) ==
  IF r.MUTE \/ r.ECHO_OFF THEN PutOut([m EXCEPT !.ch = x.ch], x.main, x.echo, r)
  ELSE EchoEnds(m, x, FilterEcho(m.echo, x, r, n), r)
NoiseMade(m, z) == [m EXCEPT !.iNoisePhase = z.phase, !.uNoiseGen = z.gen]
ChunkOf(m, z, r, n) == ChunkEnds(NoiseMade(m, z), MixVoices(ChunkStart(m, z, n), r, n), r, n)
MixOneChunk(m, r, n) ==
  ChunkOf(m, IF r.NOV = {} THEN [phase |-> m.iNoisePhase, gen |-> m.uNoiseGen, out |-> << >>]
             ELSE OutputNoise(m, r.FLG, n), r, n)

\* Mix: what is to be made, in chunks of size k.
Lengths(k) ==
  [i \in 1 .. (MIX_SAMPLES + k - 1) \div k |-> Least(k, MIX_SAMPLES - (i - 1) * k)]
Mix(m, r, k) == FoldLeft(LAMBDA x, n : MixOneChunk(x, r, n), [m EXCEPT !.out = << >>], Lengths(k))

\* GetChannelState tells of an end once.
Untold(m) ==
  [m EXCEPT !.ch = [v \in MixVoice |-> [@[v] EXCEPT !.endx = FALSE]], !.out = << >>,
            !.echo.out = <<<< >>, << >>>>]

-----------------------------------------------------------------------------
\* bound: the sounds that a voice is given, and the settings of the other registers.
Sound(pitch, srcn, adsr1, adsr2, gain) ==
  [vol_l |-> 100, vol_r |-> -60, pitch |-> pitch, srcn |-> srcn, adsr1 |-> adsr1, adsr2 |-> adsr2,
   gain |-> gain]
First == { Sound(16383, 0, 143, 224, 0), Sound(16383, 1, 0, 0, 127), Sound(7000, 0, 0, 0, 2) }
Sounds ==
  { Sound(16383, 1, 255, 200, 0), Sound(16383, 0, 0, 0, 223), Sound(4096, 1, 0, 0, 255),
    Sound(12345, 1, 0, 0, 159), Sound(16000, 1, 0, 0, 191), Sound(16383, 0, 0, 0, 0) }
Setting(FLG, mute, off, EON, NOV, EDL) ==
  [FLG |-> FLG, MUTE |-> mute, ECHO_OFF |-> off, EON |-> EON, NOV |-> NOV, EDL |-> EDL, EFB |-> 90,
   FIR |-> <<127, -12, 33, 0, 7, 0, 0, -100>>, MVOL |-> 100, EVOL |-> 70]
Settings ==
  { Setting(0, FALSE, TRUE, {}, {}, 0), Setting(0, FALSE, FALSE, MixVoice, {}, 2),
    Setting(31, FALSE, FALSE, {0}, {1}, 0), Setting(27, FALSE, TRUE, {}, {0}, 1),
    Setting(0, TRUE, FALSE, {}, {}, 1) }
WithVoices(setting, voice) == setting @@ [voice |-> voice]

\* The voices play from the beginning, the first any of the First sounds.
MixInit ==
  /\ \E setting \in Settings, s \in First :
       regs = WithVoices(setting, [v \in MixVoice |-> IF v = 0 THEN s ELSE Sound(9000, 1, 255, 127, 0)])
  /\ mixer = [k \in MixChunk |->
                [MixerReset EXCEPT !.ch = [v \in MixVoice |-> KeyedOn(@[v], regs.voice[v])]]]
  /\ told = [k \in MixChunk |-> {}] /\ heard = [k \in MixChunk |-> << >>]
  /\ parted = "no" /\ frames = 0 /\ mixWrites = 0

CanWriteMix ==
  /\ frames < MIX_FRAMES
  /\ mixWrites < MIX_WRITES /\ mixWrites' = mixWrites + 1
\* KON and KOFF.
EachChannel(v, F(_)) == [k \in MixChunk |-> [mixer[k] EXCEPT !.ch[v] = F(@)]]
KeyOnVoice(v) ==
  /\ CanWriteMix
  /\ mixer' = EachChannel(v, LAMBDA c : KeyedOn(c, regs.voice[v]))
  /\ UNCHANGED <<regs, told, heard, parted, frames>>
KeyOffVoice(v) ==
  /\ CanWriteMix
  /\ mixer' = EachChannel(v, KeyedOff)
  /\ UNCHANGED <<regs, told, heard, parted, frames>>
WriteVoice(v, s) ==
  /\ CanWriteMix /\ regs.voice[v] # s
  /\ regs' = [regs EXCEPT !.voice[v] = s]
  /\ UNCHANGED <<mixer, told, heard, parted, frames>>
WriteSetting(setting) ==
  /\ CanWriteMix
  /\ regs' = WithVoices(setting, regs.voice) /\ regs' # regs
  /\ UNCHANGED <<mixer, told, heard, parted, frames>>

Playing(m) == {v \in MixVoice : m.ch[v].eEnvState # "SILENCE"}
Parting(after) ==
  IF parted # "no" THEN "before"
  ELSE IF \E k \in MixChunk : Playing(mixer[k]) # Playing(after[k]) THEN "now" ELSE "no"
MixedFrame(after) ==
  /\ parted' = Parting(after)
  /\ told' = [k \in MixChunk |-> {v \in MixVoice : after[k].ch[v].endx}]
  /\ heard' = [k \in MixChunk |-> after[k].out]
  /\ mixer' = [k \in MixChunk |-> Untold(after[k])]
MixFrame ==
  /\ frames < MIX_FRAMES /\ frames' = frames + 1
  /\ MixedFrame([k \in MixChunk |-> Mix(mixer[k], regs, k)])
  /\ UNCHANGED <<regs, mixWrites>>

MixDone == frames = MIX_FRAMES /\ UNCHANGED mixVars
MixNext == \/ \E v \in MixVoice : KeyOnVoice(v) \/ KeyOffVoice(v)
           \/ \E s \in Sounds : WriteVoice(0, s)
           \/ \E setting \in Settings : WriteSetting(setting)
           \/ MixFrame
           \/ MixDone
MixSpec == MixInit /\ [][MixNext]_mixVars

-----------------------------------------------------------------------------
MixTypeOK ==
  \A k \in MixChunk :
    /\ mixer[k].echo.uEchoAddr \in 0 .. ECHOBUFFER_SIZE - 1
    /\ \A v \in MixVoice :
         /\ mixer[k].ch[v].iEnvelope \in 0 .. ENVELOPE_MAX
         /\ mixer[k].ch[v].iPhase \in -2 * ONE .. 18 * ONE - 1
         /\ mixer[k].ch[v].uBlockAddr \in 0 .. 65535

(* How a frame is cut into chunks cannot be heard, as long as no voice has   *)
(* ended; and in the frame in which the first of them ends, the mixers say   *)
(* the same of every voice, though a chunk that follows the end cuts off     *)
(* what was left of its last block (snspcmix.cpp, Mix, OutputSample).        *)
ChunksDoNotMatter ==
  \A j, k \in MixChunk :
    /\ parted # "before" => told[j] = told[k] /\ Playing(mixer[j]) = Playing(mixer[k])
    /\ parted = "no" => heard[j] = heard[k] /\ mixer[j] = mixer[k]
=============================================================================
