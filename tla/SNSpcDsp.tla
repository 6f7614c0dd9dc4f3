------------------------------ MODULE SNSpcDsp ------------------------------
(* The registers of the sound generator on the consoles of a net game        *)
(* (snspcdsp.cpp; snspcio.cpp: F3; snspcmix.cpp: voices; the end of          *)
(* ExecuteFrame in snes.cpp; the mode in mainloop.cpp).  The program's       *)
(* writes wait in a queue; at the end of the frame the mixer takes them as   *)
(* it comes to their time, for as many samples as the console's own sound    *)
(* output needs, and then the rest is taken.  How far a voice has come is    *)
(* the mixer's business, and it tells the registers.  Consoles that share a  *)
(* game run the same program, but not the same number of samples.            *)
EXTENDS SNQueue, Integers

CONSTANTS Console, Voice,
          DSP_CYCLES,     \* a frame, in chunks of the mixer
          MaxDspWrites    \* bound: accesses in a frame

VARIABLE dsp,             \* each console's registers, queue, voices and progress
         dspAnswer        \* what each console's program has read last
dspVars == <<dsp, dspAnswer>>

Registers8 == {"FLG", "KON", "KOFF", "ENDX", "ENVX"}
Off == [state |-> "off", endx |-> FALSE, envx |-> 0]

\* SNSpcDsp::Reset and SNSpcDspMix::Reset.  FLG: MUTE is 0x40, RESET 0x80.
DspReset == [FLG |-> "MUTE", KON |-> {}, KOFF |-> {}, ENDX |-> {}, ENVX |-> [v \in Voice |-> 0],
             voice |-> [v \in Voice |-> Off], queue |-> SNQueueReset,
             cycle |-> 0, accesses |-> 0, chunk |-> 0]

-----------------------------------------------------------------------------
(* Write8.  A voice that is keyed on starts, one that is keyed off fades.    *)
KeyOn(voice, vs) ==
  [v \in Voice |-> IF v \in vs THEN [voice[v] EXCEPT !.state = "on", !.endx = FALSE] ELSE voice[v]]
KeyOff(voice, vs) ==
  [v \in Voice |-> IF v \in vs /\ voice[v].state = "on"
                   THEN [voice[v] EXCEPT !.state = "release"] ELSE voice[v]]

Write8(d, w) ==
  CASE w.reg = "FLG" /\ w.data = "RESET" ->
         [d EXCEPT !.FLG = "MUTE", !.KON = {}, !.KOFF = {}, !.ENDX = {}]
    [] w.reg = "FLG" /\ w.data # "RESET" -> [d EXCEPT !.FLG = w.data]
    [] w.reg = "KON"  -> [d EXCEPT !.KON = w.data, !.ENDX = @ \ w.data, !.voice = KeyOn(@, w.data)]
    [] w.reg = "KOFF" -> [d EXCEPT !.KOFF = w.data, !.voice = KeyOff(@, w.data)]
    [] w.reg = "ENDX" -> [d EXCEPT !.ENDX = {}]

\* One write after the other.
Write8All(d, ws) ==
  LET after[i \in 0 .. Len(ws)] == IF i = 0 THEN d ELSE Write8(after[i - 1], ws[i])
  IN  after[Len(ws)]

\* Sync(uCycle) and Sync().
SyncTo(d, uCycle) ==
  [Write8All(d, SubSeq(Pending(d.queue), 1, CountBefore(d.queue, uCycle)))
     EXCEPT !.queue = DequeueBefore(@, uCycle)]
SyncAll(d) == [Write8All(d, Pending(d.queue)) EXCEPT !.queue = SNQueueReset]

\* SNSpcIO: a write that finds no room has the queue emptied first.
EnqueueWrite(d, w) ==
  LET room == IF HasRoom(d.queue) THEN d ELSE SyncAll(d)
  IN  [room EXCEPT !.queue = Enqueue(@, [reg |-> w.reg, data |-> w.data, uCycle |-> d.cycle])]

(* UpdateFlags: what the mixer tells of each voice, or nothing at all.       *)
UpdateFlags(d, eMode) ==
  LET ended == { v \in Voice : d.voice[v].endx } IN
  IF eMode = "INACCURATEDETERMINISTIC" THEN [d EXCEPT !.ENVX = [v \in Voice |-> 0]]
  ELSE [d EXCEPT !.ENVX = [v \in Voice |-> d.voice[v].envx],
                 !.ENDX = @ \cup ended, !.KON = @ \ ended, !.KOFF = @ \ ended,
                 !.voice = [v \in Voice |-> [@[v] EXCEPT !.endx = FALSE]]]

\* Faulty: the registers follow the mixer in every frame.
FrameModeAccurate(eGameState) == "ACCURATENONDETERMINISTIC"
\* MainLoopProcess: the mode follows the state of the net game.
FrameMode(eGameState) ==
  IF eGameState = "IDLE" THEN "ACCURATENONDETERMINISTIC" ELSE "INACCURATEDETERMINISTIC"

-----------------------------------------------------------------------------
(* The program is the same on every console, and so are its times.          *)
InProgram == \A c \in Console : dsp[c].chunk = 0 /\ dsp[c].accesses < MaxDspWrites
Later(d, n) == [d EXCEPT !.cycle = @ + n, !.accesses = @ + 1]

DspWrites == [reg : {"FLG"}, data : {"RESET", "ON"}]
             \cup [reg : {"KON", "KOFF"}, data : (SUBSET Voice) \ {{}}]
             \cup [reg : {"ENDX"}, data : {{}}]

WriteDsp(w, n) ==
  /\ InProgram
  /\ \A c \in Console : dsp[c].cycle + n < DSP_CYCLES
  /\ dsp' = [c \in Console |-> EnqueueWrite(Later(dsp[c], n), w)]
  /\ UNCHANGED dspAnswer

ReadDsp(r) ==
  /\ InProgram
  /\ dsp' = [c \in Console |-> SyncAll(Later(dsp[c], 0))]
  /\ dspAnswer' = [c \in Console |-> dsp'[c][r]]

(* A chunk of samples: the writes up to its time, and then each voice that   *)
(* was keyed on comes to an end or not.                                      *)
Mixed(d, ended) ==
  [v \in Voice |->
     IF d.FLG = "MUTE" \/ d.voice[v].state = "off" THEN d.voice[v]
     ELSE IF d.voice[v].state = "silence" \/ v \in ended
     THEN [state |-> "silence", endx |-> TRUE, envx |-> 0]
     ELSE [d.voice[v] EXCEPT !.envx = 1]]

MixChunk(c) ==
  /\ dsp[c].chunk < DSP_CYCLES
  /\ \E ended \in SUBSET Voice :
       LET d == SyncTo(dsp[c], dsp[c].chunk)
       IN  dsp' = [dsp EXCEPT ![c] = [d EXCEPT !.voice = Mixed(d, ended), !.chunk = @ + 1]]
  /\ UNCHANGED dspAnswer

EndDspFrame ==
  /\ dsp' = [c \in Console |->
               [UpdateFlags(SyncAll(dsp[c]), FrameMode("PLAY"))
                  EXCEPT !.cycle = 0, !.accesses = 0, !.chunk = 0]]
  /\ UNCHANGED dspAnswer

DspInit == /\ dsp = [c \in Console |-> DspReset]
           /\ dspAnswer = [c \in Console |-> {}]
DspNext == \/ \E w \in DspWrites, n \in {0, 1} : WriteDsp(w, n)
           \/ \E r \in Registers8 : ReadDsp(r)
           \/ \E c \in Console : MixChunk(c)
           \/ EndDspFrame
DspSpec == DspInit /\ [][DspNext]_dspVars

-----------------------------------------------------------------------------
DspTypeOK ==
  \A c \in Console :
    /\ dsp[c].FLG \in {"RESET", "MUTE", "ON"}
    /\ dsp[c].KON \subseteq Voice /\ dsp[c].KOFF \subseteq Voice /\ dsp[c].ENDX \subseteq Voice
    /\ \A v \in Voice : dsp[c].voice[v].state \in {"off", "on", "release", "silence"}
    /\ dsp[c].cycle < DSP_CYCLES /\ dsp[c].chunk <= DSP_CYCLES
    /\ Len(dsp[c].queue.elements) <= SNQUEUE_SIZE

(* The programs of the consoles that share a game read the same from the     *)
(* sound generator, whatever each console's mixer has come to.               *)
ProgramsReadTheSame == \A c, d \in Console : dspAnswer[c] = dspAnswer[d]
=============================================================================
