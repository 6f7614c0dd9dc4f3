----------------------------- MODULE MCMachine ------------------------------
(***************************************************************************)
(* Small machines of the program, each on its own, in one run: which says  *)
(* the one that a behaviour is about, the others stay where they begin.    *)
(***************************************************************************)
EXTENDS NetRunLength, NetQueueLoops, SnesSignals, SramSave,
        NetSocket, SnesRaster, SNSpcMix

VARIABLE which   \* the machine that runs

Machines == {"runlength", "loops", "signals", "sram", "socket", "picture", "mixer"}

machineVars == <<which, vars, loopsVars, signalVars, sramVars, socketVars, scenesVars, mixVars>>

\* There is no PPU where another machine runs.
NoPicture ==
  /\ ppu = Nothing /\ kept = Nothing /\ line = 0 /\ shown = Nothing
  /\ scene = "" /\ toSetUp = << >> /\ writes = 0

\* And there are no voices.
NoMixer ==
  /\ regs = << >> /\ mixer = << >>
  /\ told = << >> /\ heard = << >> /\ parted = "" /\ frames = 0 /\ mixWrites = 0

\* The coding of a packet begins with any packet.
MachineInit ==
  /\ which \in Machines
  /\ Init /\ (which # "runlength" => data = <<CHOOSE e \in RunElement : TRUE>>)
  /\ LoopsInit /\ SignalInit /\ SramInit /\ SocketInit
  /\ IF which = "picture" THEN ScenesInit ELSE NoPicture
  /\ IF which = "mixer" THEN MixInit ELSE NoMixer

\* A packet that is decoded is the end of it.
PacketDecoded == nRead = nSent /\ UNCHANGED vars

RunLengthRuns ==
  /\ which = "runlength" /\ (Next \/ PacketDecoded)
  /\ UNCHANGED <<loopsVars, signalVars, sramVars, socketVars, scenesVars, mixVars>>

LoopsRun ==
  /\ which = "loops" /\ LoopsNext
  /\ UNCHANGED <<vars, signalVars, sramVars, socketVars, scenesVars, mixVars>>

SignalsRun ==
  /\ which = "signals" /\ SignalNext
  /\ UNCHANGED <<vars, loopsVars, sramVars, socketVars, scenesVars, mixVars>>

SramRuns ==
  /\ which = "sram" /\ SramNext
  /\ UNCHANGED <<vars, loopsVars, signalVars, socketVars, scenesVars, mixVars>>

SocketRuns ==
  /\ which = "socket" /\ SocketNext
  /\ UNCHANGED <<vars, loopsVars, signalVars, sramVars, scenesVars, mixVars>>

PictureRuns ==
  /\ which = "picture" /\ ScenesNext
  /\ UNCHANGED <<vars, loopsVars, signalVars, sramVars, socketVars, mixVars>>

MixerRuns ==
  /\ which = "mixer" /\ MixNext
  /\ UNCHANGED <<vars, loopsVars, signalVars, sramVars, socketVars, scenesVars>>

MachineNext ==
  /\ RunLengthRuns \/ LoopsRun \/ SignalsRun \/ SramRuns \/ SocketRuns
     \/ PictureRuns \/ MixerRuns
  /\ UNCHANGED which

\* SignalFairness, SramFairness and SocketFairness, of the machine that runs.
MachineFairness ==
  /\ WF_signalVars(which = "signals" /\ SignalNext)
  /\ WF_sramVars(which = "sram" /\ RunSramFrame(sram))
  /\ WF_sramVars(which = "sram" /\ (SaveEnds \/ SaveFails))
  /\ WF_socketVars(which = "socket" /\ SocketGoesOn)
  /\ WF_socketVars(which = "socket" /\ UdpReadFailed)

MachineSpec == MachineInit /\ [][MachineNext]_machineVars /\ MachineFairness

\* Every pixel of a line is what the registers and the memories say it should be
\* (PictureIsExact), where it is the picture that runs (snppurender8.cpp).
PictureIsRight == which = "picture" => PictureIsExact

\* How a frame of sound is cut into chunks is not heard and not read (ChunksDoNotMatter),
\* and no envelope, phase or address leaves its range, where it is the mixer that runs
\* (snspcmix.cpp, Mix).
SoundIsWhole == which = "mixer" => MixTypeOK /\ ChunksDoNotMatter
=============================================================================
