# A verification of SNESticle for the PlayStation 2

TLA+ modules, TLC configurations and TLAPS proofs about the program in `src/`:
a Super Nintendo emulator with network play. File names below are relative to
`src/SNESticle/`, and those of the netplay code to
`src/SNESticle/Modules/netplay/Source/common/`.

## 1. Inventory

### The parts and how they work together

The main loop (`Source/ps2/mainloop.cpp`) polls the pads, hands them to the
netplay client, has the console core execute one frame with the inputs it gets
back, mixes the sound and flushes the graphics. Netplay runs in threads of its
own, one per socket, which call into the client and the server, and from there,
by a callback, into the main loop. The console core is sequential.

| Part | Source | State | Operations | Modelled in |
|---|---|---|---|---|
| netplay input queue | `netqueue.c` | two cursors, 128 slots | reset, enqueue, enqueue at, dequeue, fetch range | `NetQueue`, `NetQueueLoops` |
| netplay client, lockstep | `netclient.c` | per peer two queues and a throttle request; frame, throttle, game state | process (main loop), packet (UDP thread), start and load (TCP thread) | `NetLockstep` |
| netplay client, packets | `netclient.c`, `netpacket.h` | encode and decode buffers | run-length encode and decode | `NetRunLength` |
| netplay session | `netserver.c`, callbacks in `mainloop.cpp` | state of the server and of each slot, of each client, the ROM | hello, load request, acknowledgement, unload, start, abort, accept | `NetSession` |
| sockets | `netsocket.c`, `netclient.c` | status, socket, thread | connect, bind, listen, disconnect, thread | `NetSocket`; the listening socket in `NetworkScreen`, those of the slots in `NetSession` |
| relay | `netrelay.c` | table of addresses | forward | no: Windows only |
| netplay on the EE | `Modules/netplay/Source/ps2/ee` | semaphores | input, status, threads | `NetLockstep`, `MainLoop` (the call per frame) |
| main loop, frames | `mainloop.cpp` | ROM, system, menu, states, frame | process, execute file, unload, menu, save and load a state, callbacks | `MainLoop` |
| main loop, keys | `mainloop.cpp` | buttons of the last frame, a count, two timeouts, menu, screen | input of a frame | `MainLoopKeys` |
| pads | `input.cpp` | per pad its buttons, and whether it is there | poll | `MainLoopKeys`, its first half |
| menus | `uiBrowser.cpp`, `uiMenu.cpp`, `uiNetwork.cpp` | directory, list, selection, file to copy; option, twelve digits, latency | input, enter, copy, paste, delete; connect, start, stop | `Browser`, `NetworkScreen` |
| movie clip | `Gep/Source/common/emumovie.cpp` | state, frames, two flags | record, play | `MainLoop` |
| main loop, battery RAM | `mainloop.cpp`, `memcard.cpp`, `mcsave_ee.c` | checksum, counter, updated flag, file | load, check, save | `SramSave` |
| console core | `snes.cpp`, `snppu.cpp`, `snspcio.cpp`, `sncpu.c` | line, cycle counters, signals | execute a line, synchronise SPC, PPU and DSP, serve a signal | `SnesPPU` over `SnesPicture`, `SNSpcIO`, `SnesSignals` |
| write queues | `snqueue.h` | array, head and tail | enqueue, dequeue | `SNQueue`, used by three modules |
| SPC timers | `snspctimer.cpp` | counter, cycles, compare value | synchronise, enable, program, read | `SNSpcTimer` |
| DMA and HDMA | `sndma.cpp` | channel registers, enable bits | transfer a chunk, a line of a table | `SnesDMA` |
| sound registers | `snspcdsp.cpp`, `snspcmix.cpp` | registers, queue, voices | write, read, take, tell of voices; envelopes, decoding, mixing, echo | `SNSpcDsp`, `SNSpcMix` |
| CPU interpreters | `sncpu_c.c`, `sn65816.S`, `sncpu.c`, `XML/op65816*.h` | registers, flags, cycles; in assembly a page and a bank of its own | instructions, interrupts, enter, leave | `SNCpu` over `SN65816Ops` and `SN65816`; `SNCpuAdder` (arithmetic); `SnesSignals` (when it stops) |
| interpreter of the sound processor | `snspc_c.c`, `snspc.c`, `XML/opspc700_c.h` | registers, flags, cycles, memory and the ROM over it | instructions, execute some cycles, switch the ROM | `SNSpc` over `SNSpc700` |
| memory map, cartridges | `snmemmap.cpp`, `snrom.cpp` | banks, ROM, speed | load, map, 420D | `SnesMemMap` |
| joypads of the console | `snio.cpp`, `snes.cpp` | serial words, strobe, registers | strobe, read a bit, read all at the end of the picture | `SnesIO` |
| DSP-1 | `sndsp1.cpp` | command, parameters, results | read, write | no: compiled for Windows only (`snes.h:28`), and its arithmetic is not in `src/` |
| picture | `snppu.cpp`, `snppurender*.cpp`, `snppubg.cpp`, `snppuobj.cpp`, `snppublend_gs.cpp` | registers and memories; what is kept from line to line | write a register or a memory, draw a line | `SnesPPUPorts`, `SnesRender`, `SnesRaster` against `SnesPixel`; *when* a line is drawn is in `SnesPPU` |
| save state | `snstate.h`, `snes.cpp` | a record of the chips and memories, without the mixers' echo and noise and the writes still queued | save, restore | `SaveState`, `LoadState`, `RestoreState` of `MainLoop`; the sound processor's part in `SNSpc` |
| audio output, graphics lists | `audsrvbuffer.cpp`, `gpfifo.c`, `gslist.c` | one sample buffer, two command lists | enqueue, flush, swap | no: hardware outside `src/` |
| shell, files, log | `uiLog.cpp`, `Gep/Source/common` | lines, open files | reads | no: input and output |
| vendored and generated code | zlib, unzip, libxpad, fonts, the scripts of `XML/`, `titleman.c` | | | no |

`PROJECT.json` lists the same parts as components, each with its reason.

### What is hard

The hardest behaviour of this program is in netplay. Consoles that never compare
their states must execute the same frames with the same inputs, over UDP that
loses, repeats and reorders packets; every console decides alone when a frame
can be executed, when to acknowledge, when to skip or pad an input. Three
threads touch a client without a lock they share. The server's threads share its
state without any lock, and a game is started by counting acknowledgements that
say nothing of what they acknowledge.

The console core is sequential, and hard in another way: its chips are made to
lag behind the CPU and to catch up when somebody looks. What they then do must be
what they would have done at the time, and in a net game it must be the same on
consoles that look at different moments. What makes each part correct:

- *queue*: what is fetched is what was enqueued at those positions; skipping,
  gaps and overflow agree with what the protocol takes them for;
- *lockstep*: same inputs on every console; what is forgotten was delivered; no
  buffer overrun; every game goes on while links deliver; a new game is not
  touched by the last one;
- *packets*: decoding gives what was encoded, inside both buffers;
- *session*: whoever plays plays the same game; nobody starts before everybody
  has loaded; a load ends, in a start or in its abandonment; a server that all
  have left accepts clients again;
- *sockets*: an attempt to connect ends, but for the few ways in which the code
  leaves it hanging, and the next one can succeed;
- *main loop*: a console has executed exactly the inputs its client has used up;
  a clip takes the console through what it was;
- *battery RAM*: no file gets another game's RAM, but that of a save which a net
  game overtakes; a change is saved in the end;
- *PPU, SPC, sound*: the CPU's writes take effect in order and in their time,
  also when a queue is full; consoles in a net game read the same;
- *signals*: one NMI per edge; a DMA and a waiting CPU come to an end;
- *interpreters*: the one in C and the one in assembly do the same to the
  registers, the RAM and the clock; leaving the execution between any two
  instructions shows nowhere; what is pushed comes back;
- *pads and keys*: nothing acts that nobody holds; a press is one, or a repeat in
  its time; the menu needs two buttons together;
- *joypads*: a program that reads a pad bit by bit, while the console reads it
  too, sees the pad as it was at the strobe;
- *menus*: what is selected is there and is shown; a file is lost only as the
  player asked; an address goes where it shows, and to a client that takes it;
- *timers, DMA, HDMA, arithmetic, memory map*: doing a thing in pieces, or
  late, or in the other interpreter, gives what doing it at once gives.

`hazards` in `PROJECT.json` lists every hazard at its line, with the property
that covers it, or the reason why none does.

## 2. Plan

Done, in this order: `NetQueue` and `SharedInput`, `NetLockstep`, `NetQueueLoops`
and `NetRunLength` with the proofs about them; `NetSession`; `MainLoop` with its
proofs; `SramSave`; `NetSocket`; `SnesPPU` as a refinement of `SnesPicture`,
`SNSpcIO` and `SnesSignals` with their proofs; `SNSpcTimer`, `SnesDMA`,
`SNSpcDsp`, `SNCpuAdder`, `SnesMemMap`; `SN65816`,
`SN65816Ops` and `SNCpu`; `SNSpc700` and `SNSpc`; `SnesPPUPorts`, `SnesRender`,
`SnesPixel` and `SnesRaster`; `SNSpcMix`; proofs about the
session, the loops of the ring, the ports of the sound processor, its timers, DMA,
HDMA, battery-backed RAM and the registers of the sound generator;
proofs about the memory map and about additions and subtractions; `MainLoopKeys`,
 `SnesIO`, `Browser` and `NetworkScreen` with their proofs.

What would come next:

1. `NetMembership`: peers that join or leave during a game, `PEERINFO` over TCP
   against inputs over UDP, a main loop interrupted within `NetClientProcess`;
   what Lockstep says of it, and where it ceases to hold;
2. the framing of packets in `netsocket.c`, with reads that return a part;
3. the arithmetic of the throttle controller, which `NetLockstep` leaves open;
4. a proof of ReturnsBalance for every depth of calls, which needs the bit
   operations of `SN65816Ops` written without the module Bitwise.

## 3. The modules

An operator commented "Faulty" is a mutation of the definition that follows it:
it is what a plausible mistake in that code would be, no specification uses it,
and `PROJECT.json` says which property finds it.

### NetQueue and NetQueueLoops

`NetQueue` has one operator per function of `netqueue.c`, from a queue to a
queue. Cursors are sequence numbers, naturals here: `Uint32` would wrap after two
years of play. The slots keep their old elements, as in the code, because a head
that moves back (below) makes them visible again. The loop of
`_NetClientPeerInputData` (`EnqueueFrom`) and the two of `NetQueueFetchRange` are
closed forms there, so that the protocol can be proved about; `NetQueueLoops`
takes those loops one call at a time, from every queue that enqueues, dequeues
and acknowledgements can make, and compares.

### NetLockstep, and SharedInput above it

| Code | Model |
|---|---|
| `NetClientProcess`, by `NetPlayClientInput`, once a frame | `ProcessFrame` (every peer's input is there) or `ProcessStall` |
| `NetClientEnqueueInput` in a loop, with `NetClientCheckOutputLimit` | `SendInput`, `Accepted`: as many as find room |
| `NetClientTransmit`, `_NetClientPeerTransmit` | `Transmit` and, a peer a step, `PeerTransmit` |
| `_NetClientSocketReadUDP`, `_NetClientPeerInputData` | `PeerInputData` |
| `_NetClientSocketRead`: STARTGAME, LOADREQ | `RecvStartGame`, `RecvLoadReq` |
| `_NetClientUpdateThrottle` and the requests it is made from | `UpdateThrottle`: any value of `Throttles`, `MaxUpdates` times |
| UDP | `net`, a set of packets: `Deliver` may leave a copy, `Lose` drops |
| `NetQueueElementT Elements[64]` overrun | `smashed`: the client stops, as nothing is claimed of it afterwards |

`sent` and `played` are history variables: the stream a client has made of its
inputs, and the vectors it was given. `SharedInput` has only these two: a player
appends to a stream, an emulator takes the next input of every stream once all
exist, and a new game empties both. `ServiceSpec` says that the protocol
implements it, with `input <- sent`.

The network is as wild as UDP with `Ordered` FALSE. With it TRUE packets between
the same two clients keep their order and come once, but may be lost: the usual
local network. `DrainOnLoad` says that no packet of a game is under way when the
next one starts. The code needs that: `uSeqNum` is always 0, so nothing tells a
packet of the last game from one of this, and loading a ROM takes seconds.
Without it CountNonNegative still holds (`CountNonNegativeHolds`), but Lockstep
and FramesAdvance do not: TLC finds a client that executes an input of the last
game, and one that waits for ever.

### NetRunLength

The loops of `_NetClientCalcRunLength`, `_NetClientEncodeData` and
`_NetClientDecodeData`, a round a step, for one packet. The assumption
`2 * DATA_MAX <= ENCODE_MAX` is the code's 64 elements against 128 words, and
`DATA_MAX <= DECODE_MAX` its 64 against 256.

### NetSession

| Code | Model |
|---|---|
| the thread of a slot: `_NetServerClientRead` | `RecvClientHello`, `RecvLoadReq`, `RecvLoadAck`, and `job`, the broadcast it is in |
| `NetServerBroadcast` | `Send`, one client a step |
| `NetServerLoadGame`, `NetServerUnloadGame`, `_NetServerStartGame` | a job with its sends, then `FinishBroadcast`, which sets the state |
| `LOADACK_OK`, `LOADACK_ERROR` | `FinishLoadAck`, `FinishLoadError`, after the rebroadcast |
| `_NetServerClientAbort`, and the end of `_NetSocketThread` | `RecvClose`, `FinishAbort`, `FinishGhost` |
| `_NetServerAccept` | `Accept`, the first slot that is not connected |
| `_NetClientSocketRead`: SERVERHELLO, LOADREQ, STARTGAME | `RecvServerHello`, `RecvLoad`, `RecvUnload`, `RecvStartGame` |
| `_MainLoopNetCallback`, `_MainLoopExecuteFile` | `Load`, which keeps the thread of the client busy |
| a player in the browser, or leaving | `ChooseGame`, `Disconnect` |

TCP keeps order and loses nothing while a connection lives. Three constants
separate what the code gets right from what it leaves to luck:

- `Interleave`: whether other threads run while one is in the sends of a
  broadcast. With it, and two games chosen at once, clients can get the two
  requests in different orders and play different games;
- `SlowLoads`: no client acknowledges before the broadcast of the request has
  ended. Otherwise the acknowledgement finds the server's slot not yet LOADING,
  is ignored, and the game never starts;
- `MayFail`: whether a load can fail. With failures and a second game the run
  `late` shows an early start.

A slot that is disconnecting is free for `Accept`, while its thread has not
ended; that thread then invalidates the new connection (`ghost`, `FinishGhost`).
The model follows the broken connection no further: that slot is not taken
again, and its client stays.

### NetSocket

One client, its two sockets and the threads that read them. `NetClientConnect`
and `NetClientDisconnect` are the main loop's; `SocketConnects`, `ConnectFailed`,
`ServerHello`, `ReadFailed` and `ThreadEnds` are the steps of the TCP socket's
thread, `UdpReadFailed` those of a thread whose UDP socket was closed.

`NetClientConnect` waits for no thread and asks nobody whether its sockets were
made. The `Failure`s are those of `socket()`, of bind and of the creation of a
thread: `UdpBind` and `TcpConnect` say what each leaves, and `BeginConnect` that
the client is CONNECTING all the same. So it is when the thread of the last
connection has made the client idle and not yet given its socket back, which is
that thread's last step: nobody connects a socket that is not INVALID, and the
client waits for good. `hindered` records what was in the way when an attempt
began; ConnectSettles says that nothing else is. A reader of the last
connection's UDP socket (`"reader"`) does not hinder the attempt, but may close
the new UDP socket for its own: then the client is connected, and deaf.

### MainLoop

| Code | Model |
|---|---|
| `MainLoopProcess`, to `NetPlayClientInput` | `TakeInput`: a frame's input is taken from the pads or the client |
| the rest of it: `_MainLoopInputProcess`, `ExecuteFrame`, clip | `ExecuteFrame`, with the `Mode` and the `Frame` it executes |
| `_MainLoopExecuteFile`, `_MainLoopUnloadRom` | `Reset`, `UnloadRom`, in `ChooseGame` and the callbacks |
| `_MainLoopNetCallback` | `NetConnected`, `NetDisconnected`, `NetLoadGame`, `NetUnloadGame`, `NetStartGame` |
| `_MainLoopSaveState`, `_MainLoopLoadState`, `RestoreState` | `SaveState`, `LoadState`, `RestoreState` |
| `EmuMovieClip`, the buttons L3 and R3 | `RecordButton` and `PlayButton`, over `RecordBegin`, `PlayBegin`, `Stopped`, `Recorded`, `Played` |

A console is its game and the frames it has executed since the reset, each an
input and a mode; `stream` is what its client has used up. The mode says whether
programs read of the sound what the mixer has made of it, or what is the same on
every console of a net game (`snes.cpp:1089`). A restored state rewinds the
frames to those it was saved after. It does not restore all of a console:
`SnesStateT` has no echo and no noise of the mixers, nothing of the mixer that
makes no sound, and no write that a sound processor ahead of the CPU has still
queued. `stale` says that these may be those of other frames, and MovieReplays
promises the inputs and the state, not the same sound.

A frame is two steps, as its input is taken before it is executed, and the
callbacks come at any time, between the two as well. States are loaded and clips
played whenever the player asks, in a net game, while recording, without a clip,
with the clip of another game: nothing in the code forbids it. The history
`meddled` notes what this does to a clip that plays and to a net game, and the
properties say what holds otherwise. The frame of an old game that a new one
executes is one of the things noted. A clip recorded in a net game is replayed
outside of one, so in the other mode (Replays). A state is saved to a file that
is written, cannot be opened, or is cut short and cannot be read then.

### MainLoopKeys

| Code | Model |
|---|---|
| `InputPoll`, `InputGetPadData`, `InputIsPadConnected` | the same: a pad that is gone leaves what its failed read left, one that was just plugged in is not read yet |
| `_MainLoopInputProcess`: counter and repeat | `Counted`, `Triggered` |
| `_MenuTriggerTimeout` of L2 and R2 | `Begun`, `UsedL2`, `UsedR2`, `Timeouts` |
| keys with L2; L1 and R1 in the menu | `KeyCalls`; `MenuOrGame` |
| `_MainLoopInput`, by pad | `PadsInput`, what the game is given |

A button that is added to one that repeats already repeats at once, as one
counter serves all: PressesAreRight asks only that *such buttons*, together, were
held for their time. `heldFor` and `since` are history variables that count
frames; the code counts in other ways (up and back, and down), and the property
compares. The frame in which the last of the buttons was let go counts, so a
repeat may come a frame early.

### SnesIO

`serial` is the port as the program sees it: words that shift, a strobe. The
console reads it by itself at the end of a picture (`EndPicture`, UpdateJoyPads),
through the same strobe and the same shifts, wherever the program is with its
own reads, and which pads a read shifts depends on the half of the multitap that
is chosen now. History: the input at the last strobe and the bits shifted since.

### Browser

A path is a sequence of names, a file what it held at first. `Input` is the whole
of `CBrowserScreen::Input`: the buttons of one frame act one after the other, so
the list may be left and entered in one call. A list holds the first
`MaxEntries` entries the driver tells, in whatever order, and is sorted
(`Listings`). A file that is pasted over itself is emptied, as the code opens the
destination before it reads. What is copied may fail to be read or written: the
copy is `Part` of the file then, or `Empty`, and nobody is told. The name of a
copy on a memory card is cut, with a number made of the whole name at its end
(PathTruncFileName): `CutName` is any function, so two names may become one, and
a copy may take the place of a file of another name. Files may fail to be
removed, and a `Disc` cannot be written to.

### NetworkScreen

Composes `CNetworkScreen::Input` and `_MainLoopNetworkEvent` with `NetSocket`,
the sockets of the client, and with the server's listening socket and its
thread. `NetworkInput` is one frame's buttons, in the order of the code: the
digit is chosen, then changed, then used. An address is four bytes; its digits go
through GetEditIP, with the carries of groups above 255, and SetEditIP. The
server's thread tells it that it has stopped before it gives the socket back;
what a press in between does (`ServerStart` with a socket that is not INVALID:
another latency, a client that joins nothing) is a behaviour of the model. The
main loop waits neither for that thread nor for those of the client (see
NetSocket).

### SramSave

The checksum is taken after every frame, a change starts a countdown, its end
saves. A save is two steps: the file is opened by the name of the game of that
moment, the RAM is read when the card has answered (`SaveEnds`). The callbacks of
the net client come at any time, between the two as well: `overtaken` says that a
net game was loaded while the save waited, whose RAM then goes into that file. It
is the exception FilesStayApart names. A long name is cut, so that two games may
have one file (`SameName`, `SaveName`).

A save fails without touching the file, or leaves it `Cut` (`SaveFails`); the code
ignores the result and does not try again. `written` is what became of the last
change: lost with a failed save, or unseen, when the checksum is the kept one. It
may be, as a game without a readable file goes on with the checksum of the game
before, and as `SUM_RANGE`, the range of the checksum, may be below that of the
contents. NothingUnsaved is about the other changes.

### SnesPicture, SnesPPU, SNQueue

`SnesPicture` is a PPU that takes every access at once and draws each line when
the CPU comes to it. `SnesPPU` is the code: writes are queued with their line
(`WritePpu`), and `SnesPPU::Sync` takes them and draws what is behind when the
queue is full, the CPU reads (`ReadPpu`), a DMA begins or the picture ends.
PictureSpec is the refinement: `performed` maps to what Sync would make of it
now. One DMA that writes both to a memory's port, which is not queued, and to a
register, which is, is performed out of order: `DmaMixes` TRUE violates it.

### SnesPPUPorts, SnesRender, SnesPixel, SnesRaster

`SnesPPUPorts` is the write port: what each write to 2100 to 2133 does to the
registers, to VRAM, CGRAM and OAM and their addresses, and which flag it sets for
the renderer. `SnesRender` is the renderer's operators, under its names: tiles are
fetched into a buffer (`FetchBG8x8`, `FetchBG16x16`, `FetchBGOffset`), their
patterns into planes with masks (`FetchCHR`), objects into a list of patterns
(`FetchOBJ`), and the layers are drawn over each other with mask arithmetic
(`RenderBG8`, `RenderOBJ8`). A mask is the set of its columns. `SnesRaster` is the
machine: `kept` is what the renderer carries from line to line, with the keys and
flags that tell what to fetch again, and `RenderLine` a line from its fetch to its
blended colours. `SnesPixel` says what one pixel should be with none of that: the
point of every layer that is there, and which is in front by the order that
`snppurender.cpp` gives in a comment (that comment, and the meaning of windows,
mode 7's matrix and the fields of a register, which both share, are the
specification). LinesAreExact compares each pixel of each line.

The renderer is not told of everything. `Fresh` leaves out a BG whose VRAM, fine
scroll, chr base or mosaic changed since it was fetched, and AllFresh an object
order that changed: the code draws these from what it kept (UPDATE_BGCHR is set
and never read), until a scroll or the next frame. In the modes with an offset per
tile the code takes the OR of all offsets for the last tile, which OwnOffset
leaves out. WordsAreTwoBytes says that a DMA of words does what single bytes do.
The end of `SnesRaster` has the pictures: a game sets one up, write by write, and then writes
between lines what could leave something stale. `of...` fields of `kept` are
histories. 256 pixels are 16 here; colours are 8 times their 5 bits, where the
code looks them up in a calibrated table.

### SNSpcIO

CPU and SPC have counters of their own; `SyncSPC` gives the SPC what the CPU has
run, and the SPC executes instructions, choices of length and access, until it
has used that up. A write to a port is queued with its time (`CpuWrite`), taken
when the SPC reads a port after that time (`SpcRead`), flushed when the frame
ends. The register F1 clears ports at once and leaves older writes in the queue,
which then come after the clear: `PoliteClear` FALSE violates PortsInTime. A
`SPCMINCYCLES` above 0 makes the SPC lag, so SpcKeepsUp is proved for the 0 of
the code.

### SnesSignals

The loop of `ExecuteCPU` as a program counter, `point`; the signals as a set; an
instruction is a choice among those that touch a signal (4200, 4210, 4211, 420B,
WAI, the flag I) and others. The line's IRQ is decided when the line begins, as
in the code. `owed` is a history: an NMI is owed when RDNMI and its enable bit
come to be set together. The violated NoDmaWaitsWhenRunning is the assertion in
`ExecuteCPU`: the instruction let through before an NMI may start a DMA.

### SN65816, SN65816Ops, SNCpu

`SN65816` is what the macros of the two interpreters do: access, fetch, jump,
stack, flags, and how the execution is entered and left. `SN65816Ops` is the
instructions, one operator each, and the table of opcodes. The bodies
(`XML/op65816.h`, `XML/op65816_mips.h`) are the same text, generated from one
description: what differs are the macros, and the instructions that
`sncpu_c.c` and `sn65816.S` write by hand. So an instruction is modelled once,
and an operator of `SN65816` asks `who` executes it where the two differ: a
fetch in assembly looks the PC up only when it leaves its page, the program's
bank is a register, memory cycles are those of each byte and not of the first.

| Code | Model |
|---|---|
| the loop of `SNCPUExecute_C`, of `_SNCPUExecute_Loop` | `Step`, for both at once: `CpuExecutes`, `CpuReturns` |
| `SNCPUExecuteOne`, an event that ends the execution | `CpuIsCut`: `Leave`, then `Enter` |
| `SNCPUNMI`, `SNCPUIRQ` | `CpuInterrupted`, between `Leave` and `Enter` |
| `SNCPUSignalIRQ` | `CpuIsSignalled` |

`calls` is a history: what was pushed or called, and the states it was done in.
`CpuStrays` names what programs do on which the code does differ; the run has
none of it, and with any of them one of the three properties fails:

- `index`: XCE into emulation mode with wide X or Y. The registers keep
  their high bytes until the execution is cut, in both;
- `page0`: TCD or PLD in emulation mode. DP holds until a cut clears it;
- `speed`: a program in the upper ROM that writes MEMSEL. In assembly the speed
  of its page is that of before, until it leaves the page;
- `bank`: a PC that runs over the end of a bank goes on in the next in C, and in
  the same in assembly;
- `cop`: COP in emulation mode pushes the bank too, which RTI does not pull, and
  takes the vector of native mode ($FFE4; `sncpudefs.h:19` has $FFF4);
- `reserved`: WDM and STP, a short NOP in C and the end of the execution in
  assembly.

Programs of emulation mode are in bank 0 when they are interrupted, and the stack
is in RAM and does not wrap there: in assembly S is an integer. A register other
than MEMSEL is not written by these programs; what the others do is in the other
modules. The operators were also compared with the two interpreters of the
repository, the one compiled and the other simulated, on 7680 random
instructions in all widths, without difference in registers, memory or cycles.

### SNSpc700, SNSpc

`SNSpc700` is the SPC700's instructions as `snspc_c.c` and the generated
`XML/opspc700_c.h` execute them: one operator for each macro, one for each
instruction, the table of opcodes. Memory is a function that grows as it is
reached; the registers of the page F0 keep a `log` of what was written or read,
and when; what lies behind them is in `SNSpcIO`, `SNSpcTimer` and `SNSpcDsp`, so
a read gives a value that depends on nothing but its time.

| Code | Model |
|---|---|
| the loop of `SNSPCExecute_C` | `Affordable`, `Turn`; `SoundLoop` repeats them |
| `SNSPCExecute` | `SNSPCExecute`, the action `SoundExecutes` |
| `SNSPC_UNPACKFLAGS`, `SNSPC_PACKFLAGS` | `Unpack`, `Pack`: Z and N are a 16-bit result within an execution |
| `done: rPC--` | `SoundLeft`, which also forgets what the interpreter keeps in variables of its own |
| `SNSPCSetRomEnable`, `SaveState`, `RestoreState` | `SNSPCSetRomEnable`, `SoundIsSaved`, `SoundIsRestored` |

An opcode that is not implemented takes a cycle, which is not asked for first.
The flag of the ROM is 1 after a reset and 0x80 when F1 sets it, and
`SNSPCSetRomEnable` compares the two: the first such write after a reset copies
the ROM into `ShadowMem`, which is for the RAM below it. The model has all three
values. Programs that run beyond 64 KB are left out (`over`): the PC is wrapped
only between executions. The operators were also compared with the interpreter
of the repository, compiled, on some 10 000 random programs without difference in
registers, memory, cycles or accesses.

### SNSpcMix

The mixer of `snspcmix.cpp` and the decoder of `snspcbrr.c`, in the arithmetic of
the PS2 build: `OutputEnvelope`, `OutputSample` with `FetchBlock` and
`SNSpcBRRDecode`, `OutputNoise`, `FilterEcho` and `MixEcho` are the functions of
those names, `MixOneChunk` is the body of the loop of `Mix`. The registers are
the values the mixer reads; a voice's `BlockData` has the two samples before the
block and its 16, which is what the code uses of its 32. A frame is mixed by two
mixers that differ in the size of their chunks (`MixChunk`) and nothing else:
SoundIsWhole says that nobody hears it and no program reads it, until a voice has
ended. Afterwards both can tell: the chunk in which a sample ends plays the rest
of its last block, and the next chunk does not (`OutputEnvelope` returns 0 for a
voice without an address), so `parted` marks the frames the property is about.
A voice that is keyed on while it plays takes two samples at its place in the
block into the next; `iPhase` may have passed the block by then, and the code
reads what lies behind it, the state of the next channel (`Beyond`).

### Smaller parts

| Module | Code | Promise, and what it leaves out |
|---|---|---|
| `SNSpcTimer` | `snspctimer.cpp` | a timer that is looked at now and then counts what a clocked one does, through the wrap of the counters; the assumption is that two frames are less than half the range of time |
| `SnesDMA` | `ProcessMDMA` | every byte from its address to its port, in order, in whatever chunks. `Crosses` (over the end of a bank) and `ReadsAlternate` (reads by more than one port) violate it: a chunk starts the ports again |
| `SnesDMA`, its second half | `BeginHDMA`, `ProcessHDMACh` | entries are in force for their lines, for any table without the byte 0x80 (which the code takes for 128 lines without repetition) |
| `SNSpcDsp` | `snspcdsp.cpp`, `snspcmix.cpp` | consoles of a net game read the same registers although their mixers run for different numbers of samples; the samples are those of `SNSpcMix` |
| `SNCpuAdder` | ADC and SBC in `sncpu_c.c` and `sn65816.S` | sums and differences are exact, and both interpreters agree, also on digits above 9 |
| `SnesMemMap` | `snmemmap.cpp`, `snrom.cpp`, 420D | every page of every memory is reached, none beyond its end but for a ROM whose size is no multiple of a bank's part (which is read from the zeroed buffer); a LoROM above 3.5 MB is not reached whole. The speed is that of memsel |

### What is assumed of threads

A thread gives up the processor only where it blocks: in a read,
in a send, in a load, in the card's answer. The socket threads have a higher
priority than the main loop and can also interrupt it elsewhere, within
`NetClientProcess` too, which the semaphore of `netplay_ee.c` does not prevent,
as the socket threads do not take it. In `MainLoop` and `SramSave` the callbacks
do come in between; within `NetClientProcess` they do in no module, and `hazards`
names the places.

## 4. The runs

All instances are the smallest in which the case at hand happens. Element values
differ per player and frame (`DistinctInputs`), so that two inputs are never
equal by chance. In the first `uLatency` frames only neutral inputs are played,
so a run about inputs has a `MaxFrame` above `uLatency`.

| Run | Question | Bounds, and why they are enough |
|---|---|---|
| unordered | Same inputs everywhere, on a network that loses, repeats and reorders? Lockstep, ServiceSpec | 2 clients (each is also its own peer), latency 1, 2 frames, ring of 2 (it wraps), 2 packets on a link (one overtakes another) |
| restart | Does a second game start clean, also when inputs are padded? InductiveInv (TypeOK and IInv) | 2 games, 1 pad, 2 frames each |
| ordered | Is the window bounded, and does a transmit fit its buffer? AheadBounded (WindowBounded and LeadBounded) | 3 frames, so that a client can be 2 * latency ahead; buffer of exactly that; 1 skipped input |
| progress | Does every client play every frame? FramesAdvance | 1 frame, which needs the latency inputs of both and so, after a loss, their retransmission; a packet on each link, any number of them lost |
| overflow (violation) | The same buffer, with a latency above half of it | latency 2, buffer 3 |
| again | Does everybody who plays play the same game? SameGame | 3 slots, 2 games, 3 requests, 1 joins, 2 leave |
| churn | With threads that interleave and loads that fail: is a load settled, does nobody start early, is an abandoned server idle? SessionConsistent (TypeOK and IdleWhenEmpty), EveryoneHasLoaded, LoadSettles | 3 slots, 2 clients and a third that joins, any of them leaves, 1 request |
| late (violation) | The same early start, after a load that failed | 2 clients, 2 requests, nobody joins or leaves |
| console | Does each part of the console give what doing it at once would? ConsoleTypeOK, PictureSpec, SpcAnswers, TimerIsExact, DmaDelivers, HdmaFollowsTable, ProgramsReadTheSame, NetFramesShared, MovieReplays, ArithmeticIsExact, CartridgeIsMapped, InterpretersAgree, ExecutionsResume, ReturnsBalance | `which` says the part that runs. Queues of 2 (full, and emptied in part); a picture of 2 lines of 4; a frame of 5 cycles with SPC instructions of 3; a time that wraps at 16; DMA of two channels, chunks of 4 in banks of 8; any HDMA table of 4 bytes; two consoles with one voice; digits on both sides of every carry; ROMs from 8 KB to 4 MB; one game, clips of 2 frames, states saved to a file before the first frame (a clip's state may be a later one); any of the 256 opcodes in every width with one of four operands, then one of those that change the mode, the bank or the index, with calls, pushes and interrupts nested to a depth of 2 and a cut anywhere; any of the 256 opcodes of the sound processor from two states and with two pairs of operands, then one of six others, executed twice for 60 or 170 cycles (most instructions are cut short by the one or the other) and saved and restored in between. SpcAnswers is SpcKeepsUp and PortsInTime, ExecutionsResume is CutsAreInvisible of `SNCpu` and CatchUpsAreInvisible of `SNSpc`, CartridgeIsMapped MapIsComplete and SpeedIsMemsel of `SnesMemMap` |
| machine | Do the small machines end, and answer? EncodingIsExact (RoundTrip and BuffersFit), LoopsAreClosed, NmiOncePerEdge, PictureIsRight, SoundIsWhole, SignalsEnd (DmaCompletes and WaitEnds), FilesStayApart, NothingUnsaved, ConnectSettles | packets of up to 6 elements of 3 values; a ring of 3 and packets of up to 3 that begin in its first lap or the second; lines of 2 parts of 2 cycles, frames of 3 lines, a DMA longer than a line; 3 games with RAM, two of which have one file; 2 closed sockets; five pictures, one of each kind of mode, each set up by the writes a game would make (some 350), with lines of 16 pixels (two tiles, so that a fine scroll shows a third), 3 lines, 4 objects of which 3 fit on a line and 3 of their patterns, and any 2 writes of a list between lines; two voices with three frames of 10 samples, cut into chunks of 4 and of 10, a sample that ends and one that repeats, and 2 changes of a list between frames, of a voice that plays from the beginning |
| player | Does the player get what the player does? ButtonsAreReal (NoPhantomButtons and MenuNeedsBoth), PressesAreRight, JoypadsAreRight (SerialIsThePad and JoyIsThePad), ListIsRight (SelectionIsShown and ListingIsTrue), FilesAreKept, ScreenIsTrue (EditingIsIdle and ServerHasSocket), ConnectsToShown | `device` says which part runs. Two pads without multitap of the 5, that come and go; eight ways to hold buttons on the first, with every key alone and together; a repeat after 3 frames (with 2, a press and its repeat are too close to tell a wrong count) and a timeout of 2; frames without pads, with two, and with a full multitap, 2 reads by the program between a strobe and the 16 of an automatic read, or after those; three drives, a memory card, another that can be written to and a disc, a directory, and two files whose names a card cuts to the same, 2 lines on the screen, lists of 2 (one less than the drives) and 2 buttons at a time; one digit that changes through 0 to 9, hundreds, so that its group is above and below 255, the own address 10.0.0.7, one latency (no property is about it), 2 buttons at a time |
| dma_pending (violation) | Does a DMA wait when the interpreter is called? NoDmaWaitsWhenRunning | as `machine` |

`console`, `machine` and `player` hold several modules, each of which moves while
the others stay where they begin: nothing is composed there that the code does not
compose, and a step of one is a step of that module alone.

Deadlock is checked in `console`, `machine` and `player` (a packet that is decoded
stutters there). Everywhere else the system does stop, at a bound.

`overflow`, `late` and `dma_pending` are listed as findings. In `overflow` a client that is
twice the latency ahead of what it has been acknowledged fetches more than
`Elements[64]` holds: `NetQueueFetchRange` computes the bound of its comment and
does not use it. The menu has no upper bound for the latency. In `late` one
client fails to load the first game, which is given up, while another is still
loading it; a second game is requested, and the other's acknowledgement, which
names no game, is counted for that.

### Fairness

`progress` uses `FairSpec` of NetLockstep. The main loop is called for every
vertical blank and a thread returns from its send (WF). A link over which
packets keep being sent delivers one again and again (SF): a network that loses
everything is no network. STARTGAME comes by TCP (WF). The player is never
obliged to anything, and the menu is not entered. `churn` uses that of
NetSession: threads of the server and of the clients that can run do. Nobody has
to choose, join or leave. `machine` has that of its parts: the console core is
executed frame after frame (`SignalFairness`), the main loop goes on and the card
answers (`SramFairness`), a thread that is not blocked runs (`SocketFairness`).

## 5. The proofs

All theorems are for every value of the constants of their module (any set of
clients, ring size, latency, set of throttles, ordered networks and others), under
the named assumptions of the modules. Those that rest on `IInv` assume `DrainOnLoad`, and say so.

**NetLockstep_proofs.** `Invariant` proves `IInv`, with `DrainOnLoad`; with
`TypeCorrect` it is `InductiveInvHolds`. Lockstep
itself is not inductive, as it says nothing of queues and packets. `IInv` ties
each to the history `sent`:

- an output queue ends where `sent` does, and its last `NETQUEUE_SIZE` slots hold
  the end of `sent`, *also those the head has passed* (OutputInv). The weaker and
  obvious statement, about what the queue holds, is not inductive: a packet that
  was overtaken moves the head back;
- an input queue starts at the client's frame and holds a piece of the peer's
  `sent` (InputInv);
- a packet is a piece of its sender's `sent`, and acknowledges no more than its
  sender has (PacketInv). AckedIsDelivered is the part that makes the head's
  return harmless: it never moves before what the receiver already has;
- `played` is `sent`, frame by frame (PlayedInv);
- a client that is not in the latest game has nothing of it (GameInv).

From it follow `LockstepHolds`, `AckedIsDeliveredHolds` and
`ImplementsSharedInput`, the refinement: STARTGAME maps to Restart, a frame and a
stall to a Turn, everything else to a stutter. `TypeCorrect` stands on its own.

`AheadBoundedHolds` joins `LeadBoundedHolds` and `WindowBoundedHolds`, which need
that no throttle pads (`NeverPads`) and follow from IInv and PaceInv: a client
has sent its frames and the latency, no more; a peer has received what it has
played; and a client plays no frame the peer has not sent an input for.
`CountNonNegativeHolds` needs nothing, not even draining: it is what is left when
packets of another game are believed.

**NetQueue_proofs** has the lemmas about the ring: what the operators do to the
cursors and the slots, that an enqueued sequence is read back, that no two of
`NETQUEUE_SIZE` consecutive positions share a slot.

**NetInput_proofs.** `EncodingIsExactHolds`, from `LoopInv`:
`starts` records where each pair's run begins, so the pairs are the runs of the
data up to the position reached (EncodeInv), and what is decoded is what stands
before the next pair (DecodeInv). `LoopsAreClosedHolds`: the loops over the ring
agree with the closed forms, for every size of the ring. The invariant says what
a loop has done so far: the queue is that of the closed form after as many
elements, and the elements fetched are those of the positions passed.

**NetSession_proofs.** `SessionConsistentHolds` proves SessionInv, with the types
and IdleWhenEmpty, for any number of slots and all values of the constants: what
the messages on a link, the job of a server's thread and the state of the client
at the other end may be together. A thread that is about to send is in a slot
that is attended; a message has a client to read it; a client that is not
connected has no link.

`EveryoneHasLoadedHolds` allows threads to interleave and loads to fail, and
assumes `MaxRequests = 1`: an acknowledgement names no game, so with a second
request one of the game before is counted (run `late`). The property is about a
fixed set of clients, and so is OneLoad: the one request is to be made, to be
read, being told, or in the past; a client is told once, answers after that, and
is counted as loaded only then; and once somebody has failed, somebody can never
be counted again, so that the game never starts (SomebodyFailed).

**MainLoop_proofs.** `MainInvariant` proves LoopTypeOK, NetInv and ClipInv, for
any games, inputs and bounds, and with callbacks, restored states and clips at any
time: nothing is assumed beyond the module's own. NetFramesShared needs NetInv,
which says of the moment between the two steps of a frame that the input taken is
the one the console still lacks, and of a game that has loaded that a frame begun
before is not executed by it; MovieReplays needs ClipInv, which ties a clip's
frames to the consoles they were recorded from, whatever was done to them since.
`NetFramesSharedHolds` and `MovieReplaysHolds` follow. The rest of the module is about what the player has
in hand, from the specifications of the single modules (KeysSpec, IOSpec,
BrowserSpec, NetworkSpec), of which run `player` takes one at a time:

- *Pads and keys.* `KeysAreHeld`, with it `ButtonsAreRealHolds`, and
  `PressesAreRightHolds`, for any number of pads, buttons and delays. PadsInv says
  that what is given out of a pad is what is held on it, and that a pad that is
  taken for connected is there; CountInv ties
  the counters of the code to the histories: a timeout that runs is what is left
  of it since its button, and `repeat` lags behind `heldFor` by at most the frame
  in which a button was let go.
- *Joypads.* `JoypadsAreThePads`, for any inputs and any order of reads: bit b of
  a word is bit b less the number of shifts of what was latched (SerialShows), as
  long as it is of the 16 there are, and the automatic read leaves a port of
  which the same is true.
- *Files.* `FilesAreKeptHolds`, for any way of cutting names and with copies and
  removals that fail: it needs that the directory is a path, so that the last name
  of what is pasted is that of the file copied, or what a card cuts it to.
  `ListIsRightHolds`
  is an invariant of views (ListInv), for any tree, any
  size of the list and a screen of two lines or more: what a step shows is a list
  of the files as they are after the step, with the selection on it.
- *Network.* `ScreenIsTrueHolds`: no thread of a client
  makes an idle one anything else, and a server that starts, or accepts, has its
  socket. `AddressIsShown` is for all twelve digits: where every group is a byte
  nothing is carried, and the digits of a byte are the ones it was made from.

**SnesConsole_proofs** has three parts.

*Picture.* `PpuInvariant`: the PPU is never ahead, and its queue holds
no write of a line the CPU has not come to. With it every step maps to a step of
`SnesPicture` or a stutter (`ImplementsPicture`, assuming `~DmaMixes`): that a
line is drawn after exactly the writes before it is a matter of CountBefore, the
part of the queue that is older than the line, and of what EndLine adds to none.

*Memory map.* `CartridgeIsMappedHolds`, for every cartridge: any mapping, any
multiple of 8 KB up to the buffer, any SRAM that a header can give. A page shows
the memory of the *last* line of the table that covers it (the loop writes over
what it wrote), so the lemmas say of each bank which line that is, and of each
page which part of its memory the line leads to, when a line has room for more
than there is and repeats it. Where a size is no multiple of a bank's part, the
last bank is still there, its end beyond the ROM but inside the buffer: this needs
that the buffer is a multiple of 64 KB, as the 4 MB of `mainloop.cpp:168` are.
MemMapInv says that the ROM in the slot is one that LoadRom makes, and that its
speed is the one its game asked for last.

*ADC and SBC.* `ArithmeticIsExactHolds`, for all pairs of operands of 8 and of 16
bits, in binary and decimal, with either carry: the interpreters agree on all of
them, and are exact on all that are numbers in the mode. DecimalInv is only that
the inputs are in range and that the results are those of the operators; the work
is in the lemmas. In decimal, one is about one digit: with a correction or
without, it leaves a digit and a carry that are what the sum of two digits and a
carry is, whatever the digits below are. They are put together digit by digit, as
the code does. A difference goes through the sum
with the complement, and the register in which it is built wraps (CarryInverts),
for every width of that register that AdderAssumption admits.
InterpretersSubtract says that the two ways the interpreters take to a difference
are one.

**SNQueue_proofs** has the lemmas about the queue of writes: what is pending, what
enqueueing and dequeueing do to it, that CountBefore takes a prefix of a queue in
order; that a property of naturals that fails somewhere fails somewhere first,
which is the form of induction used here; and what there is to say of quotients
and remainders.

**SnesCore_proofs** has one section for each part of the console that catches up
with the CPU.

- *Clocks and ports of the sound processor.* `SpcClocksHold` proves SpcTimeInv, and
  `SpcKeepsUpHolds` follows. `PortsInTimeHolds` needs PortsInv: `log`, the history
  of writes, is what the ports have come to (Reached) and what is on its way to
  them; the queue is in order; nothing on its way is older than what a port has.
  It is not inductive without the moments between (QueueInv): a queue that
  SyncSPC found no time for is empty, and while the CPU does not wait for the SPC,
  it is past everything it has queued. The two together are
  `SpcAnswersHold`. All assume the `SPCMINCYCLES = 0` of the
  code; those about the ports also `PoliteClear`: a program that clears a port over a write
  that is still due sees that write afterwards.
- *Timers.* `TimerIsExactHolds`. TimerInv: the clocked timer is where this one will
  be once it has counted what is due; and what it has not seen is no more than a
  frame, without which the difference of two times that wrapped is ambiguous. The
  arithmetic is in lemmas on quotients and remainders.
- *HDMA.* `HdmaFollowsTableHolds`, for every table without the byte 0x80, of any
  size: HdmaInv derives the
  pointers and the counter of lines from the entry in force and what is left of
  it, also when the pointers wrap.
- *DMA.* `DmaDeliversHolds` assumes `~Crosses` and `~ReadsAlternate`, the values of
  run `console`: beyond them the code loses its place (section 3). DmaInv adds to
  the property where each channel's registers stand for the number of bytes it
  has delivered, and that this number is a multiple of the period of its ports
  whenever a chunk ends.
- *Battery-backed RAM.* `FilesStayApartHolds`, with callbacks at any time, saves
  that fail and names that are cut; nothing is assumed beyond the module's own.
  SramInv says that a save that waits goes by the name of the game whose RAM will
  be read, unless it was overtaken.
- *Registers of the sound generator.* `ProgramsReadTheSameHolds`. How much of its
  queue each mixer has taken differs from console to console, so the registers
  do too; DspInv says that they will be the same once what waits is written
  (Settle). What a mixer finds of its voices never reaches the registers in a net
  game (MixSettles). It rests on WriteInTwo: to write a queue in two parts is to
  write it at once. Nothing is assumed beyond the module's own.
- *Signals.* `SignalsAgree` proves SignalInv and the type invariant,
  `NmiOncePerEdgeHolds` follows. Nothing is assumed beyond the module's own.

**Only model-checked.** Liveness (FramesAdvance, LoadSettles, SignalsEnd,
 NothingUnsaved, ConnectSettles), which is out of the prover's reach. SameGame is
checked for the bounds of run `again` only.
PictureIsRight and SoundIsWhole are about folds over pixels and samples, what they
compute for every input being a matter of induction over data. InterpretersAgree,
ExecutionsResume and ReturnsBalance are about instruction sets whose modules
take bits apart with Bitwise, which no module with a proof can use: in `console`
the instructions are taken one by one, for all opcodes and the bounds of section
4. ConsoleTypeOK joins the types and invariants of the modules that this run holds,
and reaches the same modules; PpuInv, SpcTimeInv, LoopTypeOK, NetInv and ClipInv,
which it has in it, are proved each by itself.

## 6. Not modelled

Besides the parts marked "no" above: formatting, logging and statistics; the
contents of a ROM; wall-clock time; text, ping and pong; the addresses by which
a packet finds its peer, and packets from strangers; versions that differ; the
Windows relay; the clients of a server that is stopped (the sessions of
`NetSession` end by their clients); the screens of the log and of the
installation, and all drawing; the disks of the other console; the registers that
multiply and divide; the DSP-1; what a state file that was cut short leaves of
two states in memory, and the sound of a console that goes on from a restored
one (`stale`);
the SPC700 interpreter in assembly, which is generated and not in the build;
the position of an H-IRQ within a line; the mixer that makes no sound, which the
main loop never selects; how far the transfer of a line to the graphics chip has
come when the next one is blended.
