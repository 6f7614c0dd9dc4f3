------------------------------ MODULE MainLoop ------------------------------
(***************************************************************************)
(* The frames a console executes (mainloop.cpp: MainLoopProcess,           *)
(* _MainLoopInputProcess, states, _MainLoopNetCallback; netplay_ee.c:      *)
(* NetPlayClientInput; emumovie.cpp).  A frame takes its input from the    *)
(* netplay client, from a movie clip or from the pads, and is executed     *)
(* unless the netplay client pauses.  What SnesStateT holds of a console   *)
(* (snstate.h) is what the frames since its reset made of it, their inputs *)
(* and their modes; their number is m_uFrame.  A restored state rewinds    *)
(* them, but not what SnesStateT leaves out: the echo and the noise of the *)
(* mixer that is heard, the silent mixer, and writes that a sound          *)
(* processor which is ahead has still queued.  stale says so of a console. *)
(* The callbacks of the netplay client run on its own thread, also within  *)
(* a frame.                                                                *)
(***************************************************************************)
EXTENDS Naturals, Sequences

CONSTANTS
  MovieGame,     \* the games
  PadInput,      \* what the pads of a frame may give
  CLIP_FRAMES,   \* m_uMaxFrames, which a clip has room for
  MaxInputs,     \* bound: frames since the reset, and those a client gives
  MaxSaved       \* bound: frames of a state that is saved to its file

ASSUME MainLoopAssumption ==
  CLIP_FRAMES \in Nat \ {0} /\ MaxInputs \in Nat /\ MaxSaved \in Nat

ASSUME MovieGameAssumption == {"none", "no state"} \cap MovieGame = {}

VARIABLES
  console,       \* the game of _pSystem and the frames it has executed
  stale,         \* whether what SnesStateT leaves out may be that of other frames:
                 \* a state was restored since its reset
  loopMenu,      \* _bMenu
  stateFile,     \* the state each game's file holds
  snesState,     \* _SnesState, if _bStateSaved: the last state saved or loaded since
                 \* a game was unloaded
  client,        \* of NetClientT: eStatus, eGameState, uFrame; and whether the
                 \* LOADREQ of a game that loads was acknowledged
  stream,        \* history: the frames the client has given in this net game
  clip,          \* s_pMovieClip
  recorded,      \* history: the console before the recording and after each of its
                 \* frames; << >>: a state was restored in between
  taken,         \* what NetPlayClientInput has given for this frame; NoInput:
                 \* the main loop is not within a frame
  meddled        \* history: whether something else than their own frames has
                 \* changed the clip that is "playing" and the "net" game

movieVars == <<loopMenu, stateFile, snesState>>
netVars == <<client, stream>>
loopVars == <<console, stale, movieVars, netVars, clip, recorded, taken, meddled>>

NoGame == [game |-> "none", executed |-> << >>]
NoState == [game |-> "no state", executed |-> << >>]
NoInput == [eGameState |-> "none"]
NoClip == [state |-> NoState, frames |-> << >>, recording |-> FALSE,
           playing |-> FALSE, playFrame |-> 0]

LoopInit ==
  /\ console = NoGame /\ stale = FALSE
  /\ loopMenu = TRUE
  /\ stateFile = [g \in MovieGame |-> NoState] /\ snesState = NoState
  /\ client = [eStatus |-> "IDLE", eGameState |-> "IDLE", uFrame |-> 0, acked |-> FALSE]
  /\ stream = << >>
  /\ clip = NoClip /\ recorded = << >>
  /\ taken = NoInput /\ meddled = {}

Loaded == console # NoGame
GetFrame == Len(console.executed)
Connected == client.eStatus = "CONNECTED"
Between == taken = NoInput

\* What there is to meddle with, and what is still under way then.
UnderWay == (IF clip.playing THEN {"playing"} ELSE {}) \cup (IF Connected THEN {"net"} ELSE {})
Marked(marks) == meddled' = {w \in marks : w = "playing" => clip'.playing}

-----------------------------------------------------------------------------
\* RecordEnd and PlayEnd; nothing reads m_uPlayFrame of a clip that does not play.
Stopped == [clip EXCEPT !.recording = FALSE, !.playing = FALSE, !.playFrame = 0]

\* _MainLoopUnloadRom and _MainLoopExecuteFile, which stop the clip and forget the
\* state; a Reset begins with frame 0.
UnloadRom(next) ==
  /\ console' = next /\ snesState' = NoState
  /\ stale' = (stale /\ next = NoGame)
  /\ clip' = Stopped

\* Faulty: the console goes on counting frames.
ResetCounting(game) == [game |-> game, executed |-> console.executed]
Reset(game) == [game |-> game, executed |-> << >>]

\* RestoreState, of SnesSystem, whatever game the state is of.
RestoreState(state) ==
  /\ console' = [console EXCEPT !.executed = state.executed]
  /\ stale' = TRUE

-----------------------------------------------------------------------------
\* The player.  In the browser a game is loaded, or requested from the server.
ChooseGame(game) ==
  /\ Between /\ loopMenu /\ ~Connected
  /\ \/ UnloadRom(Reset(game)) /\ loopMenu' = FALSE
     \/ UnloadRom(NoGame) /\ UNCHANGED loopMenu
  /\ Marked(meddled)
  /\ UNCHANGED <<stateFile, netVars, recorded, taken>>

ToggleMenu ==
  /\ Between
  /\ loopMenu' = ~loopMenu
  /\ UNCHANGED <<console, stale, stateFile, snesState, netVars, clip, recorded, taken, meddled>>

\* _MainLoopSaveState, to a file that is written, cannot be opened, or is cut short,
\* which can then not be read.
SaveState ==
  /\ Between /\ Loaded /\ GetFrame <= MaxSaved
  /\ snesState' = console
  /\ \/ \E file \in {console, NoState} : stateFile' = [stateFile EXCEPT ![console.game] = file]
     \/ UNCHANGED stateFile
  /\ UNCHANGED <<console, stale, loopMenu, netVars, clip, recorded, taken, meddled>>

\* _MainLoopLoadState, from the file of the game, or else the last state.  It asks
\* neither for a clip nor for a net game; while the file is read, a callback may have
\* loaded another game, which then gets the state.
LoadState ==
  /\ Between /\ Loaded
  /\ \E game \in (IF Connected THEN MovieGame ELSE {console.game}) :
       snesState' \in {stateFile[game], snesState} \ {NoState}
  /\ RestoreState(snesState')
  /\ recorded' = IF clip.recording THEN << >> ELSE recorded
  /\ meddled' = meddled \cup UnderWay
  /\ UNCHANGED <<loopMenu, stateFile, netVars, clip, taken>>

RecordBegin == [NoClip EXCEPT !.state = console, !.recording = TRUE]

\* A clip without a state has none to restore.
PlayBegin ==
  /\ clip' = [Stopped EXCEPT !.playing = TRUE]
  /\ IF clip.state = NoState THEN UNCHANGED <<console, stale>> ELSE RestoreState(clip.state)

\* L3: a clip is ended, or a recording begun.
RecordButton ==
  /\ Between
  /\ IF clip.recording \/ clip.playing
     THEN clip' = Stopped /\ UNCHANGED recorded
     ELSE /\ Loaded
          /\ clip' = RecordBegin
          /\ recorded' = <<console>>
  /\ Marked(meddled)
  /\ UNCHANGED <<console, stale, movieVars, netVars, taken>>

\* R3: a clip is ended, and played from its beginning: its state is restored, to
\* whatever game is loaded, if there is one.  Nobody asks whether there is a clip
\* (emumovie.cpp:94 asserts it: it has no frames, then, and the next one ends it),
\* whose game it is of, and whether the console is in a net game.
PlayButton ==
  /\ Between /\ Loaded
  /\ PlayBegin
  /\ meddled' = (meddled \ {"playing"})
       \cup (IF clip.state.game = console.game /\ ~Connected THEN {} ELSE {"playing"})
       \cup (IF Connected THEN {"net"} ELSE {})
  /\ UNCHANGED <<movieVars, netVars, recorded, taken>>

-----------------------------------------------------------------------------
\* eMode, of a frame that is executed: only in a net game is what the programs read
\* of the sound independent of the mixers (snes.cpp:1089).
Accurate(input, mode) ==   \* Faulty: in a net game, too.
  [input |-> input, eMode |-> "ACCURATENONDETERMINISTIC"]
Frame(input, mode) ==
  [input |-> input, eMode |-> IF mode = "IDLE" THEN "ACCURATENONDETERMINISTIC"
                              ELSE "INACCURATEDETERMINISTIC"]

\* A frame begins: the pads are read, and NetPlayClientInput is called.  The
\* client has the input of every peer or not; what it gives is used up.
TakeInput(pad, ready) ==
  /\ Between /\ ~loopMenu /\ Loaded /\ GetFrame < MaxInputs /\ Len(stream) < MaxInputs
  /\ LET play == Connected /\ client.eGameState = "PLAY" /\ ready
         mode == IF ~Connected THEN "IDLE" ELSE IF play THEN "PLAY" ELSE "PAUSE"
     IN /\ taken' = [eGameState |-> mode, uFrame |-> client.uFrame + 1, input |-> pad]
        /\ client' = IF play THEN [client EXCEPT !.uFrame = @ + 1] ELSE client
        /\ stream' = IF play THEN Append(stream, Frame(pad, "PLAY")) ELSE stream
  /\ UNCHANGED <<console, stale, movieVars, clip, recorded, meddled>>

\* The frame of the console has to be that of the client.
Mode == IF taken.eGameState = "PLAY" /\ GetFrame + 1 # taken.uFrame
        THEN "PAUSE" ELSE taken.eGameState

\* PlayFrame, outside of a net game, and PlayEnd when the clip is through.
Plays == taken.eGameState # "PLAY" /\ clip.playing
PlayGoesOn == Plays /\ clip.playFrame < Len(clip.frames)
FrameInput == IF PlayGoesOn THEN clip.frames[clip.playFrame + 1] ELSE taken.input
Played == IF PlayGoesOn THEN [clip EXCEPT !.playFrame = @ + 1]
          ELSE [clip EXCEPT !.playing = @ /\ ~Plays,
                           !.playFrame = IF Plays THEN 0 ELSE @]

\* Outside of PAUSE, and unless the game was taken from the frame.
Executes == Mode # "PAUSE" /\ Loaded

\* Faulty: frames that are not executed are recorded too.
RecordsPaused == clip.recording
\* RecordFrame, for a frame that is executed, and RecordEnd when there is no room.
Records == clip.recording /\ Executes
Recorded(c) ==
  IF ~Records THEN c
  ELSE IF Len(c.frames) < CLIP_FRAMES THEN [c EXCEPT !.frames = Append(@, FrameInput)]
  ELSE [c EXCEPT !.recording = FALSE]

AfterFrame(c, frame) == [c EXCEPT !.executed = Append(@, frame)]

ExecuteFrame ==
  /\ ~Between
  /\ clip' = Recorded(Played)
  /\ console' = IF Executes THEN AfterFrame(console, Frame(FrameInput, Mode)) ELSE console
  /\ recorded' = IF recorded # << >> /\ Len(clip'.frames) > Len(clip.frames)
                 THEN Append(recorded, console') ELSE recorded
  /\ Marked(meddled)
  /\ taken' = NoInput
  /\ UNCHANGED <<stale, movieVars, netVars>>

-----------------------------------------------------------------------------
\* The thread of the client's TCP socket, which may come within a frame.
NetConnected ==
  /\ ~Connected
  /\ client' = [client EXCEPT !.eStatus = "CONNECTED"]
  /\ meddled' = meddled \cup (UnderWay \cap {"playing"})
  /\ UNCHANGED <<console, stale, movieVars, stream, clip, recorded, taken>>

\* A client that does not play: STARTGAME resets its uFrame, and nothing reads it before.
OutOfGame(eGameState, acked) ==
  [client EXCEPT !.eGameState = eGameState, !.uFrame = 0, !.acked = acked]

NetDisconnected ==
  /\ Connected
  /\ client' = [OutOfGame("IDLE", FALSE) EXCEPT !.eStatus = "IDLE"]
  /\ stream' = << >> /\ meddled' = meddled \ {"net"}
  /\ UNCHANGED <<console, stale, movieVars, clip, recorded, taken>>

\* A game that is not found leaves the old one, one that cannot be read does not.
NetLoadGame(game) ==
  /\ Connected
  /\ \/ UnloadRom(Reset(game)) /\ client' = OutOfGame("LOADING", TRUE)
     \/ /\ UnloadRom(NoGame) \/ UNCHANGED <<console, stale, snesState, clip>>
        /\ client' = OutOfGame("LOADING", FALSE)
  /\ Marked(IF Between THEN meddled \ {"net"} ELSE meddled \cup {"net"})
  /\ stream' = << >>
  /\ UNCHANGED <<loopMenu, stateFile, recorded, taken>>

NetUnloadGame ==
  /\ Connected
  /\ UnloadRom(NoGame)
  /\ client' = OutOfGame("IDLE", FALSE)
  /\ stream' = << >> /\ Marked(meddled)
  /\ UNCHANGED <<loopMenu, stateFile, recorded, taken>>

\* STARTGAME, which the server sends when everybody has acknowledged.
NetStartGame ==
  /\ Connected
  /\ client.eGameState = "LOADING" /\ client.acked
  /\ client' = [client EXCEPT !.eGameState = "PLAY", !.uFrame = 0, !.acked = FALSE]
  /\ stream' = << >>
  /\ loopMenu' = FALSE
  /\ UNCHANGED <<console, stale, stateFile, snesState, clip, recorded, taken, meddled>>

LoopNext ==
  \/ \E game \in MovieGame : ChooseGame(game) \/ NetLoadGame(game)
  \/ ToggleMenu \/ SaveState \/ LoadState \/ RecordButton \/ PlayButton
  \/ \E pad \in PadInput, ready \in BOOLEAN : TakeInput(pad, ready)
  \/ ExecuteFrame
  \/ NetConnected \/ NetDisconnected \/ NetUnloadGame \/ NetStartGame

LoopSpec == LoopInit /\ [][LoopNext]_loopVars

-----------------------------------------------------------------------------
\* What a console with a game holds.
Frames == [input : PadInput, eMode : {"ACCURATENONDETERMINISTIC", "INACCURATEDETERMINISTIC"}]
Held == [game : MovieGame, executed : Seq(Frames)]

LoopTypeOK ==
  /\ console \in Held \cup {NoGame} /\ stale \in BOOLEAN
  /\ loopMenu \in BOOLEAN
  /\ stateFile \in [MovieGame -> Held \cup {NoState}] /\ snesState \in Held \cup {NoState}
  /\ client \in [eStatus : {"IDLE", "CONNECTED"}, eGameState : {"IDLE", "LOADING", "PLAY"},
                 uFrame : Nat, acked : BOOLEAN]
  /\ stream \in Seq(Frames)
  /\ clip \in [state : Held \cup {NoState}, frames : Seq(PadInput),
               recording : BOOLEAN, playing : BOOLEAN, playFrame : Nat]
  /\ Len(clip.frames) <= CLIP_FRAMES /\ clip.playFrame <= Len(clip.frames)
  /\ ~(clip.recording /\ clip.playing)
  /\ recorded \in Seq(Held)
  /\ taken \in {NoInput} \cup [eGameState : {"IDLE", "PLAY", "PAUSE"}, uFrame : Nat,
                               input : PadInput]
  /\ meddled \subseteq {"playing", "net"}

\* What a frame was given, and what the console still has to execute of it.
NetInv ==
  /\ ~Connected => client.eGameState = "IDLE"
  /\ "net" \notin meddled =>
       /\ client.eGameState = "LOADING" /\ client.acked =>
            /\ Loaded /\ console.executed = << >> /\ ~stale
            /\ ~Between => taken.eGameState = "PAUSE"
       /\ client.eGameState = "PLAY" =>
            /\ Loaded /\ ~stale
            /\ client.uFrame = Len(stream)
            /\ \A i \in 1 .. Len(stream) : stream[i].eMode = "INACCURATEDETERMINISTIC"
            /\ ~Between => taken.eGameState \in {"PLAY", "PAUSE"}
            /\ IF ~Between /\ taken.eGameState = "PLAY"
               THEN /\ stream = Append(console.executed, Frame(taken.input, "PLAY"))
                    /\ taken.uFrame = client.uFrame
               ELSE stream = console.executed

\* A console that replays another: the same inputs, and no frame in the mode of a
\* net game that was not in it before.
Replays(c, d) ==
  /\ c.game = d.game /\ Len(c.executed) = Len(d.executed)
  /\ \A i \in 1 .. Len(c.executed) :
       /\ c.executed[i].input = d.executed[i].input
       /\ c.executed[i].eMode \in {d.executed[i].eMode, "ACCURATENONDETERMINISTIC"}

\* What the frames of a clip make of its state, and where in it the console is.
ClipInv ==
  /\ clip.recording => Loaded
  /\ recorded # << >> =>
       /\ Len(recorded) = Len(clip.frames) + 1
       /\ clip.state # NoState /\ recorded[1] = clip.state
       /\ \A i \in 1 .. Len(clip.frames) : \E mode \in {"IDLE", "PLAY"} :
            recorded[i + 1] = AfterFrame(recorded[i], Frame(clip.frames[i], mode))
       /\ clip.recording => console = recorded[Len(recorded)]
  /\ clip.playing /\ "playing" \notin meddled =>
       /\ ~Connected /\ Loaded /\ (~Between => taken.eGameState = "IDLE")
       /\ recorded # << >> => Replays(console, recorded[clip.playFrame + 1])

\* In a net game the console has executed exactly the frames its client has used
\* up since the game began, no other, and each in the mode that leaves the mixers
\* out: consoles whose clients are in lockstep hold the same, and no frame is
\* dropped.  It holds also with callbacks that come within a frame, unless one of
\* them loaded the game (that frame is the old game's and the new one executes it)
\* or the player has restored a state or played a clip: nothing forbids it.
NetFramesShared ==
  Connected /\ client.eGameState = "PLAY" /\ Between /\ "net" \notin meddled =>
    /\ console.executed = stream /\ GetFrame = client.uFrame /\ ~stale
    /\ \A i \in 1 .. GetFrame : console.executed[i].eMode = "INACCURATEDETERMINISTIC"

\* A clip that is played takes the console, frame by frame, through the inputs it
\* had executed when the clip was recorded, after the state it had then, also one
\* that was recorded in a net game or with callbacks within its frames, with the
\* menu opened and states saved in between, and after other games; unless a state
\* was restored while it was recorded or played, another game is loaded, or the
\* client was connected while it was played (then frames that are not executed
\* use the clip up).  The modes are those of the recording or, for a clip of a net
\* game, the other one, and what SnesStateT leaves out is not restored: the same
\* inputs after the same state are what it promises, not the same sound.
MovieReplays ==
  clip.playing /\ "playing" \notin meddled /\ recorded # << >> /\ Between =>
    Replays(console, recorded[clip.playFrame + 1])
=============================================================================
