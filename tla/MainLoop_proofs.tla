--------------------------- MODULE MainLoop_proofs ---------------------------
(***************************************************************************)
(* For all games, inputs and lengths of clips, and wherever the callbacks  *)
(* of the netplay client come: a net game's console executes the frames of *)
(* its client, each once and in order, and a clip replays the inputs it    *)
(* recorded, unless the history says that it was meddled with.             *)
(* For all pads, keys and delays: the buttons the main loop acts on are    *)
(* held, a press is one that was not held or one that repeats, and what    *)
(* the emulated console reads of a joypad is the pad at the strobe.        *)
(* For all addresses: a client goes to the one the player has entered, and *)
(* was idle until then.  For all files: the list shows them, and what is   *)
(* selected is on it; no file is lost but by the player.                   *)
(***************************************************************************)
EXTENDS MainLoop, MainLoopKeys, SnesIO, Browser, NetworkScreen, TLAPS

MainInv == LoopTypeOK /\ NetInv /\ ClipInv

Clips == [state : Held \cup {NoState}, frames : Seq(PadInput),
          recording : BOOLEAN, playing : BOOLEAN, playFrame : Nat]
Clients == [eStatus : {"IDLE", "CONNECTED"}, eGameState : {"IDLE", "LOADING", "PLAY"},
            uFrame : Nat, acked : BOOLEAN]
Takens == [eGameState : {"IDLE", "PLAY", "PAUSE"}, uFrame : Nat, input : PadInput]

LEMMA NoGameIsNotHeld == NoGame \notin Held /\ NoState \notin Held
  BY MovieGameAssumption DEF NoGame, NoState, Held

\* What Append does to a sequence of a type.
LEMMA AppendTo ==
  ASSUME NEW S, NEW s \in Seq(S), NEW e \in S
  PROVE  /\ Append(s, e) \in Seq(S) /\ Len(Append(s, e)) = Len(s) + 1
         /\ Append(s, e)[Len(s) + 1] = e
         /\ \A i \in 1 .. Len(s) : Append(s, e)[i] = s[i]
  OBVIOUS

LEMMA FrameIsFrame ==
  ASSUME NEW input \in PadInput, NEW mode
  PROVE  /\ Frame(input, mode) \in Frames /\ Frame(input, mode).input = input
         /\ mode = "IDLE" => Frame(input, mode).eMode = "ACCURATENONDETERMINISTIC"
         /\ mode # "IDLE" => Frame(input, mode).eMode = "INACCURATEDETERMINISTIC"
  BY DEF Frame, Frames

LEMMA AfterFrameHeld ==
  ASSUME NEW c \in Held, NEW frame \in Frames
  PROVE  /\ AfterFrame(c, frame) \in Held /\ AfterFrame(c, frame).game = c.game
         /\ AfterFrame(c, frame).executed = Append(c.executed, frame)
<1>1. Append(c.executed, frame) \in Seq(Frames)
  BY AppendTo DEF Held
<1> QED BY <1>1 DEF AfterFrame, Held

\* A state that is restored, whatever the game, and what a game begins with.
LEMMA RestoredHeld ==
  ASSUME NEW state \in Held, console \in Held, RestoreState(state)
  PROVE  /\ console' \in Held /\ stale' = TRUE
         /\ console'.game = console.game /\ console'.executed = state.executed
  BY DEF RestoreState, Held

LEMMA LoadedHeld == LoopTypeOK => (Loaded <=> console \in Held)
  BY NoGameIsNotHeld DEF LoopTypeOK, Loaded

\* What a frame plays and records.
LEMMA FrameType ==
  ASSUME LoopTypeOK, ~Between
  PROVE  /\ taken \in Takens /\ FrameInput \in PadInput
         /\ Played \in Clips
         /\ Played.state = clip.state /\ Played.frames = clip.frames
         /\ Played.recording = clip.recording /\ Played.playFrame <= Len(clip.frames)
         /\ Played.playing => clip.playing
         /\ Played.playing => IF PlayGoesOn THEN Played.playFrame = clip.playFrame + 1
                              ELSE ~Plays /\ Played.playFrame = clip.playFrame
<1>1. taken \in Takens /\ clip \in Clips
  BY DEF LoopTypeOK, Between, Takens, Clips
<1>2. clip.playFrame <= Len(clip.frames) /\ Len(clip.frames) \in Nat /\ clip.playFrame \in Nat
  BY <1>1 DEF LoopTypeOK, Clips
<1>3. PlayGoesOn => clip.frames[clip.playFrame + 1] \in PadInput
  BY <1>1, <1>2 DEF PlayGoesOn, Clips
<1>4. FrameInput \in PadInput
  BY <1>1, <1>3 DEF FrameInput, Takens
<1>5. CASE PlayGoesOn
  <2>1. Played = [clip EXCEPT !.playFrame = clip.playFrame + 1]
    BY <1>5 DEF Played
  <2>2. clip.playFrame + 1 \in Nat /\ clip.playFrame + 1 <= Len(clip.frames)
    BY <1>2, <1>5 DEF PlayGoesOn
  <2> QED BY <1>1, <1>4, <1>5, <2>1, <2>2 DEF Clips
<1>6. CASE ~PlayGoesOn
  <2>1. Played = [clip EXCEPT !.playing = clip.playing /\ ~Plays,
                              !.playFrame = IF Plays THEN 0 ELSE clip.playFrame]
    BY <1>6 DEF Played
  <2>2. (clip.playing /\ ~Plays) \in BOOLEAN
    BY <1>1 DEF Clips
  <2>3. /\ Played.state = clip.state /\ Played.frames = clip.frames
        /\ Played.recording = clip.recording /\ Played.playing = (clip.playing /\ ~Plays)
        /\ Played.playFrame = IF Plays THEN 0 ELSE clip.playFrame
        /\ Played \in Clips
    BY <1>1, <2>1, <2>2 DEF Clips
  <2>4. Played.playFrame <= Len(clip.frames)
    BY <1>2, <2>3
  <2>5. Played.playing => clip.playing /\ ~Plays
    BY <2>3
  <2>6. Played.playing => Played.playFrame = clip.playFrame
    BY <2>3, <2>5
  <2> QED BY <1>1, <1>4, <1>6, <2>3, <2>4, <2>5, <2>6
<1> QED BY <1>5, <1>6

LEMMA MainInit == LoopInit => MainInv
<1> SUFFICES ASSUME LoopInit PROVE MainInv
  OBVIOUS
<1>1. LoopTypeOK
  <2>1. /\ << >> \in Seq(PadInput) /\ << >> \in Seq(Held) /\ << >> \in Seq(Frames)
        /\ Len(<< >>) = 0
    OBVIOUS
  <2>2. clip \in Clips
    BY <2>1 DEF LoopInit, NoClip, Clips
  <2>3. Len(clip.frames) <= CLIP_FRAMES /\ clip.playFrame <= Len(clip.frames)
    BY <2>1, MainLoopAssumption DEF LoopInit, NoClip
  <2> QED BY <2>1, <2>2, <2>3 DEF LoopInit, LoopTypeOK, NoClip, Clips
<1>2. NetInv
  BY DEF LoopInit, NetInv, Connected, Between
<1>3. ClipInv
  BY DEF LoopInit, ClipInv, NoClip
<1> QED BY <1>1, <1>2, <1>3 DEF MainInv

-----------------------------------------------------------------------------
\* Actions that leave the clip and what it recorded but for its being stopped.
LEMMA StoppedType ==
  ASSUME LoopTypeOK
  PROVE  /\ Stopped \in Clips
         /\ Stopped.state = clip.state /\ Stopped.frames = clip.frames
         /\ Stopped.playFrame = 0
         /\ ~Stopped.recording /\ ~Stopped.playing
  BY DEF LoopTypeOK, Stopped, Clips

\* A frame that is executed, its clip and its record.
LEMMA FrameStep ==
  ASSUME LoopTypeOK, ClipInv, ExecuteFrame
  PROVE  /\ console' = IF Executes THEN AfterFrame(console, Frame(FrameInput, Mode)) ELSE console
         /\ console' \in Held \cup {NoGame}
         /\ clip' \in Clips /\ clip'.state = clip.state
         /\ clip'.playFrame = Played.playFrame /\ clip'.playing = Played.playing
         /\ IF Records /\ Len(clip.frames) < CLIP_FRAMES
            THEN /\ clip'.frames = Append(clip.frames, FrameInput)
                 /\ recorded' = IF recorded = << >> THEN << >> ELSE Append(recorded, console')
                 /\ console' \in Held
                 /\ clip'.recording = clip.recording
            ELSE /\ clip'.frames = clip.frames /\ recorded' = recorded
                 /\ clip'.recording => clip.recording /\ ~Records
<1>1. /\ FrameInput \in PadInput /\ Played \in Clips
      /\ Played.state = clip.state /\ Played.frames = clip.frames
      /\ Played.recording = clip.recording
  BY FrameType DEF ExecuteFrame
<1>2. console' = IF Executes THEN AfterFrame(console, Frame(FrameInput, Mode)) ELSE console
  BY DEF ExecuteFrame
<1>3. /\ Executes => console \in Held /\ console' \in Held
      /\ console' \in Held \cup {NoGame}
  BY <1>1, <1>2, LoadedHeld, FrameIsFrame, AfterFrameHeld DEF LoopTypeOK, Executes
<1>4. /\ Append(clip.frames, FrameInput) \in Seq(PadInput)
      /\ Len(Append(clip.frames, FrameInput)) = Len(clip.frames) + 1
      /\ Len(clip.frames) \in Nat
  BY <1>1, AppendTo DEF LoopTypeOK
<1>5. clip' = Recorded(Played)
  BY DEF ExecuteFrame
<1>6. recorded' = IF recorded # << >> /\ Len(clip'.frames) > Len(clip.frames)
                  THEN Append(recorded, console') ELSE recorded
  BY DEF ExecuteFrame
<1>7. CASE Records /\ Len(clip.frames) < CLIP_FRAMES
  <2>1. clip' = [Played EXCEPT !.frames = Append(clip.frames, FrameInput)]
    BY <1>1, <1>5, <1>7 DEF Recorded
  <2>2. clip' \in Clips /\ clip'.state = clip.state
        /\ clip'.playFrame = Played.playFrame /\ clip'.playing = Played.playing
        /\ clip'.frames = Append(clip.frames, FrameInput)
        /\ clip'.recording = clip.recording
    BY <1>1, <1>4, <2>1 DEF Clips
  <2>3. recorded' = IF recorded = << >> THEN << >> ELSE Append(recorded, console')
    BY <1>4, <1>6, <2>2
  <2> QED BY <1>2, <1>3, <1>7, <2>2, <2>3 DEF Records
<1>8. CASE ~(Records /\ Len(clip.frames) < CLIP_FRAMES)
  <2>1. CASE Records
    <3>1. clip' = [Played EXCEPT !.recording = FALSE]
      BY <1>1, <1>5, <1>8, <2>1 DEF Recorded
    <3>2. clip' \in Clips /\ clip'.state = clip.state
          /\ clip'.playFrame = Played.playFrame /\ clip'.playing = Played.playing
          /\ clip'.frames = clip.frames /\ ~clip'.recording
      BY <1>1, <3>1 DEF Clips
    <3>3. recorded' = recorded
      BY <1>4, <1>6, <3>2
    <3> QED BY <1>2, <1>3, <1>8, <3>2, <3>3
  <2>2. CASE ~Records
    <3>1. clip' = Played
      BY <1>5, <2>2 DEF Recorded
    <3>2. recorded' = recorded
      BY <1>1, <1>4, <1>6, <3>1
    <3> QED BY <1>1, <1>2, <1>3, <2>2, <3>1, <3>2
  <2> QED BY <2>1, <2>2
<1> QED BY <1>7, <1>8

\* Every step keeps the types.
LEMMA TypeStep == MainInv /\ [LoopNext]_loopVars => LoopTypeOK'
<1> SUFFICES ASSUME MainInv, [LoopNext]_loopVars PROVE LoopTypeOK'
  OBVIOUS
<1> USE DEF MainInv
<1> DEFINE ClipOK(c) == /\ c \in Clips
                        /\ Len(c.frames) <= CLIP_FRAMES /\ c.playFrame <= Len(c.frames)
                        /\ ~(c.recording /\ c.playing)
<1>a. /\ Len(clip.frames) \in Nat /\ Len(clip.frames) <= CLIP_FRAMES /\ CLIP_FRAMES \in Nat
      /\ clip.playFrame \in Nat /\ clip.playFrame <= Len(clip.frames)
  BY MainLoopAssumption DEF LoopTypeOK
<1>b. /\ ClipOK(Stopped) /\ ClipOK(clip)
  BY <1>a, StoppedType DEF LoopTypeOK, Clips
<1>c. ASSUME NEW game \in MovieGame
      PROVE  Reset(game) \in Held
  BY DEF Reset, Held
<1>d. ASSUME NEW next \in Held \cup {NoGame}, UnloadRom(next)
      PROVE  /\ console' \in Held \cup {NoGame} /\ stale' \in BOOLEAN /\ ClipOK(clip')
             /\ snesState' \in Held \cup {NoState}
  BY <1>b, <1>d DEF UnloadRom
<1>e. ASSUME NEW marks \in SUBSET {"playing", "net"}, Marked(marks)
      PROVE  meddled' \in SUBSET {"playing", "net"}
  BY <1>e DEF Marked
\* Enough, when the clip is right.
<1>f. ASSUME console' \in Held \cup {NoGame}, stale' \in BOOLEAN, loopMenu' \in BOOLEAN,
             stateFile' \in [MovieGame -> Held \cup {NoState}], client' \in Clients,
             snesState' \in Held \cup {NoState},
             stream' \in Seq(Frames), ClipOK(clip'), recorded' \in Seq(Held),
             taken' \in {NoInput} \cup Takens, meddled' \in SUBSET {"playing", "net"}
      PROVE  LoopTypeOK'
  BY <1>f DEF LoopTypeOK, Clips, Clients, Takens
<1>g. /\ console \in Held \cup {NoGame} /\ stale \in BOOLEAN /\ loopMenu \in BOOLEAN
      /\ stateFile \in [MovieGame -> Held \cup {NoState}] /\ client \in Clients
      /\ snesState \in Held \cup {NoState}
      /\ stream \in Seq(Frames) /\ recorded \in Seq(Held)
      /\ taken \in {NoInput} \cup Takens /\ meddled \in SUBSET {"playing", "net"}
      /\ << >> \in Seq(Frames) /\ << >> \in Seq(Held)
  BY DEF LoopTypeOK, Clients, Takens
<1>h. UnderWay \in SUBSET {"playing", "net"}
  BY DEF UnderWay
<1>i. ASSUME NEW eGameState \in {"IDLE", "LOADING"}, NEW acked \in BOOLEAN
      PROVE  OutOfGame(eGameState, acked) \in Clients
  BY <1>g DEF OutOfGame, Clients
<1>1. ASSUME NEW game \in MovieGame, ChooseGame(game) PROVE LoopTypeOK'
  <2>1. /\ console' \in Held \cup {NoGame} /\ stale' \in BOOLEAN /\ ClipOK(clip')
        /\ snesState' \in Held \cup {NoState}
    BY <1>1, <1>c, <1>d DEF ChooseGame
  <2>2. meddled' \in SUBSET {"playing", "net"} /\ loopMenu' \in BOOLEAN
    BY <1>1, <1>e, <1>g DEF ChooseGame
  <2> QED BY <1>1, <1>f, <1>g, <2>1, <2>2 DEF ChooseGame, netVars
<1>2. ASSUME NEW game \in MovieGame, NetLoadGame(game) PROVE LoopTypeOK'
  <2>1. /\ console' \in Held \cup {NoGame} /\ stale' \in BOOLEAN /\ ClipOK(clip')
        /\ snesState' \in Held \cup {NoState}
    BY <1>2, <1>b, <1>c, <1>d, <1>g DEF NetLoadGame
  <2>2. client' \in Clients
    BY <1>2, <1>i DEF NetLoadGame
  <2>3. meddled' \in SUBSET {"playing", "net"}
    BY <1>2, <1>e, <1>g DEF NetLoadGame
  <2> QED BY <1>2, <1>f, <1>g, <2>1, <2>2, <2>3 DEF NetLoadGame
<1>3. CASE ToggleMenu
  BY <1>3, <1>b, <1>f, <1>g DEF ToggleMenu, netVars
<1>4. CASE SaveState
  <2>1. stateFile' \in [MovieGame -> Held \cup {NoState}] /\ snesState' \in Held
    BY <1>4, <1>g, LoadedHeld DEF SaveState
  <2> QED BY <1>4, <1>b, <1>f, <1>g, <2>1 DEF SaveState, netVars
<1>5. CASE LoadState
  <2>1. console \in Held /\ console.game \in MovieGame
    BY <1>5, LoadedHeld DEF LoadState, Held
  <2>2. snesState' \in Held
    <3>1. PICK game \in MovieGame : snesState' \in {stateFile[game], snesState} \ {NoState}
      BY <1>5, <2>1 DEF LoadState
    <3> QED BY <1>g, <3>1
  <2>3. console' \in Held /\ stale' \in BOOLEAN
    BY <1>5, <2>1, <2>2, RestoredHeld DEF LoadState
  <2>4. recorded' \in Seq(Held) /\ meddled' \in SUBSET {"playing", "net"}
    BY <1>5, <1>g, <1>h DEF LoadState
  <2>5. /\ UNCHANGED <<loopMenu, stateFile, client, stream, clip, taken>>
        /\ ClipOK(clip')
    BY <1>5, <1>b DEF LoadState, netVars
  <2> HIDE DEF ClipOK
  <2> QED BY <1>f, <1>g, <2>2, <2>3, <2>4, <2>5
<1>6. CASE RecordButton
  <2>0. meddled' \in SUBSET {"playing", "net"}
    BY <1>6, <1>e, <1>g DEF RecordButton, RecordBegin
  <2>1. CASE clip.recording \/ clip.playing
    BY <1>6, <1>b, <1>f, <1>g, <2>0, <2>1 DEF RecordButton, RecordBegin, movieVars, netVars
  <2>2. CASE ~(clip.recording \/ clip.playing)
    <3>1. console \in Held
      BY <1>6, <2>2, LoadedHeld DEF RecordButton, RecordBegin
    <3>2. clip' = [state |-> console, frames |-> << >>, recording |-> TRUE,
                   playing |-> FALSE, playFrame |-> 0]
      BY <1>6, <2>2 DEF RecordButton, RecordBegin, NoClip
    <3>3. ClipOK(clip')
      BY <1>a, <3>1, <3>2 DEF Clips
    <3>4. recorded' \in Seq(Held)
      <4>1. recorded' = <<console>>
        BY <1>6, <2>2 DEF RecordButton, RecordBegin
      <4> QED BY <3>1, <4>1
    <3> QED BY <1>6, <1>f, <1>g, <2>0, <3>3, <3>4 DEF RecordButton, RecordBegin, movieVars, netVars
  <2> QED BY <2>1, <2>2
<1>7. CASE PlayButton
  <2>1. console \in Held
    BY <1>7, LoadedHeld DEF PlayButton, PlayBegin
  <2>2. console' \in Held /\ stale' \in BOOLEAN
    <3>1. CASE clip.state = NoState
      BY <1>7, <1>g, <2>1, <3>1 DEF PlayButton, PlayBegin
    <3>2. CASE clip.state # NoState
      <4>1. clip.state \in Held
        BY <3>2 DEF LoopTypeOK
      <4> QED BY <1>7, <2>1, <3>2, <4>1, RestoredHeld DEF PlayButton, PlayBegin
    <3> QED BY <3>1, <3>2
  <2>3. clip' = [Stopped EXCEPT !.playing = TRUE]
    BY <1>7 DEF PlayButton, PlayBegin
  <2>4. ClipOK(clip')
    <3>1. /\ clip' \in Clips /\ clip'.frames = Stopped.frames /\ clip'.playFrame = 0
          /\ clip'.recording = Stopped.recording
      BY <2>3, StoppedType DEF Clips
    <3> QED BY <1>a, <3>1, StoppedType
  <2>5. meddled' \in SUBSET {"playing", "net"}
    BY <1>7, <1>g DEF PlayButton, PlayBegin
  <2> QED BY <1>7, <1>f, <1>g, <2>2, <2>4, <2>5 DEF PlayButton, PlayBegin, movieVars, netVars
<1>8. ASSUME NEW pad \in PadInput, NEW ready \in BOOLEAN, TakeInput(pad, ready)
      PROVE  LoopTypeOK'
  <2>1. Append(stream, Frame(pad, "PLAY")) \in Seq(Frames)
    BY <1>g, FrameIsFrame, AppendTo
  <2>2. client.uFrame + 1 \in Nat
    BY <1>g DEF Clients
  <2>3. taken' \in Takens
    BY <1>8, <2>2 DEF TakeInput, Takens
  <2>4. client' \in Clients /\ stream' \in Seq(Frames)
    BY <1>8, <1>g, <2>1, <2>2 DEF TakeInput, Clients
  <2> QED BY <1>8, <1>b, <1>f, <1>g, <2>3, <2>4 DEF TakeInput, movieVars
<1>9. CASE ExecuteFrame
  <2>1. ClipOK(clip')
    <3>1. /\ clip' \in Clips /\ clip'.playFrame = Played.playFrame
          /\ clip'.playing = Played.playing
      BY <1>9, FrameStep
    <3>2. /\ Played.playFrame <= Len(clip.frames) /\ Played.playFrame \in Nat
          /\ Played.playing => clip.playing
      BY <1>9, FrameType DEF ExecuteFrame, Clips
    <3>3. CASE Records /\ Len(clip.frames) < CLIP_FRAMES
      <4>1. clip'.frames = Append(clip.frames, FrameInput) /\ clip'.recording
        BY <1>9, <3>3, FrameStep DEF Records
      <4>2. Len(clip'.frames) = Len(clip.frames) + 1
        BY <1>9, <4>1, FrameType, AppendTo DEF LoopTypeOK, ExecuteFrame
      <4>3. ~clip'.playing
        BY <3>1, <3>2, <3>3 DEF LoopTypeOK, Records
      <4> QED BY <1>a, <3>1, <3>2, <3>3, <4>2, <4>3
    <3>4. CASE ~(Records /\ Len(clip.frames) < CLIP_FRAMES)
      <4>1. clip'.frames = clip.frames /\ (clip'.recording => clip.recording)
        BY <1>9, <3>4, FrameStep
      <4> QED BY <1>a, <3>1, <3>2, <4>1 DEF LoopTypeOK
    <3> QED BY <3>3, <3>4
  <2>2. recorded' \in Seq(Held)
    <3>1. CASE Records /\ Len(clip.frames) < CLIP_FRAMES
      <4>1. recorded' = IF recorded = << >> THEN << >> ELSE Append(recorded, console')
        BY <1>9, <3>1, FrameStep
      <4>2. console' \in Held
        BY <1>9, <3>1, FrameStep
      <4> QED BY <1>g, <4>1, <4>2, AppendTo
    <3>2. CASE ~(Records /\ Len(clip.frames) < CLIP_FRAMES)
      BY <1>9, <1>g, <3>2, FrameStep
    <3> QED BY <3>1, <3>2
  <2>3. console' \in Held \cup {NoGame}
    BY <1>9, FrameStep
  <2>4. meddled' \in SUBSET {"playing", "net"}
    BY <1>9, <1>e, <1>g DEF ExecuteFrame
  <2> QED BY <1>9, <1>f, <1>g, <2>1, <2>2, <2>3, <2>4 DEF ExecuteFrame, movieVars, netVars
<1>10. CASE NetConnected \/ NetDisconnected
  <2>1. client' \in Clients /\ stream' \in Seq(Frames)
    <3>1. CASE NetConnected
      BY <1>g, <3>1 DEF NetConnected, Clients
    <3>2. CASE NetDisconnected
      BY <1>g, <1>i, <3>2 DEF NetDisconnected, Clients
    <3> QED BY <1>10, <3>1, <3>2
  <2>2. meddled' \in SUBSET {"playing", "net"}
    BY <1>10, <1>g DEF NetConnected, NetDisconnected
  <2> QED BY <1>10, <1>b, <1>f, <1>g, <2>1, <2>2 DEF NetConnected, NetDisconnected, movieVars
<1>11. CASE NetUnloadGame
  <2>1. client' \in Clients
    BY <1>11, <1>i DEF NetUnloadGame
  <2>2. /\ console' \in Held \cup {NoGame} /\ stale' \in BOOLEAN /\ ClipOK(clip')
        /\ snesState' \in Held \cup {NoState}
    BY <1>11, <1>d DEF NetUnloadGame
  <2>3. meddled' \in SUBSET {"playing", "net"}
    BY <1>11, <1>e, <1>g DEF NetUnloadGame
  <2> QED BY <1>11, <1>f, <1>g, <2>1, <2>2, <2>3 DEF NetUnloadGame
<1>12. CASE NetStartGame
  <2>1. client' \in Clients
    BY <1>12, <1>g DEF NetStartGame, Clients
  <2>2. stream' \in Seq(Frames) /\ loopMenu' \in BOOLEAN
    <3>1. stream' = << >> /\ loopMenu' = FALSE
      BY <1>12 DEF NetStartGame
    <3>2. FALSE \in BOOLEAN
      OBVIOUS
    <3> QED BY <1>g, <3>1, <3>2
  <2> QED BY <1>12, <1>b, <1>f, <1>g, <2>1, <2>2 DEF NetStartGame
<1>13. CASE UNCHANGED loopVars
  BY <1>13, <1>b, <1>f, <1>g DEF loopVars, movieVars, netVars
<1> QED BY <1>1, <1>2, <1>3, <1>4, <1>5, <1>6, <1>7, <1>8, <1>9, <1>10, <1>11, <1>12, <1>13
        DEF LoopNext

-----------------------------------------------------------------------------
\* What the client gives is what the console executes.
LEMMA NetStep ==
  MainInv /\ LoopTypeOK' /\ [LoopNext]_loopVars => NetInv'
<1> SUFFICES ASSUME MainInv, LoopTypeOK', [LoopNext]_loopVars PROVE NetInv'
  OBVIOUS
<1>a. LoopTypeOK /\ NetInv /\ ClipInv
  BY DEF MainInv
\* Outside of a net game, and in one that was meddled with, nothing is asked.
<1>b. ASSUME "net" \in meddled', Connected' PROVE NetInv'
  BY <1>b DEF NetInv
<1>c. ASSUME client'.eGameState = "IDLE" PROVE NetInv'
  BY <1>c DEF NetInv
<1>d. ASSUME UNCHANGED <<client, stream, taken, console, stale>>,
             "net" \notin meddled' => "net" \notin meddled
      PROVE  NetInv'
  BY <1>a, <1>d DEF NetInv, Between, Connected, Loaded
<1>e. ASSUME NEW marks, Marked(marks) PROVE "net" \in meddled' <=> "net" \in marks
  BY <1>e DEF Marked
<1>f. ASSUME client' = client, ~Connected PROVE NetInv'
  BY <1>a, <1>c, <1>f DEF NetInv
<1>1. ASSUME NEW game \in MovieGame, ChooseGame(game) PROVE NetInv'
  BY <1>1, <1>f DEF ChooseGame, netVars
<1>2. ASSUME NEW game \in MovieGame, NetLoadGame(game) PROVE NetInv'
  <2>1. Connected /\ taken' = taken
    BY <1>2 DEF NetLoadGame
  <2>2. client'.eGameState = "LOADING" /\ client'.eStatus = "CONNECTED"
    BY <1>2, <1>a, <2>1 DEF NetLoadGame, OutOfGame, Connected, LoopTypeOK
  <2>3. CASE ~Between
    <3>1. "net" \in meddled'
      BY <1>2, <1>e, <2>3 DEF NetLoadGame
    <3> QED BY <1>b, <2>2, <3>1 DEF Connected
  <2>4. CASE Between
    <3>1. Between'
      BY <2>1, <2>4 DEF Between
    <3>2. ASSUME client'.acked PROVE Loaded' /\ console'.executed = << >> /\ ~stale'
      <4>1. UnloadRom(Reset(game))
        <5>1. CASE client' = OutOfGame("LOADING", FALSE)
          BY <1>a, <3>2, <5>1 DEF LoopTypeOK, OutOfGame
        <5> QED BY <1>2, <5>1 DEF NetLoadGame
      <4>2. Reset(game) # NoGame
        BY MovieGameAssumption DEF Reset, NoGame
      <4> QED BY <4>1, <4>2 DEF UnloadRom, Reset, Loaded, NoGame
    <3> QED BY <2>2, <3>1, <3>2 DEF NetInv, Connected
  <2> QED BY <2>3, <2>4
<1>3. CASE ToggleMenu \/ SaveState
  BY <1>3, <1>d DEF ToggleMenu, SaveState, netVars
<1>4. CASE RecordButton
  BY <1>4, <1>d, <1>e DEF RecordButton, RecordBegin, netVars, movieVars
<1>5. CASE LoadState \/ PlayButton
  <2>1. client' = client
    BY <1>5 DEF LoadState, PlayButton, PlayBegin, netVars
  <2>2. CASE ~Connected
    BY <1>f, <2>1, <2>2
  <2>3. CASE Connected
    <3>1. "net" \in meddled'
      BY <1>5, <2>3 DEF LoadState, PlayButton, PlayBegin, UnderWay
    <3> QED BY <1>b, <2>1, <2>3, <3>1 DEF Connected
  <2> QED BY <2>2, <2>3
<1>6. ASSUME NEW pad \in PadInput, NEW ready \in BOOLEAN, TakeInput(pad, ready)
      PROVE  NetInv'
  <2> DEFINE play == Connected /\ client.eGameState = "PLAY" /\ ready
             frame == Frame(pad, "PLAY")
  <2>1. Between /\ Loaded /\ console' = console /\ stale' = stale /\ meddled' = meddled
    BY <1>6 DEF TakeInput
  <2>2. /\ taken' = [eGameState |-> IF ~Connected THEN "IDLE" ELSE IF play THEN "PLAY" ELSE "PAUSE",
                    uFrame |-> client.uFrame + 1, input |-> pad]
        /\ client' = IF play THEN [client EXCEPT !.uFrame = client.uFrame + 1] ELSE client
        /\ stream' = IF play THEN Append(stream, frame) ELSE stream
    BY <1>6 DEF TakeInput
  <2>3. /\ ~Between' /\ Loaded'
        /\ client'.eStatus = client.eStatus /\ client'.eGameState = client.eGameState
        /\ client'.acked = client.acked
    BY <1>a, <2>1, <2>2 DEF Between, NoInput, Loaded, LoopTypeOK
  <2>4. CASE ~Connected
    BY <1>f, <2>2, <2>4
  <2>5. CASE play /\ "net" \notin meddled
    <3>1. /\ stream = console.executed /\ client.uFrame = Len(stream) /\ ~stale
          /\ \A i \in 1 .. Len(stream) : stream[i].eMode = "INACCURATEDETERMINISTIC"
      BY <1>a, <2>1, <2>5 DEF NetInv
    <3>2. /\ taken'.eGameState = "PLAY" /\ taken'.uFrame = client.uFrame + 1
          /\ taken'.input = pad
      BY <2>2, <2>5
    <3>3. client'.uFrame = client.uFrame + 1
      BY <1>a, <2>2, <2>5 DEF LoopTypeOK
    <3>4. frame \in Frames /\ frame.eMode = "INACCURATEDETERMINISTIC"
      BY FrameIsFrame
    <3>5. /\ stream' = Append(stream, frame) /\ stream \in Seq(Frames)
      BY <1>a, <2>2, <2>5 DEF LoopTypeOK
    <3>6. /\ Len(stream') = Len(stream) + 1 /\ stream'[Len(stream) + 1] = frame
          /\ \A i \in 1 .. Len(stream) : stream'[i] = stream[i]
      BY <3>4, <3>5, AppendTo
    <3>7. \A i \in 1 .. Len(stream') : stream'[i].eMode = "INACCURATEDETERMINISTIC"
      <4>1. Len(stream) \in Nat
        BY <3>5
      <4>2. ASSUME NEW i \in 1 .. Len(stream') PROVE i = Len(stream) + 1 \/ i \in 1 .. Len(stream)
        BY <3>6, <4>1, <4>2
      <4> QED BY <3>1, <3>4, <3>6, <4>2
    <3>8. stream' = Append(console'.executed, Frame(taken'.input, "PLAY"))
      BY <2>1, <3>1, <3>2, <3>5
    <3>9. client'.uFrame = Len(stream') /\ taken'.uFrame = client'.uFrame
      BY <3>1, <3>2, <3>3, <3>6
    <3> QED BY <2>1, <2>3, <2>5, <3>1, <3>2, <3>7, <3>8, <3>9 DEF NetInv, Connected
  <2>6. CASE Connected /\ ~play
    <3>1. taken'.eGameState = "PAUSE" /\ client' = client /\ stream' = stream
      BY <2>2, <2>6
    <3> QED BY <1>a, <2>1, <2>3, <2>6, <3>1 DEF NetInv, Connected
  <2>7. CASE Connected /\ "net" \in meddled
    BY <1>b, <2>1, <2>3, <2>7 DEF Connected
  <2> QED BY <2>4, <2>5, <2>6, <2>7
<1>7. CASE ExecuteFrame
  <2>1. /\ ~Between /\ Between' /\ client' = client /\ stream' = stream /\ stale' = stale
        /\ "net" \in meddled' <=> "net" \in meddled
    BY <1>7, <1>e DEF ExecuteFrame, Between, netVars
  <2>2. CASE ~Connected
    BY <1>f, <2>1, <2>2
  <2>3. CASE Connected /\ "net" \in meddled
    BY <1>b, <2>1, <2>3 DEF Connected
  <2>4. CASE Connected /\ "net" \notin meddled /\ taken.eGameState = "PAUSE"
    <3>1. console' = console
      BY <1>7, <2>4 DEF ExecuteFrame, Executes, Mode
    <3> QED BY <1>a, <2>1, <2>4, <3>1 DEF NetInv, Connected, Loaded
  <2>5. CASE Connected /\ "net" \notin meddled /\ taken.eGameState # "PAUSE" /\ client.eGameState = "PLAY"
    <3>1. /\ client.uFrame = Len(stream) /\ taken.eGameState = "PLAY" /\ ~stale /\ Loaded
          /\ \A i \in 1 .. Len(stream) : stream[i].eMode = "INACCURATEDETERMINISTIC"
          /\ stream = Append(console.executed, Frame(taken.input, "PLAY"))
          /\ taken.uFrame = client.uFrame
      BY <1>a, <2>1, <2>5 DEF NetInv
    <3>2. console \in Held /\ console.executed \in Seq(Frames) /\ taken.input \in PadInput
      BY <1>a, <2>1, <3>1, LoadedHeld, FrameType DEF Held, Takens
    <3>3. Frame(taken.input, "PLAY") \in Frames
      BY <3>2, FrameIsFrame
    <3>4. GetFrame + 1 = taken.uFrame
      BY <3>1, <3>2, <3>3, AppendTo DEF GetFrame
    <3>5. Executes /\ FrameInput = taken.input /\ Mode = "PLAY"
      BY <3>1, <3>4 DEF Executes, Mode, FrameInput, PlayGoesOn, Plays
    <3>6. console' = AfterFrame(console, Frame(taken.input, "PLAY"))
      BY <1>7, <3>5 DEF ExecuteFrame
    <3>7. console'.executed = stream /\ console' \in Held
      BY <3>1, <3>2, <3>3, <3>6, AfterFrameHeld
    <3>8. Loaded'
      BY <3>7, NoGameIsNotHeld DEF Loaded
    <3> QED BY <2>1, <2>5, <3>1, <3>7, <3>8 DEF NetInv, Connected
  <2>6. CASE Connected /\ "net" \notin meddled /\ taken.eGameState # "PAUSE" /\ client.eGameState # "PLAY"
    <3>1. ~(client.eGameState = "LOADING" /\ client.acked)
      BY <1>a, <2>1, <2>6 DEF NetInv
    <3> QED BY <2>1, <2>6, <3>1 DEF NetInv, Connected
  <2> QED BY <2>2, <2>3, <2>4, <2>5, <2>6
<1>8. CASE NetConnected
  <2>1. client'.eGameState = "IDLE"
    BY <1>8, <1>a DEF NetConnected, NetInv, LoopTypeOK
  <2> QED BY <1>c, <2>1
<1>9. CASE NetDisconnected
  <2>1. client'.eGameState = "IDLE"
    BY <1>9, <1>a DEF NetDisconnected, OutOfGame, LoopTypeOK
  <2> QED BY <1>c, <2>1
<1>10. CASE NetUnloadGame
  <2>1. client'.eGameState = "IDLE"
    BY <1>10, <1>a DEF NetUnloadGame, OutOfGame, LoopTypeOK
  <2> QED BY <1>c, <2>1
<1>11. CASE NetStartGame
  <2>1. /\ UNCHANGED <<console, stale, taken, meddled>> /\ stream' = << >>
        /\ client'.eGameState = "PLAY" /\ client'.eStatus = "CONNECTED"
        /\ client'.uFrame = 0
    BY <1>11, <1>a DEF NetStartGame, Connected, LoopTypeOK
  <2>2. ASSUME "net" \notin meddled
        PROVE  /\ Loaded /\ console.executed = << >> /\ ~stale
               /\ ~Between => taken.eGameState = "PAUSE"
    BY <1>11, <1>a, <2>2 DEF NetStartGame, NetInv
  <2>3. Len(<< >>) = 0 /\ 1 .. 0 = {}
    OBVIOUS
  <2> QED BY <2>1, <2>2, <2>3 DEF NetInv, Connected, Between, Loaded
<1>12. CASE UNCHANGED loopVars
  BY <1>12, <1>d DEF loopVars, movieVars, netVars
<1> QED BY <1>1, <1>2, <1>3, <1>4, <1>5, <1>6, <1>7, <1>8, <1>9, <1>10, <1>11, <1>12 DEF LoopNext

-----------------------------------------------------------------------------
\* A frame of a clip takes the console that replays it to what it was recorded from.
LEMMA ReplayStep ==
  ASSUME NEW c \in Held, NEW d \in Held, NEW input \in PadInput, NEW mode, Replays(c, d)
  PROVE  Replays(AfterFrame(c, Frame(input, "IDLE")), AfterFrame(d, Frame(input, mode)))
<1> DEFINE cc == AfterFrame(c, Frame(input, "IDLE"))
           dd == AfterFrame(d, Frame(input, mode))
           n == Len(c.executed)
<1>1. /\ Frame(input, "IDLE") \in Frames /\ Frame(input, mode) \in Frames
      /\ Frame(input, "IDLE").input = input /\ Frame(input, mode).input = input
      /\ Frame(input, "IDLE").eMode = "ACCURATENONDETERMINISTIC"
  BY FrameIsFrame
<1>2. /\ c.executed \in Seq(Frames) /\ d.executed \in Seq(Frames) /\ n \in Nat
      /\ Len(d.executed) = n /\ c.game = d.game
  BY DEF Held, Replays
<1>3. /\ cc.game = c.game /\ cc.executed = Append(c.executed, Frame(input, "IDLE"))
      /\ dd.game = d.game /\ dd.executed = Append(d.executed, Frame(input, mode))
  BY <1>1, AfterFrameHeld
<1> HIDE DEF cc, dd, n
<1>4. /\ Len(cc.executed) = n + 1 /\ cc.executed[n + 1] = Frame(input, "IDLE")
      /\ \A i \in 1 .. n : cc.executed[i] = c.executed[i]
  BY <1>1, <1>2, <1>3, AppendTo DEF n
<1>5. /\ Len(dd.executed) = n + 1 /\ dd.executed[n + 1] = Frame(input, mode)
      /\ \A i \in 1 .. n : dd.executed[i] = d.executed[i]
  BY <1>1, <1>2, <1>3, AppendTo DEF n
<1>6. ASSUME NEW i \in 1 .. Len(cc.executed)
      PROVE  /\ cc.executed[i].input = dd.executed[i].input
             /\ cc.executed[i].eMode \in {dd.executed[i].eMode, "ACCURATENONDETERMINISTIC"}
  <2>1. CASE i = n + 1
    BY <1>1, <1>4, <1>5, <2>1
  <2>2. CASE i # n + 1
    <3>1. i \in 1 .. n
      BY <1>2, <1>4, <2>2
    <3>2. /\ c.executed[i].input = d.executed[i].input
          /\ c.executed[i].eMode \in {d.executed[i].eMode, "ACCURATENONDETERMINISTIC"}
      BY <3>1 DEF Replays, n
    <3> QED BY <1>4, <1>5, <3>1, <3>2
  <2> QED BY <2>1, <2>2
<1>7. Replays(cc, dd)
  BY <1>2, <1>3, <1>4, <1>5, <1>6 DEF Replays
<1> QED BY <1>7 DEF cc, dd

\* The clip keeps what the console was, and a playback takes it there again.
LEMMA ClipStep ==
  MainInv /\ LoopTypeOK' /\ [LoopNext]_loopVars => ClipInv'
<1> SUFFICES ASSUME MainInv, LoopTypeOK', [LoopNext]_loopVars PROVE ClipInv'
  OBVIOUS
<1>a. LoopTypeOK /\ NetInv /\ ClipInv
  BY DEF MainInv
\* A clip that is stopped, and one that nothing happens to.
<1>b. ASSUME clip' = Stopped, recorded' = recorded PROVE ClipInv'
  BY <1>a, <1>b, StoppedType DEF ClipInv
<1>c. ASSUME clip' = clip, recorded' = recorded,
             clip.recording => console' = console,
             clip.playing /\ "playing" \notin meddled' =>
               /\ "playing" \notin meddled /\ console' = console /\ ~Connected'
               /\ ~Between' => taken'.eGameState = "IDLE"
      PROVE  ClipInv'
  BY <1>a, <1>c DEF ClipInv, Loaded
<1>1. ASSUME NEW game \in MovieGame, ChooseGame(game) PROVE ClipInv'
  BY <1>1, <1>b DEF ChooseGame, UnloadRom
<1>2. ASSUME NEW game \in MovieGame, NetLoadGame(game) PROVE ClipInv'
  <2>1. recorded' = recorded /\ Connected
    BY <1>2 DEF NetLoadGame
  <2>2. CASE clip' = Stopped
    BY <1>b, <2>1, <2>2
  <2>3. CASE console' = console /\ clip' = clip
    <3>1. clip.playing => "playing" \in meddled
      BY <1>a, <2>1 DEF ClipInv
    <3>2. clip.playing => "playing" \in meddled'
      BY <1>2, <2>3, <3>1 DEF NetLoadGame, Marked
    <3> QED BY <1>c, <2>1, <2>3, <3>2
  <2> QED BY <1>2, <2>2, <2>3 DEF NetLoadGame, UnloadRom
<1>3. CASE ToggleMenu \/ SaveState
  <2>1. UNCHANGED <<clip, recorded, console, client, taken, meddled>>
    BY <1>3 DEF ToggleMenu, SaveState, netVars
  <2> QED BY <1>a, <1>c, <2>1 DEF ClipInv, Connected, Between
<1>4. CASE LoadState
  <2>1. clip' = clip /\ console \in Held /\ snesState' \in Held
    <3>1. console \in Held /\ console.game \in MovieGame
      BY <1>4, <1>a, LoadedHeld DEF LoadState, Held
    <3> QED BY <1>4, <1>a, <3>1 DEF LoadState, LoopTypeOK
  <2>2. console' \in Held
    BY <1>4, <2>1, RestoredHeld DEF LoadState
  <2>3. CASE clip.recording
    <3>1. recorded' = << >> /\ ~clip.playing
      BY <1>4, <1>a, <2>3 DEF LoadState, LoopTypeOK
    <3> QED BY <2>1, <2>2, <3>1, NoGameIsNotHeld DEF ClipInv, Loaded
  <2>4. CASE ~clip.recording
    <3>1. recorded' = recorded /\ (clip.playing => "playing" \in meddled')
      BY <1>4, <2>4 DEF LoadState, UnderWay
    <3> QED BY <1>c, <2>1, <2>4, <3>1
  <2> QED BY <2>3, <2>4
<1>5. CASE RecordButton
  <2>1. CASE clip.recording \/ clip.playing
    BY <1>5, <1>b, <2>1 DEF RecordButton, RecordBegin
  <2>2. CASE ~(clip.recording \/ clip.playing)
    <3>1. /\ console \in Held /\ console' = console /\ Loaded
          /\ recorded' = <<console>>
      BY <1>5, <1>a, <2>2, LoadedHeld DEF RecordButton, RecordBegin
    <3>2. clip' = [state |-> console, frames |-> << >>, recording |-> TRUE,
                   playing |-> FALSE, playFrame |-> 0]
      BY <1>5, <2>2 DEF RecordButton, RecordBegin, NoClip
    <3>3. /\ clip'.state = console' /\ clip'.frames = << >> /\ ~clip'.playing
          /\ Len(clip'.frames) = 0
      BY <3>1, <3>2
    <3>4. Len(recorded') = 1 /\ recorded'[1] = console'
      BY <3>1
    <3>5. console' # NoState /\ Loaded'
      BY <3>1, NoGameIsNotHeld DEF Loaded
    <3> QED BY <3>3, <3>4, <3>5 DEF ClipInv
  <2> QED BY <2>1, <2>2
<1>6. CASE PlayButton
  <2>1. /\ console \in Held /\ recorded' = recorded /\ Between' /\ client' = client
    BY <1>6, <1>a, LoadedHeld DEF PlayButton, PlayBegin, netVars, Between
  <2>2. clip' = [Stopped EXCEPT !.playing = TRUE]
    BY <1>6 DEF PlayButton, PlayBegin
  <2>3. /\ clip'.state = clip.state /\ clip'.frames = clip.frames /\ clip'.playFrame = 0
        /\ ~clip'.recording
    BY <1>a, <2>2, StoppedType DEF Clips
  <2>4. "playing" \notin meddled' => clip.state.game = console.game /\ ~Connected'
    BY <1>6, <2>1 DEF PlayButton, PlayBegin, Connected
  <2>5. CASE clip.state = NoState
    <3>1. console' = console /\ recorded = << >>
      BY <1>6, <1>a, <2>5 DEF PlayButton, PlayBegin, ClipInv
    <3>2. Loaded'
      BY <2>1, <3>1, NoGameIsNotHeld DEF Loaded
    <3> QED BY <2>1, <2>3, <2>4, <3>1, <3>2 DEF ClipInv
  <2>6. CASE clip.state # NoState
    <3>1. clip.state \in Held
      BY <1>a, <2>6 DEF LoopTypeOK
    <3>2. /\ console' \in Held /\ console'.game = console.game
          /\ console'.executed = clip.state.executed
      BY <1>6, <2>1, <2>6, <3>1, RestoredHeld DEF PlayButton, PlayBegin
    <3>3. clip.state.game = console.game => Replays(console', clip.state)
      BY <3>1, <3>2 DEF Replays, Held
    <3>4. recorded # << >> => recorded'[clip'.playFrame + 1] = clip.state
      BY <1>a, <2>1, <2>3 DEF ClipInv
    <3>5. Loaded'
      BY <3>2, NoGameIsNotHeld DEF Loaded
    <3> QED BY <1>a, <2>1, <2>3, <2>4, <3>3, <3>4, <3>5 DEF ClipInv
  <2> QED BY <2>5, <2>6
<1>7. ASSUME NEW pad \in PadInput, NEW ready \in BOOLEAN, TakeInput(pad, ready)
      PROVE  ClipInv'
  <2>1. /\ clip' = clip /\ recorded' = recorded /\ console' = console /\ meddled' = meddled
    BY <1>7 DEF TakeInput
  <2>2. ~Connected => client' = client /\ taken'.eGameState = "IDLE"
    BY <1>7 DEF TakeInput
  <2> QED BY <1>a, <1>c, <2>1, <2>2 DEF ClipInv, Connected
<1>8. CASE ExecuteFrame
  <2>a. /\ ~Between /\ Between' /\ client' = client
        /\ clip'.playing /\ "playing" \notin meddled' => "playing" \notin meddled
    BY <1>8 DEF ExecuteFrame, Between, netVars, Marked
  <2>b. /\ FrameInput \in PadInput
        /\ Played.playing => /\ clip.playing
                            /\ IF PlayGoesOn THEN Played.playFrame = clip.playFrame + 1
                               ELSE ~Plays /\ Played.playFrame = clip.playFrame
    BY <1>a, <2>a, FrameType
  <2>c. /\ console' = IF Executes THEN AfterFrame(console, Frame(FrameInput, Mode)) ELSE console
        /\ clip'.state = clip.state
        /\ clip'.playFrame = Played.playFrame /\ clip'.playing = Played.playing
    BY <1>8, <1>a, FrameStep
  <2>d. Loaded => Loaded'
    <3>1. ASSUME Loaded PROVE console' \in Held
      BY <1>a, <2>b, <2>c, <3>1, LoadedHeld, FrameIsFrame, AfterFrameHeld
    <3> QED BY <3>1, NoGameIsNotHeld DEF Loaded
  <2>e. Executes => Mode \in {"IDLE", "PLAY"}
    <3>1. taken.eGameState \in {"IDLE", "PLAY", "PAUSE"}
      BY <1>a, <2>a, FrameType DEF Takens
    <3> QED BY <3>1 DEF Executes, Mode
  <2>1. CASE Records /\ Len(clip.frames) < CLIP_FRAMES
    <3>1. /\ clip'.frames = Append(clip.frames, FrameInput)
          /\ recorded' = IF recorded = << >> THEN << >> ELSE Append(recorded, console')
          /\ console' \in Held
      BY <1>8, <1>a, <2>1, FrameStep
    <3>2. clip.recording /\ Executes /\ Loaded /\ ~clip'.playing
      BY <1>a, <2>1, <2>b, <2>c DEF Records, ClipInv, LoopTypeOK
    <3>3. CASE recorded = << >>
      BY <2>d, <3>1, <3>2, <3>3 DEF ClipInv
    <3>4. CASE recorded # << >>
      <4> DEFINE n == Len(clip.frames)
      <4>1. /\ clip.state # NoState /\ console = recorded[Len(recorded)]
            /\ Len(recorded) = n + 1 /\ recorded[1] = clip.state
            /\ \A i \in 1 .. n : \E mode \in {"IDLE", "PLAY"} :
                 recorded[i + 1] = AfterFrame(recorded[i], Frame(clip.frames[i], mode))
        BY <1>a, <3>2, <3>4 DEF ClipInv
      <4>2. recorded \in Seq(Held) /\ clip.frames \in Seq(PadInput)
        BY <1>a DEF LoopTypeOK
      <4>3. n \in Nat /\ Len(clip'.frames) = n + 1 /\ Len(recorded') = n + 2
        BY <2>b, <3>1, <3>4, <4>1, <4>2, AppendTo
      <4>4. /\ \A i \in 1 .. n + 1 : recorded'[i] = recorded[i]
            /\ recorded'[n + 2] = console'
        BY <3>1, <3>4, <4>1, <4>2, <4>3, AppendTo
      <4>5. /\ \A i \in 1 .. n : clip'.frames[i] = clip.frames[i]
            /\ clip'.frames[n + 1] = FrameInput
        BY <2>b, <3>1, <4>2, AppendTo
      <4>6. console' = AfterFrame(recorded[n + 1], Frame(FrameInput, Mode))
        BY <2>c, <3>2, <4>1
      <4> HIDE DEF n
      <4>7. ASSUME NEW i \in 1 .. n + 1
            PROVE  \E mode \in {"IDLE", "PLAY"} :
                     recorded'[i + 1] = AfterFrame(recorded'[i], Frame(clip'.frames[i], mode))
        <5>1. CASE i = n + 1
          <6>1. n + 1 + 1 = n + 2 /\ n + 1 \in 1 .. n + 1
            BY <4>3
          <6>2. recorded'[i + 1] = AfterFrame(recorded'[i], Frame(clip'.frames[i], Mode))
            BY <4>4, <4>5, <4>6, <5>1, <6>1
          <6> QED BY <2>e, <3>2, <6>2
        <5>2. CASE i # n + 1
          <6>1. i \in 1 .. n /\ i + 1 \in 1 .. n + 1
            BY <4>3, <5>2
          <6>2. PICK mode \in {"IDLE", "PLAY"} :
                  recorded[i + 1] = AfterFrame(recorded[i], Frame(clip.frames[i], mode))
            BY <4>1, <6>1
          <6>3. recorded'[i + 1] = AfterFrame(recorded'[i], Frame(clip'.frames[i], mode))
            BY <4>4, <4>5, <6>1, <6>2
          <6> QED BY <6>3
        <5> QED BY <5>1, <5>2
      <4>8. recorded'[1] = clip'.state /\ clip'.state # NoState
        BY <2>c, <4>1, <4>3, <4>4
      <4>9. Len(recorded') = Len(clip'.frames) + 1 /\ console' = recorded'[Len(recorded')]
        BY <4>3, <4>4
      <4> QED BY <2>d, <3>2, <4>3, <4>7, <4>8, <4>9 DEF ClipInv
    <3> QED BY <3>3, <3>4
  <2>2. CASE ~(Records /\ Len(clip.frames) < CLIP_FRAMES)
    <3>1. /\ clip'.frames = clip.frames /\ recorded' = recorded
          /\ clip'.recording => clip.recording /\ ~Records
      BY <1>8, <1>a, <2>2, FrameStep
    <3>2. clip'.recording => console' = console /\ Loaded'
      BY <1>a, <2>c, <2>d, <3>1 DEF Records, ClipInv
    <3>3. ASSUME clip'.playing, "playing" \notin meddled'
          PROVE  /\ ~Connected' /\ Loaded'
                 /\ recorded # << >> => Replays(console', recorded[clip'.playFrame + 1])
      <4>1. /\ clip.playing /\ ~Connected /\ Loaded /\ taken.eGameState = "IDLE"
            /\ recorded # << >> => Replays(console, recorded[clip.playFrame + 1])
        BY <1>a, <2>a, <2>b, <2>c, <3>3 DEF ClipInv
      <4>2. Mode = "IDLE" /\ Plays /\ Executes
        BY <4>1 DEF Plays, Executes, Mode
      <4>3. PlayGoesOn /\ clip'.playFrame = clip.playFrame + 1
        BY <2>b, <2>c, <3>3, <4>2
      <4>4. console' = AfterFrame(console, Frame(clip.frames[clip.playFrame + 1], "IDLE"))
        BY <2>c, <4>2, <4>3 DEF FrameInput
      <4>5. clip.playFrame + 1 \in 1 .. Len(clip.frames) /\ clip.playFrame \in Nat
        BY <1>a, <4>3 DEF LoopTypeOK, PlayGoesOn
      <4>6. ASSUME recorded # << >> PROVE Replays(console', recorded[clip'.playFrame + 1])
        <5> DEFINE k == clip.playFrame + 1
        <5>1. /\ Len(recorded) = Len(clip.frames) + 1 /\ recorded \in Seq(Held)
              /\ clip.frames \in Seq(PadInput)
          BY <1>a, <4>6 DEF ClipInv, LoopTypeOK
        <5>2. PICK mode \in {"IDLE", "PLAY"} :
                recorded[k + 1] = AfterFrame(recorded[k], Frame(clip.frames[k], mode))
          BY <1>a, <4>5, <4>6 DEF ClipInv
        <5>3. k \in 1 .. Len(recorded) /\ k \in 1 .. Len(clip.frames)
          BY <4>5, <5>1
        <5>4. recorded[k] \in Held /\ clip.frames[k] \in PadInput /\ console \in Held
          BY <1>a, <4>1, <5>1, <5>3, LoadedHeld
        <5>5. Replays(console', recorded[k + 1])
          BY <4>1, <4>4, <4>6, <5>2, <5>4, ReplayStep
        <5> QED BY <4>3, <5>5
      <4> QED BY <2>a, <2>d, <4>1, <4>6 DEF Connected
    <3> QED BY <1>a, <2>a, <2>c, <3>1, <3>2, <3>3 DEF ClipInv
  <2> QED BY <2>1, <2>2
<1>9. CASE NetConnected
  <2>1. /\ clip' = clip /\ recorded' = recorded /\ console' = console
        /\ clip.playing => "playing" \in meddled'
    BY <1>9 DEF NetConnected, UnderWay
  <2> QED BY <1>c, <2>1
<1>10. CASE NetDisconnected
  <2>1. /\ clip' = clip /\ recorded' = recorded /\ console' = console /\ ~Connected'
        /\ taken' = taken /\ meddled' = meddled \ {"net"}
    BY <1>10, <1>a DEF NetDisconnected, OutOfGame, Connected, LoopTypeOK
  <2> QED BY <1>a, <1>c, <2>1 DEF ClipInv, Between
<1>11. CASE NetUnloadGame
  BY <1>11, <1>b DEF NetUnloadGame, UnloadRom
<1>12. CASE NetStartGame
  <2>1. /\ clip' = clip /\ recorded' = recorded /\ console' = console /\ Connected
        /\ meddled' = meddled
    BY <1>12 DEF NetStartGame
  <2> QED BY <1>a, <1>c, <2>1 DEF ClipInv
<1>13. CASE UNCHANGED loopVars
  <2>1. UNCHANGED <<clip, recorded, console, client, taken, meddled>>
    BY <1>13 DEF loopVars, netVars
  <2> QED BY <1>a, <1>c, <2>1 DEF ClipInv, Connected, Between
<1> QED BY <1>1, <1>2, <1>3, <1>4, <1>5, <1>6, <1>7, <1>8, <1>9, <1>10, <1>11, <1>12, <1>13
        DEF LoopNext

-----------------------------------------------------------------------------
\* The invariant of the main loop: types, what a frame was given, and what a
\* clip has recorded, for callbacks within a frame and states restored at any time.
THEOREM MainInvariant == LoopSpec => []MainInv
<1>1. LoopInit => MainInv
  BY MainInit
<1>2. MainInv /\ [LoopNext]_loopVars => MainInv'
  BY TypeStep, NetStep, ClipStep DEF MainInv
<1> QED BY <1>1, <1>2, PTL DEF LoopSpec

\* In a net game that was not meddled with, the console has executed exactly the
\* frames its client has used up, in the mode that leaves the mixers out:
\* MainLoopProcess and NetPlayClientInput drop no frame and add none.
THEOREM NetFramesSharedHolds == LoopSpec => []NetFramesShared
<1>1. MainInv => NetFramesShared
  BY DEF MainInv, NetInv, NetFramesShared, GetFrame, Between
<1> QED BY <1>1, MainInvariant, PTL

\* A clip that is played takes the console through the inputs it recorded: PlayFrame
\* gives what RecordFrame got, unless a state was restored in between, or the client
\* connected.
THEOREM MovieReplaysHolds == LoopSpec => []MovieReplays
<1>1. MainInv => MovieReplays
  BY DEF MainInv, ClipInv, MovieReplays
<1> QED BY <1>1, MainInvariant, PTL
-----------------------------------------------------------------------------
\* The pads and the keys of the main loop, for every delay and whatever is held.

\* What the driver knows of the pads is what was there at the last poll.
PadsInv ==
  /\ present \subseteq Pads
  /\ padConnected \in [AnyPad -> BOOLEAN]
  /\ \A p \in AnyPad : padConnected[p] <=> p \in present
  /\ \A p \in AnyPad : InputGetPadData(p) = held[p]

\* The count that buttons repeat by is that of the frames in which one was held, or
\* one more; a timeout that runs has not run longer than its button was pressed ago.
CountInv ==
  /\ repeat \in 0 .. MENU_REPEAT /\ heldFor \in 0 .. MENU_REPEAT + 1
  /\ IF repeat < MENU_REPEAT THEN heldFor \in {repeat, repeat - 1} ELSE heldFor >= MENU_REPEAT - 1
  /\ menuTimeout \in [MenuKeys -> 0 .. MENU_TIMEOUT] /\ since \in [MenuKeys -> Nat]
  /\ \A k \in MenuKeys : menuTimeout[k] > 0 => since[k] + menuTimeout[k] <= MENU_TIMEOUT

KeysInv == KeysTypeOK /\ PadsInv /\ CountInv /\ MenuNeedsBoth

LEMMA PadsBounds ==
  /\ AnyPad = 0 .. INPUT_MAXPADS - 1 /\ Pads \subseteq AnyPad
  /\ 0 .. 4 \subseteq AnyPad /\ 0 .. 3 \subseteq AnyPad
BY PadsAssumption DEF AnyPad, Pads, _Input_nPads

\* A poll tells of a pad what is held on it, or nothing.
LEMMA PollKeeps ==
  ASSUME PadsInv, padData \in [AnyPad -> SUBSET Button],
         NEW there \in SUBSET Pads, NEW holds \in [Pads -> SUBSET Button],
         NEW rest \in SUBSET Button, InputPoll(there, holds, rest)
  PROVE  PadsInv' /\ padData' \in [AnyPad -> SUBSET Button]
<1>1. padData' \in [AnyPad -> SUBSET Button]
  BY PadsBounds DEF InputPoll, Reads
<1>2. present' = there /\ padConnected' \in [AnyPad -> BOOLEAN]
  <2>1. ASSUME NEW p \in AnyPad
        PROVE  (IF p \in Pads THEN p \in there ELSE padConnected[p]) \in BOOLEAN
    <3>1. CASE p \in Pads /\ p \in there
      <4>1. (IF p \in Pads THEN p \in there ELSE padConnected[p]) = TRUE
        BY <3>1
      <4> QED BY <4>1
    <3>2. CASE p \in Pads /\ p \notin there
      <4>1. (IF p \in Pads THEN p \in there ELSE padConnected[p]) = FALSE
        BY <3>2
      <4> QED BY <4>1
    <3>3. CASE p \notin Pads
      BY <3>3 DEF PadsInv
    <3> QED BY <3>1, <3>2, <3>3
  <2>2. padConnected' = [p \in AnyPad |-> IF p \in Pads THEN p \in there ELSE padConnected[p]]
    BY DEF InputPoll
  <2>3. padConnected' \in [AnyPad -> BOOLEAN]
    BY <2>1, <2>2, Zenon
  <2> QED BY <2>3 DEF InputPoll
<1>3. ASSUME NEW p \in AnyPad PROVE padConnected'[p] <=> p \in present'
  BY <1>2 DEF InputPoll, PadsInv
<1>4. ASSUME NEW p \in AnyPad PROVE InputGetPadData(p)' = held'[p]
  <2>1. held'[p] = IF p \in present \cap there THEN holds[p] ELSE {}
    BY DEF InputPoll
  <2>2. CASE p \in there
    <3>1. InputGetPadData(p)' = padData'[p]
      BY <1>2, <1>3, <2>2 DEF InputGetPadData, InputIsPadConnected
    <3>2. padData'[p] = IF p \in present THEN holds[p] ELSE {}
      BY <2>2 DEF InputPoll, Reads, PadsInv
    <3> QED BY <2>1, <2>2, <3>1, <3>2
  <2>3. CASE p \notin there
    <3>1. InputGetPadData(p)' = {}
      BY <1>2, <1>3, <2>3 DEF InputGetPadData, InputIsPadConnected
    <3> QED BY <2>1, <2>3, <3>1
  <2> QED BY <2>2, <2>3
<1> QED BY <1>1, <1>2, <1>3, <1>4 DEF PadsInv

LEMMA PadsAreReal == PadsInv => NoPhantomButtons
<1> SUFFICES ASSUME PadsInv PROVE NoPhantomButtons
  OBVIOUS
<1>1. \A p \in 0 .. 3 : InputGetPadData(p) = held[p]
  BY PadsBounds DEF PadsInv
<1>2. Together = UNION {held[p] : p \in 0 .. 3}
  BY <1>1 DEF Together
<1>3. ASSUME NEW p \in 0 .. 4
      PROVE  IF p \in present THEN PadsInput[p] \in {held[p], {}} ELSE PadsInput[p] = Disconnected
  <2>1. InputIsPadConnected(p) <=> p \in present
    BY PadsBounds DEF InputIsPadConnected, PadsInv
  <2>2. InputGetPadData(p) = held[p]
    BY PadsBounds DEF PadsInv
  <2> QED BY <2>1, <2>2 DEF PadsInput, _MainLoopInput
<1> QED BY <1>2, <1>3 DEF NoPhantomButtons

LEMMA TogetherType ==
  ASSUME padData \in [AnyPad -> SUBSET Button] PROVE Together \in SUBSET Button
<1>1. \A p \in 0 .. 3 : InputGetPadData(p) \in SUBSET Button
  BY PadsBounds DEF InputGetPadData, InputIsPadConnected
<1> QED BY <1>1 DEF Together

\* The next screen is a screen.
LEMMA TurnedType ==
  ASSUME NEW s \in {Screens[i] : i \in 1 .. 4}, NEW by \in Nat
  PROVE  Turned(s, by) \in {Screens[i] : i \in 1 .. 4}
<1> DEFINE i == CHOOSE i \in 1 .. 4 : Screens[i] = s
<1>1. i \in 1 .. 4
  OBVIOUS
<1> HIDE DEF i
<1>2. (i - 1 + by) % 4 \in 0 .. 3
  BY <1>1
<1>3. Turned(s, by) = Screens[1 + ((i - 1 + by) % 4)]
  BY DEF Turned, i
<1> QED BY <1>2, <1>3

\* The count of a frame, and the timeouts.
LEMMA CountStep ==
  ASSUME CountInv, lastbuttons \in SUBSET Button, NEW buttons \in SUBSET Button,
         _MainLoopInputProcess(buttons)
  PROVE  /\ CountInv'
         /\ trigger' \subseteq Pressed(MENU_REPEAT) /\ Pressed(MENU_REPEAT + 1) \subseteq trigger'
<1> USE KeysAssumption
<1> DEFINE idle == buttons \cap MENU_REPEATBUTTONS = {}
           pressed == Triggered(buttons)
<1>1. /\ trigger' = pressed /\ lastbuttons' = buttons
      /\ repeat' = IF Counted(buttons) > MENU_REPEAT THEN MENU_REPEAT ELSE Counted(buttons)
      /\ menuTimeout' = Timeouts(pressed)
      /\ heldFor' = IF idle THEN 0 ELSE IF heldFor > MENU_REPEAT THEN heldFor ELSE heldFor + 1
      /\ since' = [k \in MenuKeys |-> IF k \in pressed THEN 0 ELSE Later(since[k])]
  BY DEF _MainLoopInputProcess
<1>2. Counted(buttons) = IF idle THEN 1 ELSE repeat + 1
  BY DEF Counted, CountInv
<1>3. /\ repeat' \in 0 .. MENU_REPEAT /\ heldFor' \in 0 .. MENU_REPEAT + 1
      /\ IF repeat' < MENU_REPEAT THEN heldFor' \in {repeat', repeat' - 1}
         ELSE heldFor' >= MENU_REPEAT - 1
  BY <1>1, <1>2 DEF CountInv
<1>4. /\ Counted(buttons) > MENU_REPEAT => heldFor' >= MENU_REPEAT
      /\ heldFor' >= MENU_REPEAT + 1 => Counted(buttons) > MENU_REPEAT
  BY <1>1, <1>2 DEF CountInv
<1> HIDE DEF idle
<1>5. trigger' \subseteq Pressed(MENU_REPEAT) /\ Pressed(MENU_REPEAT + 1) \subseteq trigger'
  BY <1>1, <1>4 DEF Pressed, Triggered
<1> HIDE DEF pressed
<1>6. menuTimeout' \in [MenuKeys -> 0 .. MENU_TIMEOUT] /\ since' \in [MenuKeys -> Nat]
  BY <1>1 DEF CountInv, Timeouts, RunDown, Begun, Later, MenuKeys
<1>7. ASSUME NEW k \in MenuKeys, menuTimeout'[k] > 0
      PROVE  since'[k] + menuTimeout'[k] <= MENU_TIMEOUT
  <2>1. k \in pressed => since'[k] = 0
    BY <1>1
  <2>2. menuTimeout'[k] \in 0 .. MENU_TIMEOUT
    BY <1>6
  <2>3. CASE k \in pressed
    BY <2>1, <2>2, <2>3
  <2>4. CASE k \notin pressed
    <3>1. since'[k] = Later(since[k]) /\ Begun(pressed, k) = menuTimeout[k]
      BY <1>1, <2>4 DEF Begun
    <3>2. since[k] \in Nat /\ menuTimeout[k] \in 0 .. MENU_TIMEOUT
      BY DEF CountInv
    <3>3. menuTimeout'[k] = RunDown(menuTimeout[k])
      BY <1>1, <1>7, <2>4, <3>1, <3>2 DEF Timeouts, UsedL2, UsedR2, MenuKeys
    <3>4. menuTimeout[k] > 0 /\ menuTimeout'[k] = menuTimeout[k] - 1
      BY <1>7, <3>2, <3>3 DEF RunDown
    <3>5. since[k] + menuTimeout[k] <= MENU_TIMEOUT
      BY <3>4 DEF CountInv
    <3>6. since'[k] = since[k] + 1
      BY <3>1, <3>2, <3>4, <3>5 DEF Later
    <3> QED BY <3>2, <3>4, <3>5, <3>6
  <2> QED BY <2>3, <2>4
<1> QED BY <1>3, <1>5, <1>6, <1>7 DEF CountInv

\* Both buttons of the menu were pressed where it is opened or closed.
LEMMA ToggleStep ==
  ASSUME CountInv, NEW buttons \in SUBSET Button, _MainLoopInputProcess(buttons)
  PROVE  MenuNeedsBoth'
<1> USE KeysAssumption
<1> DEFINE pressed == Triggered(buttons)
<1>1. since' = [k \in MenuKeys |-> IF k \in pressed THEN 0 ELSE Later(since[k])]
  BY DEF _MainLoopInputProcess
<1>2. MenuOrGame(buttons, pressed)
  BY DEF _MainLoopInputProcess
<1> HIDE DEF pressed
<1>3. "_MenuEnable" \notin KeyCalls(buttons)
  BY DEF KeyCalls, KeyFunction
<1>4. "_MenuEnable" \in called' => Toggles(pressed)
  <2>1. ~Toggles(pressed) => called' \in {KeyCalls(buttons), KeyCalls(buttons) \cup {"Input"}}
    BY <1>2, Zenon DEF MenuOrGame
  <2> QED BY <1>3, <2>1
<1>5. ASSUME NEW k \in MenuKeys, Begun(pressed, k) > 0 PROVE since'[k] <= MENU_TIMEOUT
  <2>1. CASE k \in pressed
    BY <1>1, <2>1
  <2>2. CASE k \notin pressed
    <3>1. menuTimeout[k] > 0 /\ since'[k] = Later(since[k])
      BY <1>1, <1>5, <2>2 DEF Begun
    <3>2. since[k] \in Nat /\ menuTimeout[k] \in Nat /\ since[k] + menuTimeout[k] <= MENU_TIMEOUT
      BY <3>1 DEF CountInv
    <3> QED BY <3>1, <3>2 DEF Later
  <2> QED BY <2>1, <2>2
<1>6. ASSUME NEW k \in MenuKeys, k \in pressed PROVE since'[k] = 0
  BY <1>1, <1>6
<1>7. ASSUME Toggles(pressed)
      PROVE  (\A k \in MenuKeys : since'[k] <= MENU_TIMEOUT) /\ \E k \in MenuKeys : since'[k] = 0
  <2>1. CASE UsedL2(pressed)
    <3>1. since'["L2"] <= MENU_TIMEOUT /\ since'["R2"] = 0
      BY <1>5, <1>6, <2>1 DEF UsedL2, MenuKeys
    <3> QED BY <3>1 DEF MenuKeys
  <2>2. CASE UsedR2(pressed)
    <3>1. since'["R2"] <= MENU_TIMEOUT /\ since'["L2"] = 0
      BY <1>5, <1>6, <2>2 DEF UsedR2, MenuKeys
    <3> QED BY <3>1 DEF MenuKeys
  <2> QED BY <1>7, <2>1, <2>2 DEF Toggles
<1> QED BY <1>4, <1>7 DEF MenuNeedsBoth

LEMMA KeysInitInv == KeysInit => KeysInv
<1> SUFFICES ASSUME KeysInit PROVE KeysInv
  OBVIOUS
<1> USE KeysAssumption
<1>1. KeysTypeOK
  <2>1. screen = Screens[1]
    BY DEF KeysInit, Screens
  <2>2. padData \in [AnyPad -> SUBSET Button] /\ padConnected \in [AnyPad -> BOOLEAN]
    BY DEF KeysInit, PadsInit
  <2>3. menuTimeout \in [MenuKeys -> 0 .. MENU_TIMEOUT]
    BY DEF KeysInit
  <2>4. 1 \in 1 .. 4 /\ screen \in {Screens[i] : i \in 1 .. 4}
    BY <2>1
  <2>5. lastbuttons \in SUBSET Button /\ trigger \in SUBSET Button /\ repeat \in 0 .. MENU_REPEAT
    BY DEF KeysInit
  <2>6. keysMenu \in BOOLEAN /\ blackScreen \in BOOLEAN
    BY Zenon DEF KeysInit
  <2> QED BY <2>2, <2>3, <2>4, <2>5, <2>6, Zenon DEF KeysTypeOK
<1>2. PadsInv
  BY DEF KeysInit, PadsInit, PadsInv, InputGetPadData, InputIsPadConnected
<1>3. CountInv
  BY DEF KeysInit, CountInv
<1>4. MenuNeedsBoth
  BY DEF KeysInit, MenuNeedsBoth
<1> QED BY <1>1, <1>2, <1>3, <1>4 DEF KeysInv

LEMMA KeysStep ==
  ASSUME KeysInv, KeysNext
  PROVE  /\ KeysInv'
         /\ trigger' \subseteq Pressed(MENU_REPEAT) /\ Pressed(MENU_REPEAT + 1) \subseteq trigger'
<1>1. PICK there \in SUBSET Pads, first \in FirstHolds, others \in OthersHold,
           rest \in OthersHold :
        MainLoopProcess(there, [p \in Pads |-> IF p = 0 THEN first ELSE others], rest)
  BY DEF KeysNext
<1> DEFINE holds == [p \in Pads |-> IF p = 0 THEN first ELSE others]
<1>2. holds \in [Pads -> SUBSET Button] /\ rest \in SUBSET Button
  BY PadsAssumption
<1> HIDE DEF holds
<1>3. InputPoll(there, holds, rest) /\ _MainLoopInputProcess(Together')
  BY <1>1 DEF MainLoopProcess, holds
<1>4. padData \in [AnyPad -> SUBSET Button] /\ PadsInv /\ CountInv /\ lastbuttons \in SUBSET Button
  BY DEF KeysInv, KeysTypeOK
<1>5. PadsInv' /\ padData' \in [AnyPad -> SUBSET Button]
  BY <1>2, <1>3, <1>4, PollKeeps
<1>6. Together' \in SUBSET Button
  <2>1. padData \in [AnyPad -> SUBSET Button] => Together \in SUBSET Button
    BY TogetherType
  <2>2. (padData \in [AnyPad -> SUBSET Button] => Together \in SUBSET Button)'
    BY TogetherType, PTL
  <2> QED BY <1>5, <2>2
<1> DEFINE buttons == Together'
<1> HIDE DEF buttons
<1>7. buttons \in SUBSET Button /\ _MainLoopInputProcess(buttons)
  BY <1>3, <1>6 DEF buttons
<1>8. CountInv' /\ trigger' \subseteq Pressed(MENU_REPEAT) /\ Pressed(MENU_REPEAT + 1) \subseteq trigger'
  BY <1>4, <1>7, CountStep
<1>9. MenuNeedsBoth'
  BY <1>4, <1>7, ToggleStep
<1>10. KeysTypeOK'
  <2>1. MenuOrGame(buttons, Triggered(buttons))
    BY <1>7 DEF _MainLoopInputProcess
  <2>2. keysMenu' \in BOOLEAN /\ blackScreen' \in BOOLEAN
        /\ screen' \in {Screens[i] : i \in 1 .. 4}
    <3>1. screen \in {Screens[i] : i \in 1 .. 4} /\ keysMenu \in BOOLEAN /\ blackScreen \in BOOLEAN
      BY DEF KeysInv, KeysTypeOK
    <3>2. Turned(screen, 1) \in {Screens[i] : i \in 1 .. 4}
          /\ Turned(screen, 3) \in {Screens[i] : i \in 1 .. 4}
      BY <3>1, TurnedType
    <3>3. screen' \in {screen, Turned(screen, 1), Turned(screen, 3)}
      BY <2>1 DEF MenuOrGame
    <3>4. keysMenu' \in BOOLEAN /\ blackScreen' \in BOOLEAN
      BY <2>1, <3>1 DEF MenuOrGame
    <3> QED BY <3>1, <3>2, <3>3, <3>4
  <2>3. lastbuttons' \in SUBSET Button /\ trigger' \in SUBSET Button
    BY <1>7 DEF _MainLoopInputProcess, Triggered
  <2> QED BY <1>5, <1>8, <2>2, <2>3 DEF KeysTypeOK, PadsInv, CountInv
<1> QED BY <1>5, <1>8, <1>9, <1>10 DEF KeysInv

LEMMA KeysStutter == KeysInv /\ UNCHANGED keysVars => KeysInv'
BY DEF KeysInv, KeysTypeOK, PadsInv, CountInv, MenuNeedsBoth, keysVars, padsVars,
       InputGetPadData, InputIsPadConnected

\* For every delay: no button is taken for held that is not, not from a pad that was just
\* plugged in or pulled out, and the menu never opens or closes by a single press
\* (InputPoll, _MenuTriggerTimeout).
THEOREM KeysAreHeld ==
  KeysSpec => [](KeysTypeOK /\ NoPhantomButtons /\ MenuNeedsBoth)
<1>1. KeysInv /\ [KeysNext]_keysVars => KeysInv'
  BY KeysStep, KeysStutter
<1>2. KeysInv => KeysTypeOK /\ NoPhantomButtons /\ MenuNeedsBoth
  BY PadsAreReal DEF KeysInv
<1> QED BY <1>1, <1>2, KeysInitInv, PTL DEF KeysSpec

\* No button acts that is not held, whichever pads come and go, and whatever the read of
\* a pad that is gone has left, and no button of the menu alone (InputPoll, _MainLoopInputProcess).
THEOREM ButtonsAreRealHolds == KeysSpec => []ButtonsAreReal
<1> QED BY KeysAreHeld, PTL DEF ButtonsAreReal

\* For every delay: a button that is held is pressed anew after MENU_REPEAT frames,
\* not before and not too late, and only one that repeats (_MainLoopInputProcess).
THEOREM PressesAreRightHolds == KeysSpec => PressesAreRight
<1>1. KeysInv /\ [KeysNext]_keysVars => KeysInv'
  BY KeysStep, KeysStutter
<1>2. KeysInv /\ [KeysNext]_keysVars =>
        [trigger' \subseteq Pressed(MENU_REPEAT) /\ Pressed(MENU_REPEAT + 1) \subseteq trigger']_keysVars
  BY KeysStep
<1> QED BY <1>1, <1>2, KeysInitInv, PTL DEF KeysSpec, PressesAreRight

-----------------------------------------------------------------------------
\* The joypads of the emulated console, for every input a frame may be given.  Bits and
\* the number of their shifts are kept apart from the rest, of which nothing is needed.

SerialTypes ==
  [word : [Pad -> Word], strobe : BOOLEAN, latched : [Pad -> Word], shifted : [Pad -> Nat]]

\* SerialIsThePad, of a serial port.
SerialShows(s) ==
  \A p \in Pad :
    /\ s.strobe => s.shifted[p] = 0
    /\ \A b \in 0 .. 15 : b >= s.shifted[p] =>
         (b \in s.word[p] <=> b - s.shifted[p] \in Latch(s.latched[p]))

IOInv == IOTypeOK /\ SerialIsThePad /\ JoyIsThePad

LEMMA LatchType ==
  ASSUME NEW w \in Word PROVE Latch(w) \in Word
BY DEF Latch, Word

\* A write of the strobe leaves what SerialIsThePad says, whether it latches or not.
LEMMA WriteKeeps ==
  ASSUME padInput \in [Pad -> Word], NEW s \in SerialTypes, SerialShows(s), NEW on \in BOOLEAN
  PROVE  /\ WriteSerial(s, on) \in SerialTypes
         /\ SerialShows(WriteSerial(s, on))
         /\ WriteSerial(s, on).strobe = on
<1> DEFINE t == WriteSerial(s, on)
<1>1. CASE on /\ ~s.strobe
  <2>1. t = [word |-> [p \in Pad |-> Latch(padInput[p])], strobe |-> on,
             latched |-> padInput, shifted |-> [p \in Pad |-> 0]]
    BY <1>1 DEF WriteSerial
  <2>2. \A p \in Pad : Latch(padInput[p]) \in Word
    BY LatchType
  <2>3. t \in SerialTypes
    BY <2>1, <2>2 DEF SerialTypes
  <2>4. \A p \in Pad : t.shifted[p] = 0 /\ t.word[p] = Latch(t.latched[p])
    BY <2>1
  <2>5. SerialShows(t)
    BY <2>4 DEF SerialShows
  <2> QED BY <2>1, <2>3, <2>5
<1>2. CASE ~(on /\ ~s.strobe)
  <2>1. t = [s EXCEPT !.strobe = on]
    BY <1>2 DEF WriteSerial
  <2>2. t \in SerialTypes /\ t.strobe = on /\ t.word = s.word /\ t.latched = s.latched
        /\ t.shifted = s.shifted
    BY <2>1 DEF SerialTypes
  <2>3. on => s.strobe
    BY <1>2
  <2> QED BY <2>2, <2>3 DEF SerialShows
<1> QED BY <1>1, <1>2

\* Shifts move the bits on, and there are none of them while the strobe is on.
LEMMA ShiftKeeps ==
  ASSUME NEW s \in SerialTypes, SerialShows(s), NEW pads, NEW n \in Nat, n <= 16,
         s.strobe => pads = {}
  PROVE  ShiftSerialPads(s, pads, n) \in SerialTypes /\ SerialShows(ShiftSerialPads(s, pads, n))
<1> DEFINE t == ShiftSerialPads(s, pads, n)
<1>1. /\ t.strobe = s.strobe /\ t.latched = s.latched
      /\ t.word = [p \in Pad |-> IF p \in pads THEN ShiftWord(p, s.word[p], n) ELSE s.word[p]]
      /\ t.shifted = [p \in Pad |-> IF p \in pads THEN s.shifted[p] + n ELSE s.shifted[p]]
  BY DEF ShiftSerialPads, SerialTypes
<1>2. \A p \in Pad : ShiftWord(p, s.word[p], n) \in Word
  BY DEF ShiftWord, Word
<1>3. s.word \in [Pad -> Word] /\ s.shifted \in [Pad -> Nat] /\ s.strobe \in BOOLEAN
      /\ s.latched \in [Pad -> Word]
  BY DEF SerialTypes
<1>4. t \in SerialTypes
  <2>1. t = [s EXCEPT !.word = t.word, !.shifted = t.shifted]
    BY <1>1 DEF ShiftSerialPads
  <2>2. t.word \in [Pad -> Word]
    BY <1>1, <1>2, <1>3
  <2>3. t.shifted \in [Pad -> Nat]
    BY <1>1, <1>3
  <2> QED BY <1>1, <1>3, <2>1, <2>2, <2>3 DEF SerialTypes
<1>5. ASSUME NEW p \in Pad
      PROVE  /\ t.strobe => t.shifted[p] = 0
             /\ \A b \in 0 .. 15 : b >= t.shifted[p] =>
                  (b \in t.word[p] <=> b - t.shifted[p] \in Latch(t.latched[p]))
  <2>1. CASE p \notin pads
    BY <1>1, <2>1 DEF SerialShows
  <2>2. CASE p \in pads
    <3>1. ~t.strobe
      BY <1>1, <2>2
    <3>2. ASSUME NEW b \in 0 .. 15, b >= t.shifted[p]
          PROVE  b \in t.word[p] <=> b - t.shifted[p] \in Latch(t.latched[p])
      <4>1. t.shifted[p] = s.shifted[p] + n /\ s.shifted[p] \in Nat
        BY <1>1, <1>3, <2>2
      <4>2. b - n \in 0 .. 15 /\ b - n >= s.shifted[p] /\ ~(b < n)
        BY <3>2, <4>1
      <4>3. b \in t.word[p] <=> b - n \in s.word[p]
        BY <1>1, <2>2, <4>2 DEF ShiftWord
      <4>4. b - n \in s.word[p] <=> (b - n) - s.shifted[p] \in Latch(s.latched[p])
        BY <4>2 DEF SerialShows
      <4>5. (b - n) - s.shifted[p] = b - t.shifted[p]
        BY <4>1
      <4> QED BY <1>1, <4>3, <4>4, <4>5
    <3> QED BY <3>1, <3>2
  <2> QED BY <2>1, <2>2
<1> QED BY <1>4, <1>5 DEF SerialShows

\* However a program has left the port, UpdateJoyPads latches the pads of the frame.
LEMMA StrobedLatches ==
  ASSUME padInput \in [Pad -> Word], NEW s \in SerialTypes, SerialShows(s)
  PROVE  /\ Strobed(s) \in SerialTypes /\ SerialShows(Strobed(s)) /\ ~Strobed(s).strobe
         /\ \A p \in Pad : Strobed(s).word[p] = Latch(padInput[p])
<1> DEFINE low == WriteSerial(s, FALSE)
           high == WriteSerial(low, TRUE)
<1>1. low \in SerialTypes /\ SerialShows(low) /\ low.strobe = FALSE
  BY WriteKeeps
<1>2. high \in SerialTypes /\ SerialShows(high)
  BY <1>1, WriteKeeps
<1>3. high.word = [p \in Pad |-> Latch(padInput[p])]
  BY <1>1 DEF WriteSerial
<1> HIDE DEF low, high
<1>4. Strobed(s) = WriteSerial(high, FALSE)
  BY DEF Strobed, low, high
<1>5. WriteSerial(high, FALSE) \in SerialTypes /\ SerialShows(WriteSerial(high, FALSE))
      /\ WriteSerial(high, FALSE).strobe = FALSE
  BY <1>2, WriteKeeps
<1>6. WriteSerial(high, FALSE).word = high.word
  BY <1>2 DEF WriteSerial, SerialTypes
<1> QED BY <1>3, <1>4, <1>5, <1>6

LEMMA IOInitInv == IOInit => IOInv
<1> SUFFICES ASSUME IOInit PROVE IOInv
  OBVIOUS
<1>1. IOTypeOK
  BY DEF IOInit, IOTypeOK, Word
<1>2. DISCONNECTED # {} /\ Latch({}) = {}
  BY DEF DISCONNECTED, Latch
<1>3. SerialIsThePad
  BY <1>2 DEF IOInit, SerialIsThePad
<1>4. \A r \in 1 .. 4, high \in BOOLEAN : PadOfRegister(r, high) \in Pad
  BY DEF PadOfRegister, Pad
<1>5. JoyIsThePad
  BY <1>2, <1>4 DEF IOInit, JoyIsThePad
<1> QED BY <1>1, <1>3, <1>5 DEF IOInv

LEMMA IOStep == IOInv /\ [IONext]_ioVars => IOInv'
<1> SUFFICES ASSUME IOInv, [IONext]_ioVars PROVE IOInv'
  OBVIOUS
<1> USE JoypadAssumption
<1>1. serial \in SerialTypes /\ SerialShows(serial)
  BY DEF IOInv, IOTypeOK, SerialIsThePad, SerialTypes, SerialShows
<1>2. padInput \in [Pad -> Word]
  BY DEF IOInv, IOTypeOK
<1>3. \A r \in 1 .. 4, high \in BOOLEAN : PadOfRegister(r, high) \in Pad
  BY DEF PadOfRegister, Pad
\* What is to be shown of a step that leaves the registers of the pads alone.
<1>4. ASSUME serial' \in SerialTypes, SerialShows(serial'), UNCHANGED <<joy, lastAuto>>,
             padInput' \in [Pad -> Word], wrioHigh' \in BOOLEAN, autoRead' \in BOOLEAN,
             inPicture' \in BOOLEAN
      PROVE  IOInv'
  <2>1. IOTypeOK'
    BY <1>4 DEF IOInv, IOTypeOK, SerialTypes
  <2>2. SerialIsThePad'
    BY <1>4 DEF SerialIsThePad, SerialShows, Latch
  <2>3. JoyIsThePad'
    BY <1>4 DEF IOInv, JoyIsThePad, Latch
  <2> QED BY <2>1, <2>2, <2>3 DEF IOInv
<1>5. wrioHigh \in BOOLEAN /\ autoRead \in BOOLEAN /\ inPicture \in BOOLEAN
  BY DEF IOInv, IOTypeOK
<1>6. ASSUME NEW input \in SysInput, BeginFrame(input) PROVE IOInv'
  <2>1. SerialShows(serial')
    BY <1>1, <1>6 DEF BeginFrame
  <2> QED BY <1>1, <1>2, <1>4, <1>5, <1>6, <2>1 DEF BeginFrame
<1>7. CASE EndPicture
  <2>1. CASE ~autoRead
    BY <1>1, <1>2, <1>4, <1>5, <1>7, <2>1 DEF EndPicture
  <2>2. CASE autoRead
    <3> DEFINE s == Strobed(serial)
    <3>1. UpdateJoyPads /\ UNCHANGED <<padInput, wrioHigh, autoRead>> /\ inPicture' = FALSE
      BY <1>7, <2>2 DEF EndPicture
    <3>2. s \in SerialTypes /\ SerialShows(s) /\ ~s.strobe
          /\ \A p \in Pad : s.word[p] = Latch(padInput[p])
      BY <1>1, <1>2, StrobedLatches
    <3> HIDE DEF s
    <3>3. /\ joy' = [r \in 1 .. 4 |-> s.word[PadOfRegister(r, wrioHigh)]]
          /\ serial' = ShiftSerialPads(s, Port(0) \cup Port(1), 16)
          /\ lastAuto' = [input |-> padInput, high |-> wrioHigh]
      BY <3>1 DEF UpdateJoyPads, s
    <3>4. serial' \in SerialTypes /\ SerialShows(serial')
      BY <3>2, <3>3, ShiftKeeps
    <3>5. \A r \in 1 .. 4 : joy'[r] = Latch(padInput[PadOfRegister(r, wrioHigh)])
      BY <1>3, <1>5, <3>2, <3>3
    <3>6. joy' \in [1 .. 4 -> Word]
      <4>1. \A r \in 1 .. 4 : s.word[PadOfRegister(r, wrioHigh)] \in Word
        BY <1>3, <1>5, <3>2 DEF SerialTypes
      <4> QED BY <3>3, <4>1
    <3>7. lastAuto'.input = padInput /\ lastAuto'.high = wrioHigh
          /\ lastAuto' \in [input : [Pad -> Word], high : BOOLEAN]
      BY <1>2, <1>5, <3>3
    <3>8. IOTypeOK'
      BY <1>2, <1>5, <3>1, <3>4, <3>6, <3>7 DEF IOTypeOK, SerialTypes
    <3>9. SerialIsThePad' /\ JoyIsThePad'
      BY <3>4, <3>5, <3>7 DEF SerialIsThePad, SerialShows, JoyIsThePad, Latch
    <3> QED BY <3>8, <3>9 DEF IOInv
  <2> QED BY <2>1, <2>2
<1>8. ASSUME NEW n \in {0, 1}, ReadPort(n) PROVE IOInv'
  <2>1. serial.strobe => Read(serial, n) = {}
    BY DEF Read
  <2>2. serial' \in SerialTypes /\ SerialShows(serial')
    BY <1>1, <1>8, <2>1, ShiftKeeps DEF ReadPort
  <2> QED BY <1>2, <1>4, <1>5, <1>8, <2>2 DEF ReadPort
<1>9. ASSUME NEW on \in BOOLEAN, WriteStrobe(on) PROVE IOInv'
  <2>1. serial' \in SerialTypes /\ SerialShows(serial')
    BY <1>1, <1>2, <1>9, WriteKeeps DEF WriteStrobe
  <2> QED BY <1>2, <1>4, <1>5, <1>9, <2>1 DEF WriteStrobe
<1>10. ASSUME NEW on \in BOOLEAN, WriteWrio(on) \/ WriteNmitimen(on) PROVE IOInv'
  <2>1. serial' = serial
    BY <1>10 DEF WriteWrio, WriteNmitimen
  <2> QED BY <1>1, <1>2, <1>4, <1>5, <1>10, <2>1 DEF WriteWrio, WriteNmitimen
<1>11. CASE UNCHANGED ioVars
  BY <1>1, <1>2, <1>4, <1>5, <1>11 DEF ioVars
<1> QED BY <1>6, <1>7, <1>8, <1>9, <1>10, <1>11 DEF IONext

\* A program reads its pads as the player held them, bit by bit and by the registers,
\* in whatever order it strobes, reads, and switches the halves of a multitap, and
\* whatever is plugged in between (ReadSerial0, ReadSerial1, WriteSerial, UpdateJoyPads).
THEOREM JoypadsAreThePads ==
  IOSpec => [](IOTypeOK /\ JoypadsAreRight)
<1> QED BY IOInitInv, IOStep, PTL DEF IOSpec, IOInv, JoypadsAreRight

-----------------------------------------------------------------------------
\* The screen of the network.  What is needed of the types of its state, and of the
\* server's thread: it starts and accepts with a socket, and is nothing to anybody else.
ServerType ==
  [eStatus : {"IDLE", "CONNECTED"}, socket : {"INVALID", "LISTENING", "DISCONNECTING"},
   thread : {"none", "start", "accept", "ending"}, uStartLatency : Nat]

NetworkInv ==
  /\ EditingIsIdle /\ ServerHasSocket
  /\ digitIP \in -1 .. 11 /\ networkIP \in [0 .. 11 -> 0 .. 9] /\ netLatency \in Nat
  /\ server \in ServerType
  /\ server.thread = "start" => server.socket # "INVALID"

LEMMA NetworkInitInv == NetworkInit => NetworkInv
<1> SUFFICES ASSUME NetworkInit PROVE NetworkInv  OBVIOUS
<1>1. EditingIsIdle /\ ServerHasSocket
  BY DEF NetworkInit, SocketInit, EditingIsIdle, ServerHasSocket
<1>2. digitIP \in -1 .. 11 /\ networkIP \in [0 .. 11 -> 0 .. 9] /\ netLatency \in Nat
  BY NetworkAssumption DEF NetworkInit
<1>3. server \in ServerType /\ server.thread # "start"
  BY DEF NetworkInit, ServerType
<1> QED BY <1>1, <1>2, <1>3 DEF NetworkInv

\* An address is shown in digits.
LEMMA DigitsOfAddress ==
  ASSUME NEW addr \in [0 .. 3 -> 0 .. 255]
  PROVE  SetEditIP(addr) \in [0 .. 11 -> 0 .. 9]
<1>1. ASSUME NEW d \in 0 .. 11
      PROVE  (addr[d \div 3] \div <<100, 10, 1>>[1 + (d % 3)]) % 10 \in 0 .. 9
  <2>1. d \div 3 \in 0 .. 3 /\ 1 + (d % 3) \in 1 .. 3
    BY SMT
  <2>2. addr[d \div 3] \in 0 .. 255 /\ <<100, 10, 1>>[1 + (d % 3)] \in {100, 10, 1}
    BY <2>1
  <2> DEFINE n == addr[d \div 3]
             m == <<100, 10, 1>>[1 + (d % 3)]
  <2> HIDE DEF n, m
  <2>3. n \in Nat /\ m \in {100, 10, 1}
    BY <2>2 DEF n, m
  <2>4. n \div m \in Int
    <3>1. CASE m = 100 BY <2>3, <3>1, SMT
    <3>2. CASE m = 10 BY <2>3, <3>2, SMT
    <3>3. CASE m = 1 BY <2>3, <3>3, SMT
    <3> QED BY <2>3, <3>1, <3>2, <3>3
  <2>5. (n \div m) % 10 \in 0 .. 9
    BY <2>4, SMT
  <2> QED BY <2>5 DEF n, m
<1> QED BY <1>1 DEF SetEditIP

\* What the messages of the screen do to client and server.
LEMMA SwitchKeepsServer ==
  ASSUME server \in ServerType, ServerHasSocket, server.thread = "start" => server.socket # "INVALID",
         NEW latency \in Nat, SwitchServer(latency)
  PROVE  /\ server' \in ServerType /\ ServerHasSocket'
         /\ server'.thread = "start" => server'.socket # "INVALID"
<1>1. CASE server.eStatus = "IDLE"
  <2>1. ServerStart(latency)
    BY <1>1 DEF SwitchServer
  <2> QED BY <1>1, <2>1 DEF ServerStart, ServerType, ServerHasSocket
<1>2. CASE server.eStatus # "IDLE"
  <2>1. ServerStop
    BY <1>2 DEF SwitchServer
  <2> QED BY <1>2, <2>1 DEF ServerStop, ServerType, ServerHasSocket
<1> QED BY <1>1, <1>2

LEMMA EditKeeps ==
  ASSUME NetworkInv, NEW pressed \in SUBSET NetButton, digitIP # -1, EditInput(pressed)
  PROVE  NetworkInv'
<1> DEFINE digit == (digitIP + Plus("RIGHT", pressed) - Plus("LEFT", pressed)) % 12
           by == Plus("UP", pressed) - Plus("DOWN", pressed)
           ends == {"TRIANGLE", "CROSS"} \cap pressed # {}
<1>1. digitIP \in Int /\ networkIP \in [0 .. 11 -> 0 .. 9] /\ eStatus = "IDLE" /\ networkOption = -1
  BY DEF NetworkInv, EditingIsIdle
<1>2. digit \in 0 .. 11
  <2>1. digitIP + Plus("RIGHT", pressed) - Plus("LEFT", pressed) \in Int
    BY <1>1 DEF Plus
  <2> QED BY <2>1, SMT
<1>3. by \in Int
  BY DEF Plus
<1> HIDE DEF digit, by
<1>4. /\ networkIP' = [networkIP EXCEPT ![digit] = (@ + by) % 10]
      /\ digitIP' = (IF ends THEN -1 ELSE digit)
      /\ networkOption' = (IF ends THEN 1 ELSE networkOption)
      /\ UNCHANGED netLatency /\ UNCHANGED server
      /\ ~ends => UNCHANGED eStatus
  <2>1. ~ends => "CROSS" \notin pressed
    OBVIOUS
  <2> QED BY <2>1 DEF EditInput, digit, by, socketVars
<1>5. networkIP' \in [0 .. 11 -> 0 .. 9]
  <2>1. networkIP[digit] + by \in Int
    BY <1>1, <1>2, <1>3
  <2>2. (networkIP[digit] + by) % 10 \in 0 .. 9
    BY <2>1, SMT
  <2> QED BY <1>1, <1>2, <1>4, <2>2
<1>6. digitIP' \in -1 .. 11 /\ EditingIsIdle'
  BY <1>1, <1>2, <1>4 DEF EditingIsIdle
<1>7. ServerHasSocket' /\ server' \in ServerType
      /\ (server'.thread = "start" => server'.socket # "INVALID")
  BY <1>4 DEF NetworkInv, ServerHasSocket
<1> QED BY <1>4, <1>5, <1>6, <1>7 DEF NetworkInv

LEMMA OptionKeeps ==
  ASSUME NetworkInv, NEW pressed \in SUBSET NetButton, digitIP = -1, OptionInput(pressed)
  PROVE  NetworkInv'
<1>1. netLatency' = Latency(pressed) /\ networkIP' = networkIP
  BY DEF OptionInput
<1>2. Latency(pressed) \in Nat
  BY DEF NetworkInv, Latency, Plus
<1>3. networkOption # -1
  BY DEF NetworkInv, EditingIsIdle
<1>4. CASE ChooseOption(pressed)
  <2>1. networkOption' # -1 /\ digitIP' = digitIP /\ server' = server
    BY <1>3, <1>4 DEF ChooseOption, Option
  <2> QED BY <1>1, <1>2, <2>1 DEF NetworkInv, EditingIsIdle, ServerHasSocket
<1>5. CASE EnterOption(pressed)
  <2>1. CASE Option(pressed) = 0 /\ SwitchServer(Latency(pressed)) /\ networkOption' = 0
             /\ UNCHANGED digitIP
    <3>1. /\ server' \in ServerType /\ ServerHasSocket'
          /\ server'.thread = "start" => server'.socket # "INVALID"
      BY <1>2, <2>1, SwitchKeepsServer DEF NetworkInv
    <3> QED BY <1>1, <1>2, <2>1, <3>1 DEF NetworkInv, EditingIsIdle
  <2>2. CASE AsksAddress /\ networkOption' = -1 /\ digitIP' = 0
             /\ UNCHANGED <<socketVars, peerAddr, server>>
    BY <1>1, <1>2, <2>2 DEF NetworkInv, EditingIsIdle, ServerHasSocket, AsksAddress, socketVars
  <2>3. CASE networkOption' = 1 /\ UNCHANGED <<digitIP, peerAddr, server>>
    BY <1>1, <1>2, <2>3 DEF NetworkInv, EditingIsIdle, ServerHasSocket
  <2> QED BY <1>5, <2>1, <2>2, <2>3 DEF EnterOption
<1> QED BY <1>4, <1>5 DEF OptionInput

LEMMA NetworkStep == NetworkInv /\ [NetworkNext]_networkVars => NetworkInv'
<1> SUFFICES ASSUME NetworkInv, [NetworkNext]_networkVars PROVE NetworkInv'
  OBVIOUS
<1>1. CASE NetworkInput
  BY <1>1, EditKeeps, OptionKeeps DEF NetworkInput
<1>2. CASE Draw
  <2>1. networkIP' \in [0 .. 11 -> 0 .. 9]
    <3>1. PICK addr \in OwnAddress : networkIP' = SetEditIP(addr)
      BY <1>2 DEF Draw
    <3> QED BY <3>1, DigitsOfAddress, NetworkAssumption
  <2> QED BY <1>2, <2>1 DEF Draw, NetworkInv, EditingIsIdle, ServerHasSocket, socketVars
\* The threads of the client leave one that is idle as it is.
<1>3. CASE ClientThread
  <2>1. eStatus = "IDLE" => eStatus' = "IDLE"
    BY <1>3 DEF ClientThread, SocketThread, SocketConnects, ConnectFailed, ServerHello, ReadFailed,
                ThreadEnds, UdpReadFailed, SocketDisconnect
  <2> QED BY <1>3, <2>1 DEF ClientThread, screenVars, NetworkInv, EditingIsIdle, ServerHasSocket
<1>4. CASE ServerThread
  <2>1. UNCHANGED <<screenVars, eStatus>>
    BY <1>4 DEF ServerThread, socketVars
  <2>2. /\ server' \in ServerType /\ ServerHasSocket'
        /\ server'.thread = "start" => server'.socket # "INVALID"
    <3>1. CASE ServerStarted
      BY <3>1 DEF ServerStarted, NetworkInv, ServerType, ServerHasSocket
    <3>2. CASE ServerStopped
      BY <3>2 DEF ServerStopped, NetworkInv, ServerType, ServerHasSocket
    <3>3. CASE ServerEnds
      BY <3>3 DEF ServerEnds, NetworkInv, ServerType, ServerHasSocket
    <3> QED BY <1>4, <3>1, <3>2, <3>3 DEF ServerThread
  <2> QED BY <2>1, <2>2 DEF screenVars, NetworkInv, EditingIsIdle
<1>5. CASE UNCHANGED networkVars
  BY <1>5 DEF networkVars, socketVars, NetworkInv, EditingIsIdle, ServerHasSocket
<1> QED BY <1>1, <1>2, <1>3, <1>4, <1>5 DEF NetworkNext

LEMMA NetworkInvHolds == NetworkSpec => []NetworkInv
<1> QED BY NetworkInitInv, NetworkStep, PTL DEF NetworkSpec

\* Whoever edits an address has an idle client, which will take it, and whoever sees a
\* server that has started can stop it, whatever the threads of both do
\* (CNetworkScreen::Input, _MainLoopNetworkEvent, NetServerStop, _NetSocketThread).
THEOREM ScreenIsTrueHolds == NetworkSpec => []ScreenIsTrue
<1>1. NetworkInv => ScreenIsTrue
  BY DEF NetworkInv, ScreenIsTrue
<1> QED BY <1>1, NetworkInvHolds, PTL

\* Twelve digits whose groups are bytes, and the four bytes, are the same.
LEMMA ThreeDigits ==
  ASSUME NEW h \in 0 .. 9, NEW t \in 0 .. 9, NEW u \in 0 .. 9
  PROVE  LET n == 100 * h + 10 * t + u
         IN (n \div 100) % 10 = h /\ (n \div 10) % 10 = t /\ (n \div 1) % 10 = u
<1> DEFINE n == 100 * h + 10 * t + u
<1>1. n \div 100 = h  BY SMT
<1>2. n \div 10 = 10 * h + t  BY SMT
<1>3. n \div 1 = n  BY SMT
<1>4. h % 10 = h /\ (10 * h + t) % 10 = t /\ n % 10 = u  BY SMT
<1> QED BY <1>1, <1>2, <1>3, <1>4

LEMMA BytesOfDigits ==
  ASSUME NEW ip \in [0 .. 11 -> 0 .. 9], \A g \in 0 .. 3 : Group(ip, g) <= 255
  PROVE  GetEditIP(ip) = [g \in 0 .. 3 |-> Group(ip, g)]
<1>1. \A g \in 0 .. 3 : Group(ip, g) \in 0 .. 255
  <2> SUFFICES ASSUME NEW g \in 0 .. 3 PROVE Group(ip, g) \in 0 .. 255
    OBVIOUS
  <2>1. 3 * g \in 0 .. 11 /\ 3 * g + 1 \in 0 .. 11 /\ 3 * g + 2 \in 0 .. 11
    OBVIOUS
  <2>2. ip[3 * g] \in 0 .. 9 /\ ip[3 * g + 1] \in 0 .. 9 /\ ip[3 * g + 2] \in 0 .. 9
    BY <2>1
  <2> QED BY <2>2 DEF Group
\* No group is carried into the next.
<1> DEFINE a == Group(ip, 0)
           b == Group(ip, 1) + (a \div 256)
           c == Group(ip, 2) + (b \div 256)
           d == Group(ip, 3) + (c \div 256)
<1>2. ASSUME NEW n \in 0 .. 255 PROVE n \div 256 = 0 /\ n % 256 = n
  BY SMT
<1>3. a \in 0 .. 255  BY <1>1
<1>4. b = Group(ip, 1) /\ b \in 0 .. 255
  <2>1. a \div 256 = 0  BY <1>2, <1>3
  <2> QED BY <1>1, <2>1
<1>5. c = Group(ip, 2) /\ c \in 0 .. 255
  <2>1. b \div 256 = 0  BY <1>2, <1>4
  <2> QED BY <1>1, <2>1
<1>6. d = Group(ip, 3) /\ d \in 0 .. 255
  <2>1. c \div 256 = 0  BY <1>2, <1>5
  <2> QED BY <1>1, <2>1
<1>7. GetEditIP(ip) = [g \in 0 .. 3 |-> <<a, b, c, d>>[g + 1] % 256]
  BY DEF GetEditIP
<1>8. a = Group(ip, 0)  OBVIOUS
<1> HIDE DEF a, b, c, d
<1>9. ASSUME NEW g \in 0 .. 3 PROVE <<a, b, c, d>>[g + 1] % 256 = Group(ip, g)
  <2>1. CASE g = 0  BY <1>2, <1>3, <1>8, <2>1
  <2>2. CASE g = 1  BY <1>2, <1>4, <2>2
  <2>3. CASE g = 2  BY <1>2, <1>5, <2>3
  <2>4. CASE g = 3  BY <1>2, <1>6, <2>4
  <2> QED BY <2>1, <2>2, <2>3, <2>4
<1> QED BY <1>7, <1>9

LEMMA DigitsOfBytes ==
  ASSUME NEW ip \in [0 .. 11 -> 0 .. 9], \A g \in 0 .. 3 : Group(ip, g) <= 255
  PROVE  SetEditIP(GetEditIP(ip)) = ip
<1> DEFINE addr == [g \in 0 .. 3 |-> Group(ip, g)]
<1>1. ASSUME NEW d \in 0 .. 11
      PROVE  (addr[d \div 3] \div <<100, 10, 1>>[1 + (d % 3)]) % 10 = ip[d]
  <2>1. PICK g \in 0 .. 3, r \in 0 .. 2 : d = 3 * g + r /\ d \div 3 = g /\ d % 3 = r
    <3>1. d \div 3 \in 0 .. 3 /\ d % 3 \in 0 .. 2 /\ d = 3 * (d \div 3) + (d % 3)
      BY SMT
    <3> QED BY <3>1
  <2>2. 3 * g \in 0 .. 11 /\ 3 * g + 1 \in 0 .. 11 /\ 3 * g + 2 \in 0 .. 11
    OBVIOUS
  <2>3. ip[3 * g] \in 0 .. 9 /\ ip[3 * g + 1] \in 0 .. 9 /\ ip[3 * g + 2] \in 0 .. 9
    BY <2>2
  <2>4. addr[g] = 100 * ip[3 * g] + 10 * ip[3 * g + 1] + ip[3 * g + 2]
    BY DEF Group
  <2>5. /\ (addr[g] \div 100) % 10 = ip[3 * g]
        /\ (addr[g] \div 10) % 10 = ip[3 * g + 1]
        /\ (addr[g] \div 1) % 10 = ip[3 * g + 2]
    BY <2>3, <2>4, ThreeDigits
  <2> HIDE DEF addr
  <2>6. CASE r = 0
    <3>1. d = 3 * g /\ <<100, 10, 1>>[1 + (d % 3)] = 100
      BY <2>1, <2>6
    <3> QED BY <2>1, <2>5, <3>1
  <2>7. CASE r = 1
    <3>1. d = 3 * g + 1 /\ <<100, 10, 1>>[1 + (d % 3)] = 10
      BY <2>1, <2>7
    <3> QED BY <2>1, <2>5, <3>1
  <2>8. CASE r = 2
    <3>1. d = 3 * g + 2 /\ <<100, 10, 1>>[1 + (d % 3)] = 1
      BY <2>1, <2>8
    <3> QED BY <2>1, <2>5, <3>1
  <2> QED BY <2>6, <2>7, <2>8
<1>2. GetEditIP(ip) = addr
  BY BytesOfDigits
<1> HIDE DEF addr
<1> QED BY <1>1, <1>2 DEF SetEditIP

LEMMA ConnectsStep ==
  ASSUME NetworkInv, NetworkInv', NetworkNext, peerAddr' # peerAddr
  PROVE  IF digitIP = -1 THEN peerAddr' = LocalHost
         ELSE (\A g \in 0 .. 3 : Group(networkIP', g) <= 255) =>
                SetEditIP(peerAddr') = networkIP'
<1>1. NetworkInput
  BY DEF NetworkNext, Draw, ClientThread, ServerThread, screenVars
<1>2. PICK pressed \in SUBSET NetButton :
        IF digitIP # -1 THEN EditInput(pressed) ELSE OptionInput(pressed)
  BY <1>1 DEF NetworkInput
<1>3. CASE digitIP # -1
  <2>1. EditInput(pressed)
    BY <1>2, <1>3
  <2>2. "CROSS" \in pressed
    BY <2>1 DEF EditInput
  <2>3. ConnectTo(GetEditIP(networkIP'))
    BY <2>1, <2>2 DEF EditInput
  <2>4. peerAddr' = GetEditIP(networkIP')
    BY <2>3 DEF ConnectTo
  <2>5. networkIP' \in [0 .. 11 -> 0 .. 9]
    BY DEF NetworkInv
  <2> QED BY <1>3, <2>4, <2>5, DigitsOfBytes
<1>4. CASE digitIP = -1
  <2>1. SwitchServer(Latency(pressed))
    BY <1>2, <1>4 DEF OptionInput, ChooseOption, EnterOption
  <2>2. ConnectTo(LocalHost)
    BY <2>1 DEF SwitchServer
  <2> QED BY <1>4, <2>2 DEF ConnectTo
<1> QED BY <1>3, <1>4

\* Whatever address the player enters, the client is sent to the one that the screen
\* shows (GetEditIP, SetEditIP, CNetworkScreen::Input).
THEOREM AddressIsShown == NetworkSpec => ConnectsToShown
<1>1. NetworkInv /\ NetworkInv' /\ [NetworkNext]_networkVars =>
        [peerAddr' # peerAddr =>
           IF digitIP = -1 THEN peerAddr' = LocalHost
           ELSE (\A g \in 0 .. 3 : Group(networkIP', g) <= 255) =>
                  SetEditIP(peerAddr') = networkIP']_networkVars
  BY ConnectsStep
<1> QED BY <1>1, NetworkInvHolds, PTL DEF NetworkSpec, ConnectsToShown

-----------------------------------------------------------------------------
\* The screen of the files.  Of what it keeps, a proof needs that a path is a sequence.
DirIsPath == \E S : dir \in Seq(S)

LEMMA PathAppended ==
  ASSUME NEW S, NEW d \in Seq(S), NEW x
  PROVE  /\ \E T : Append(d, x) \in Seq(T)
         /\ Last(Append(d, x)) = x /\ Front(Append(d, x)) = d
<1>1. d \in Seq(S \cup {x}) /\ x \in S \cup {x}
  <2>1. d \in [1 .. Len(d) -> S] /\ Len(d) \in Nat
    OBVIOUS
  <2>2. d \in [1 .. Len(d) -> S \cup {x}]
    BY <2>1
  <2> QED BY <2>1, <2>2
<1> DEFINE T == S \cup {x}
<1> HIDE DEF T
<1>2. d \in Seq(T) /\ x \in T
  BY <1>1 DEF T
<1>3. Append(d, x) \in Seq(T)
  BY <1>2
<1>4. Last(Append(d, x)) = x
  BY <1>2 DEF Last
<1>5. Front(Append(d, x)) = d
  <2>1. Len(Append(d, x)) = Len(d) + 1 /\ Len(d) \in Nat
    BY <1>2
  <2>2. Front(Append(d, x)) = SubSeq(Append(d, x), 1, Len(d))
    BY <2>1 DEF Front
  <2>3. SubSeq(Append(d, x), 1, Len(d)) \in Seq(T) /\ Len(SubSeq(Append(d, x), 1, Len(d))) = Len(d)
    BY <1>2, <1>3, <2>1
  <2>4. \A i \in 1 .. Len(d) : SubSeq(Append(d, x), 1, Len(d))[i] = d[i]
    BY <1>2, <1>3, <2>1
  <2> QED BY <1>2, <2>1, <2>2, <2>3, <2>4
<1> QED BY <1>3, <1>4, <1>5

LEMMA PathFront ==
  ASSUME NEW S, NEW d \in Seq(S), d # << >>
  PROVE  Front(d) \in Seq(S)
<1>1. Len(d) \in Nat /\ Len(d) # 0
  OBVIOUS
<1> QED BY <1>1 DEF Front

LEMMA DirStep == DirIsPath /\ [BrowserNext]_browserVars => DirIsPath'
<1> SUFFICES ASSUME DirIsPath, [BrowserNext]_browserVars PROVE DirIsPath'
  OBVIOUS
<1>1. PICK S : dir \in Seq(S)
  BY DEF DirIsPath
<1>2. CASE UNCHANGED browserVars
  BY <1>1, <1>2 DEF browserVars, DirIsPath
<1>3. ASSUME NEW pressed, SubInput(pressed) PROVE dir' = dir
  <2>1. CASE Shows(Here)
    BY <2>1 DEF Shows, Here
  <2>2. CASE CopyIt
    BY <2>2 DEF CopyIt, Shows, Here
  <2>3. CASE PasteIt
    BY <2>3 DEF PasteIt, Views, Opened, Shows
  <2>4. CASE DeleteIt
    <3>1. PICK view \in Views(dirs', files', dir) : Shows(view)
      BY <2>4 DEF DeleteIt
    <3> QED BY <3>1 DEF Views, Opened, Shows
  <2> QED BY <1>3, <2>1, <2>2, <2>3, <2>4 DEF SubInput
<1>4. ASSUME NEW pressed, ListInput(pressed) PROVE DirIsPath'
  <2>1. PICK up \in (IF "TRIANGLE" \in pressed THEN Views(dirs, files, Parent(dir))
                     ELSE {Moved(pressed)}) :
          \/ Shows(up)
          \/ \E view \in Views(dirs, files, EntryPath(up)) : Shows(view)
    BY <1>4 DEF ListInput
  <2>2. up.dir \in Seq(S)
    <3>1. CASE "TRIANGLE" \in pressed
      <4>1. up.dir = Parent(dir)
        BY <2>1, <3>1 DEF Views, Opened
      <4> QED BY <1>1, <4>1, PathFront DEF Parent
    <3>2. CASE "TRIANGLE" \notin pressed
      <4>1. up = Moved(pressed)
        BY <2>1, <3>2
      <4>2. up.dir = dir
        BY <4>1 DEF Moved, Here
      <4> QED BY <1>1, <4>2
    <3> QED BY <3>1, <3>2
  <2>3. CASE Shows(up)
    BY <2>2, <2>3 DEF Shows, DirIsPath
  <2>4. CASE \E view \in Views(dirs, files, EntryPath(up)) : Shows(view)
    <3>1. dir' = Append(up.dir, EntryOf(up).name)
      BY <2>4 DEF Views, Opened, Shows, EntryPath
    <3>2. \E T : Append(up.dir, EntryOf(up).name) \in Seq(T)
      BY <2>2, PathAppended
    <3> QED BY <3>1, <3>2 DEF DirIsPath
  <2> QED BY <2>1, <2>3, <2>4
<1>5. CASE BrowserNext
  <2>1. PICK pressed \in SUBSET PadButton : SubInput(pressed) \/ ListInput(pressed)
    BY <1>5 DEF BrowserNext, Input
  <2>2. CASE SubInput(pressed)
    BY <1>1, <1>3, <2>2 DEF DirIsPath
  <2> QED BY <1>4, <2>1, <2>2
<1> QED BY <1>2, <1>5

\* How the file of a path may be lost or changed.
KeptBy(p) ==
  \/ p \in DOMAIN files' /\ files'[p] = files[p]
  \/ p \notin DOMAIN files' /\ HasEntry(Here) /\ p = EntryPath(Here)
  \/ /\ p \in DOMAIN files' /\ copied \in DOMAIN files /\ Front(p) = dir
     /\ \/ Last(p) = Last(copied) /\ Head(dir) \notin Card
        \/ Last(p) = CutName[Last(copied)] /\ Head(dir) \in Card
     /\ files'[p] \in IF p = copied THEN {Empty} ELSE {files[copied], Part, Empty}

LEMMA PasteKeeps ==
  ASSUME DirIsPath, PasteIt, NEW p \in DOMAIN files PROVE KeptBy(p)
<1> DEFINE name == PastedName(dir, Last(copied))
           to == Append(dir, name)
<1>1. CASE files' = files
  BY <1>1 DEF KeptBy
<1>2. CASE files' # files
  <2>1. files' \in CopyFile(files, to, copied)
    BY <1>2 DEF PasteIt
  <2>2. /\ copied \in DOMAIN files
        /\ \E content \in (IF to = copied THEN {Empty} ELSE {files[copied], Part, Empty}) :
             files' = Put(files, to, content)
    BY <1>2, <2>1 DEF CopyFile
  <2>3. Last(to) = name /\ Front(to) = dir
    BY PathAppended DEF DirIsPath
  <2>4. IF Head(dir) \in Card THEN name = CutName[Last(copied)] ELSE name = Last(copied)
    BY DEF PastedName
  <2> HIDE DEF to, name
  <2>5. PICK content \in (IF to = copied THEN {Empty} ELSE {files[copied], Part, Empty}) :
          files' = Put(files, to, content)
    BY <2>2
  <2>6. p \in DOMAIN files' /\ files'[p] = IF p = to THEN content ELSE files[p]
    BY <2>5 DEF Put
  <2>7. CASE p # to
    BY <2>6, <2>7 DEF KeptBy
  <2>8. CASE p = to
    BY <2>2, <2>3, <2>4, <2>5, <2>6, <2>8 DEF KeptBy
  <2> QED BY <2>7, <2>8
<1> QED BY <1>1, <1>2

LEMMA FilesStep ==
  ASSUME DirIsPath, BrowserNext, NEW p \in DOMAIN files PROVE KeptBy(p)
<1>1. PICK pressed \in SUBSET PadButton : SubInput(pressed) \/ ListInput(pressed)
  BY DEF BrowserNext, Input
<1>2. CASE files' = files
  BY <1>2 DEF KeptBy
<1>3. CASE files' # files
  <2>1. HasEntry(Here) /\ (PasteIt \/ DeleteIt)
    BY <1>1, <1>3 DEF SubInput, ListInput, CopyIt
  <2>2. CASE PasteIt
    BY <2>2, PasteKeeps
  <2>3. CASE DeleteIt
    <3>1. files' = [q \in DOMAIN files \ {EntryPath(Here)} |-> files[q]]
      BY <1>3, <2>3 DEF DeleteIt, Removals
    <3> QED BY <2>1, <3>1 DEF KeptBy
  <2> QED BY <2>1, <2>2, <2>3
<1> QED BY <1>2, <1>3

\* Whatever the files are, whatever is pressed, whichever names are cut to the same one
\* on a card and wherever a copy fails: a file is lost because it was selected and
\* deleted, because one of its name, or of a name cut to it, was pasted over it, whole
\* or not, or because it was pasted over itself (MenuEvent, PathTruncFileName, CopyFile).
THEOREM FilesAreKeptHolds == BrowserSpec => FilesAreKept
<1>1. BrowserInit => DirIsPath
  <2>1. << >> \in Seq({})
    OBVIOUS
  <2> QED BY <2>1 DEF BrowserInit, DirIsPath
<1>2. DirIsPath /\ [BrowserNext]_browserVars =>
        [\A p \in DOMAIN files :
           \/ p \in DOMAIN files' /\ files'[p] = files[p]
           \/ p \notin DOMAIN files' /\ HasEntry(Here) /\ p = EntryPath(Here)
           \/ /\ p \in DOMAIN files' /\ copied \in DOMAIN files /\ Front(p) = dir
              /\ \/ Last(p) = Last(copied) /\ Head(dir) \notin Card
                 \/ Last(p) = CutName[Last(copied)] /\ Head(dir) \in Card
              /\ files'[p] \in IF p = copied THEN {Empty}
                               ELSE {files[copied], Part, Empty}]_browserVars
  BY FilesStep DEF KeptBy
<1> QED BY <1>1, <1>2, DirStep, PTL DEF BrowserSpec, FilesAreKept

\* The list: what a view shows is what there is, and what is selected is shown.
ShownIn(v) ==
  /\ v.select \in Int /\ v.scroll \in Int
  /\ v.entries # << >> => 0 <= v.select /\ v.select < Len(v.entries) /\ 0 <= v.scroll
  /\ v.scroll <= v.select /\ v.select < v.scroll + MaxLines

ListInv == ShownIn(Here) /\ ListingIsTrue

LEMMA ListingLength ==
  ASSUME NEW ds, NEW fs, NEW d, NEW s \in Listings(ds, fs, d)
  PROVE  Len(s) \in Nat /\ (s # << >> => Len(s) > 0)
<1> DEFINE all == Directory(ds, fs, d)
<1>1. PICK n \in 0 .. MaxEntries : s \in [1 .. n -> all]
  BY DEF Listings
<1> HIDE DEF all
<1>2. s \in Seq(all) /\ Len(s) = n /\ n \in Nat
  BY <1>1, BrowserAssumption
<1> QED BY <1>2

LEMMA ViewsShow ==
  ASSUME NEW ds, NEW fs, NEW d, NEW v \in Views(ds, fs, d)
  PROVE  ShownIn(v) /\ v.dir = d /\ v.entries \in Listings(ds, fs, d)
<1>1. PICK listing \in Listings(ds, fs, d) : v = Opened(d, listing)
  BY DEF Views
<1>2. v.dir = d /\ v.entries = listing /\ v.select = 0 /\ v.scroll = 0
  BY <1>1 DEF Opened
<1> QED BY <1>2, ListingLength, BrowserAssumption DEF ShownIn

LEMMA MovedShows ==
  ASSUME ListInv, NEW pressed
  PROVE  ShownIn(Moved(pressed)) /\ Moved(pressed).dir = dir /\ Moved(pressed).entries = entries
<1> DEFINE wanted == select + Is("UP", pressed, -1) + Is("DOWN", pressed, 1)
                       + Is("SQUARE", pressed, 1 - MaxLines) + Is("CIRCLE", pressed, MaxLines - 1)
           at == Clamp(wanted, Len(entries) - 1)
           m == Moved(pressed)
<1>1. MaxLines \in Nat /\ MaxLines >= 2
  BY BrowserAssumption
<1>2. select \in Int /\ scroll \in Int /\ (entries # << >> => 0 <= scroll)
  BY DEF ListInv, ShownIn, Here
<1>3. Len(entries) \in Nat /\ (entries # << >> => Len(entries) > 0)
  BY ListingLength DEF ListInv, ListingIsTrue
<1>4. wanted \in Int
  BY <1>1, <1>2 DEF Is
<1>5. m.dir = dir /\ m.entries = entries /\ m.select = at /\ m.scroll = Scrolled(scroll, at)
  BY DEF Moved, Here
<1> HIDE DEF wanted, m
<1>6. at \in Int /\ (entries # << >> => 0 <= at /\ at < Len(entries))
  BY <1>3, <1>4 DEF Clamp
<1> HIDE DEF at
<1>7. /\ Scrolled(scroll, at) \in Int
      /\ entries # << >> => 0 <= Scrolled(scroll, at)
      /\ Scrolled(scroll, at) <= at /\ at < Scrolled(scroll, at) + MaxLines
  BY <1>1, <1>2, <1>6 DEF Scrolled
<1>8. ShownIn(m)
  BY <1>5, <1>6, <1>7 DEF ShownIn
<1> QED BY <1>5, <1>8 DEF m

\* Every step ends in a view of the files as they are then.
LEMMA ListStep ==
  ASSUME ListInv, BrowserNext
  PROVE  \E v : Shows(v) /\ ShownIn(v) /\ v.entries \in Listings(dirs', files', v.dir)
<1>1. PICK pressed \in SUBSET PadButton : SubInput(pressed) \/ ListInput(pressed)
  BY DEF BrowserNext, Input
<1>2. ShownIn(Here) /\ Here.entries \in Listings(dirs, files, Here.dir)
  BY DEF ListInv, ListingIsTrue, Here
<1>3. CASE Shows(Here) /\ UNCHANGED <<dirs, files>>
  BY <1>2, <1>3
<1>4. CASE \E v \in Views(dirs', files', dir) : Shows(v)
  BY <1>4, ViewsShow
<1>5. CASE SubInput(pressed)
  BY <1>3, <1>4, <1>5 DEF SubInput, CopyIt, PasteIt, DeleteIt
<1>6. CASE ListInput(pressed)
  <2>1. UNCHANGED <<dirs, files>>
    BY <1>6 DEF ListInput
  <2>2. PICK up \in (IF "TRIANGLE" \in pressed THEN Views(dirs, files, Parent(dir))
                     ELSE {Moved(pressed)}) :
          \/ Shows(up)
          \/ \E view \in Views(dirs, files, EntryPath(up)) : Shows(view)
    BY <1>6 DEF ListInput
  <2>3. ShownIn(up) /\ up.entries \in Listings(dirs, files, up.dir)
    <3>1. CASE "TRIANGLE" \in pressed
      <4>1. up \in Views(dirs, files, Parent(dir))
        BY <2>2, <3>1
      <4> QED BY <4>1, ViewsShow
    <3>2. CASE "TRIANGLE" \notin pressed
      <4>1. up = Moved(pressed)
        BY <2>2, <3>2
      <4> QED BY <4>1, MovedShows DEF ListInv, ListingIsTrue
    <3> QED BY <3>1, <3>2
  <2>4. CASE \E view \in Views(dirs, files, EntryPath(up)) : Shows(view)
    BY <2>1, <2>4, ViewsShow
  <2> QED BY <2>1, <2>2, <2>3, <2>4
<1> QED BY <1>1, <1>5, <1>6

LEMMA ListInvHolds == BrowserSpec => []ListInv
<1>1. BrowserInit => ListInv
  <2> SUFFICES ASSUME BrowserInit PROVE ListInv
    OBVIOUS
  <2>1. entries \in Listings(dirs, files, dir) /\ select = 0 /\ scroll = 0
    BY DEF BrowserInit
  <2> QED BY <2>1, ListingLength, BrowserAssumption DEF ListInv, ListingIsTrue, ShownIn, Here
<1>2. ListInv /\ [BrowserNext]_browserVars => ListInv'
  <2> SUFFICES ASSUME ListInv, [BrowserNext]_browserVars PROVE ListInv'
    OBVIOUS
  <2>1. CASE BrowserNext
    <3>1. PICK v : Shows(v) /\ ShownIn(v) /\ v.entries \in Listings(dirs', files', v.dir)
      BY <2>1, ListStep
    <3> QED BY <3>1 DEF Shows, ListInv, ListingIsTrue, ShownIn, Here
  <2>2. CASE UNCHANGED browserVars
    BY <2>2 DEF browserVars, ListInv, ListingIsTrue, ShownIn, Here
  <2> QED BY <2>1, <2>2
<1> QED BY <1>1, <1>2, PTL DEF BrowserSpec

\* For every tree of files, size of the screen and of the listing: what is selected is an
\* entry of the list and on the screen, however the list changed, and the list is that of
\* the directory as it is now, after every copy and deletion of the screen
\* (CBrowserScreen::Input, CBrowserScreen::MenuEvent, SetDir).
THEOREM ListIsRightHolds == BrowserSpec => []ListIsRight
<1>1. ListInv => SelectionIsShown
  BY DEF ListInv, ShownIn, Here, SelectionIsShown, HasEntry
<1>2. ListInv => ListIsRight
  BY <1>1 DEF ListInv, ListIsRight
<1> QED BY <1>2, ListInvHolds, PTL
=============================================================================
