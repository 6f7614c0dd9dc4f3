---------------------------- MODULE MainLoopKeys ----------------------------
(***************************************************************************)
(* What the buttons do to the main loop (mainloop.cpp: MainLoopProcess up  *)
(* to the frame of the console, _MainLoopInputProcess, _MainLoopInput).    *)
(* The buttons of four pads are taken together.  A press of L2 and R2, one *)
(* shortly after the other, opens and closes the menu; buttons held with   *)
(* L2 are keys of the main loop, and L1 and R1 turn the screens of the     *)
(* menu.  Buttons that are held are pressed anew after a while.  A game is *)
(* loaded; the disks of the other console are left out, and what the       *)
(* callbacks of the netplay client do between two frames (MainLoop).       *)
(***************************************************************************)
EXTENDS Naturals, FiniteSets

-----------------------------------------------------------------------------
(***************************************************************************)
(* The pads of the console the program runs on (input.cpp).  A poll reads  *)
(* the pads that were there at the poll before, and asks afterwards which  *)
(* are there now; the answer of a read is not looked at, so that the read  *)
(* of a pad that is gone leaves what the stack held.  Pads are plugged in  *)
(* and pulled out at any time between two polls.                           *)
(***************************************************************************)

CONSTANTS
  Button,          \* the buttons of a pad
  FirstHolds,      \* what is held on the first pad at a poll, sets of buttons
  OthersHold,      \* and on the others
  INPUT_MAXPADS,   \* ports and slots, with multitaps
  XPad             \* whether the driver with multitaps is there

ASSUME PadsAssumption ==
  /\ INPUT_MAXPADS \in Nat /\ INPUT_MAXPADS >= 5 /\ XPad \in BOOLEAN
  /\ FirstHolds \cup OthersHold \subseteq SUBSET Button

VARIABLES
  padData,         \* _Input_PadData
  padConnected,    \* _Input_bPadConnected
  present,         \* history: the pads that were there at this poll, and what was
  held             \* held on those that had been there at the one before
padsVars == <<padData, padConnected, present, held>>

AnyPad == 0 .. INPUT_MAXPADS - 1
_Input_nPads == IF XPad THEN INPUT_MAXPADS ELSE 2
Pads == 0 .. _Input_nPads - 1

PadsInit ==
  /\ padData = [p \in AnyPad |-> {}]
  /\ padConnected = [p \in AnyPad |-> FALSE]
  /\ present = {} /\ held = [p \in AnyPad |-> {}]

InputIsPadConnected(p) == p \in Pads /\ padConnected[p]

\* Faulty: the data of a pad that has just gone is given.
InputGetPadDataStale(p) == IF p \in Pads THEN padData[p] ELSE {}
InputGetPadData(p) == IF InputIsPadConnected(p) THEN padData[p] ELSE {}

\* The pads that are read.
Reads == {p \in Pads : padConnected[p]}

\* There are the pads of "there" now, whose state is STABLE or FINDCTP1, with "holds"
\* on each; the read of another pad leaves some "rest".
InputPoll(there, holds, rest) ==
  /\ padData' = [p \in AnyPad |->
       IF p \notin Reads THEN (IF p \in Pads THEN {} ELSE padData[p])
       ELSE IF p \in there THEN holds[p] ELSE rest]
  /\ padConnected' = [p \in AnyPad |-> IF p \in Pads THEN p \in there ELSE padConnected[p]]
  /\ present' = there
  /\ held' = [p \in AnyPad |-> IF p \in present \cap there THEN holds[p] ELSE {}]

-----------------------------------------------------------------------------

CONSTANTS
  MENU_REPEAT,     \* frames until a button repeats (16)
  MENU_TIMEOUT     \* frames between the two buttons of the menu (5)

ASSUME KeysAssumption == MENU_REPEAT \in Nat \ {0} /\ MENU_TIMEOUT \in Nat \ {0}

VARIABLES
  lastbuttons, repeat,      \* statics of _MainLoopInputProcess
  menuTimeout,              \* _MenuTriggerTimeout, of L2 and of R2
  keysMenu,                 \* _bMenu
  screen,                   \* _MainLoop_pScreen
  blackScreen,              \* _MainLoop_BlackScreen
  trigger,                  \* the buttons pressed in this frame
  called,                   \* the functions of the main loop called in it
  heldFor,                  \* history: frames a button that repeats has been held
  since                     \* history: frames since L2 and R2 were pressed, capped
keysVars == <<padsVars, lastbuttons, repeat, menuTimeout, keysMenu, screen, blackScreen,
              trigger, called, heldFor, since>>

MENU_REPEATBUTTONS ==
  Button \cap {"UP", "DOWN", "SQUARE", "CIRCLE", "CROSS", "TRIANGLE", "LEFT", "RIGHT"}
MenuKeys == {"L2", "R2"}
Disconnected == "EMUSYS_DEVICE_DISCONNECTED"

\* The screens in the order of R1.
Screens == <<"browser", "network", "menu", "log">>
Turned(s, by) ==
  Screens[1 + (((CHOOSE i \in 1 .. 4 : Screens[i] = s) - 1 + by) % 4)]

\* Frames since, as long as they matter.
Later(n) == IF n > MENU_TIMEOUT THEN n ELSE n + 1

KeysInit ==
  /\ PadsInit
  /\ lastbuttons = Button /\ repeat = 0
  /\ menuTimeout = [k \in MenuKeys |-> 0]
  /\ keysMenu = TRUE /\ screen = "browser" /\ blackScreen = FALSE
  /\ trigger = {} /\ called = {}
  /\ heldFor = 0 /\ since = [k \in MenuKeys |-> MENU_TIMEOUT + 1]

-----------------------------------------------------------------------------
\* The frames in which buttons that repeat are held are counted together, up to
\* the one they repeat in; the frame in which the last is let go counts.
\* Faulty: the count goes on when they are let go.
CountedOn(buttons) == repeat + 1
Counted(buttons) == (IF buttons \cap MENU_REPEATBUTTONS = {} THEN 0 ELSE repeat) + 1

Triggered(buttons) ==
  buttons \ (IF Counted(buttons) > MENU_REPEAT THEN lastbuttons \ MENU_REPEATBUTTONS
             ELSE lastbuttons)

\* The keys of the main loop: a state is saved or loaded, the display of the
\* debugger is turned on, a clip is recorded or played.
KeyFunction == [CROSS |-> "_MainLoopSaveState", CIRCLE |-> "_MainLoopLoadState",
                TRIANGLE |-> "_MainLoop_uDebugDisplay", L3 |-> "RecordBegin",
                R3 |-> "PlayBegin"]
KeyCalls(buttons) ==
  IF "L2" \in buttons
  THEN {KeyFunction[b] : b \in Triggered(buttons) \cap DOMAIN KeyFunction}
  ELSE {}

\* The two timeouts: each is begun by its own button, looked at by the other one,
\* and runs down unless it is used.  A use of the first ends the function.
Begun(pressed, k) == IF k \in pressed THEN MENU_TIMEOUT ELSE menuTimeout[k]
UsedL2(pressed) == Begun(pressed, "L2") > 0 /\ "R2" \in pressed
UsedR2(pressed) == ~UsedL2(pressed) /\ Begun(pressed, "R2") > 0 /\ "L2" \in pressed
Toggles(pressed) == UsedL2(pressed) \/ UsedR2(pressed)
\* Faulty: a timeout that is over is not noticed.
RunDownNever(n) == n
RunDown(n) == IF n > 0 THEN n - 1 ELSE 0

Timeouts(pressed) ==
  [k \in MenuKeys |->
     IF k = "L2" THEN (IF UsedL2(pressed) THEN 0 ELSE RunDown(Begun(pressed, "L2")))
     ELSE IF UsedL2(pressed) THEN Begun(pressed, "R2")
     ELSE IF UsedR2(pressed) THEN 0 ELSE RunDown(Begun(pressed, "R2"))]

\* The buttons are Input of the screen that is shown otherwise: in the browser it may
\* load a game, and close the menu.
MenuOrGame(buttons, pressed) ==
  IF Toggles(pressed)
  THEN keysMenu' = ~keysMenu /\ called' = KeyCalls(buttons) \cup {"_MenuEnable"}
       /\ UNCHANGED <<screen, blackScreen>>
  ELSE IF ~keysMenu
  THEN /\ blackScreen' = (IF {"L2", "SELECT"} \subseteq buttons /\ "SELECT" \in pressed
                          THEN ~blackScreen ELSE blackScreen)
       /\ called' = KeyCalls(buttons)
       /\ UNCHANGED <<keysMenu, screen>>
  ELSE /\ screen' = (IF "R1" \in pressed THEN Turned(screen, 1)
                     ELSE IF "L1" \in pressed THEN Turned(screen, 3) ELSE screen)
       /\ IF {"L1", "R1"} \cap pressed = {}
          THEN /\ called' = KeyCalls(buttons) \cup {"Input"}
               /\ keysMenu' \in (IF screen = "browser" THEN BOOLEAN ELSE {TRUE})
          ELSE called' = KeyCalls(buttons) /\ UNCHANGED keysMenu
       /\ UNCHANGED blackScreen

_MainLoopInputProcess(buttons) ==
  LET pressed == Triggered(buttons)
  IN /\ trigger' = pressed
     /\ lastbuttons' = buttons
     /\ repeat' = IF Counted(buttons) > MENU_REPEAT THEN MENU_REPEAT ELSE Counted(buttons)
     /\ menuTimeout' = Timeouts(pressed)
     /\ MenuOrGame(buttons, pressed)
     /\ heldFor' = IF buttons \cap MENU_REPEATBUTTONS = {} THEN 0
                   ELSE IF heldFor > MENU_REPEAT THEN heldFor ELSE heldFor + 1
     /\ since' = [k \in MenuKeys |-> IF k \in pressed THEN 0 ELSE Later(since[k])]

\* A pad on which a key of the main loop is held gives the game no button.
_MainLoopInput(buttons) == IF buttons \cap {"L2", "R2"} = {} THEN buttons ELSE {}

PadsInput ==
  [p \in 0 .. 4 |-> IF InputIsPadConnected(p) THEN _MainLoopInput(InputGetPadData(p))
                    ELSE Disconnected]

Together == UNION {InputGetPadData(p) : p \in 0 .. 3}

MainLoopProcess(there, holds, rest) ==
  /\ InputPoll(there, holds, rest)
  /\ _MainLoopInputProcess(Together')

KeysNext ==
  \E there \in SUBSET Pads, first \in FirstHolds, others \in OthersHold,
     rest \in OthersHold :
    MainLoopProcess(there, [p \in Pads |-> IF p = 0 THEN first ELSE others], rest)

KeysSpec == KeysInit /\ [][KeysNext]_keysVars

-----------------------------------------------------------------------------
KeysTypeOK ==
  /\ padData \in [AnyPad -> SUBSET Button] /\ padConnected \in [AnyPad -> BOOLEAN]
  /\ lastbuttons \in SUBSET Button /\ repeat \in 0 .. MENU_REPEAT
  /\ menuTimeout \in [MenuKeys -> 0 .. MENU_TIMEOUT]
  /\ keysMenu \in BOOLEAN /\ blackScreen \in BOOLEAN
  /\ screen \in {Screens[i] : i \in 1 .. 4}
  /\ trigger \in SUBSET Button

\* The main loop and the game see no button that is not held: a pad that was plugged in
\* is silent for one poll, one that is gone is gone, whatever the read of it has left
\* (InputPoll, InputGetPadData).
NoPhantomButtons ==
  /\ Together = UNION {held[p] : p \in 0 .. 3}
  /\ \A p \in 0 .. 4 : IF p \in present THEN PadsInput[p] \in {held[p], {}}
                       ELSE PadsInput[p] = Disconnected

\* A press is a button that was not held before, or one that repeats: never before
\* such buttons have been held, together, for MENU_REPEAT frames without a gap, and
\* always after (_MainLoopInputProcess, trigger).
Pressed(from) ==
  (lastbuttons' \ lastbuttons)
    \cup {b \in lastbuttons' \cap MENU_REPEATBUTTONS : heldFor' >= from}

PressesAreRight ==
  [][trigger' \subseteq Pressed(MENU_REPEAT) /\ Pressed(MENU_REPEAT + 1) \subseteq trigger']_keysVars

\* The menu does not open or close by a single button: both were pressed, at most
\* MENU_TIMEOUT frames apart, the second one now (_MenuTriggerTimeout).
MenuNeedsBoth ==
  "_MenuEnable" \in called =>
    /\ \A k \in MenuKeys : since[k] <= MENU_TIMEOUT
    /\ \E k \in MenuKeys : since[k] = 0

\* Whatever acts was pressed: no button that is not held, and for the menu no button
\* alone, whichever pads come and go (InputPoll, _MainLoopInputProcess).
ButtonsAreReal == NoPhantomButtons /\ MenuNeedsBoth
=============================================================================
