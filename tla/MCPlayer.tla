------------------------------ MODULE MCPlayer ------------------------------
(***************************************************************************)
(* What the player has in hand, part by part in one run: the pads and the  *)
(* keys of the main loop, the joypads of the emulated console, and the     *)
(* screens with the files and with the network.  "device" says which one a *)
(* behaviour is about, the others stay where they begin.                   *)
(***************************************************************************)
EXTENDS MainLoopKeys, SnesIO, Browser, NetworkScreen

VARIABLE device

playerVars == <<device, keysVars, ioVars, browserVars, networkVars>>

\* Frames with no pads, with two, and with a multitap and a pad in each of its slots.
PlayerInputs ==
  {[p \in Pad |-> DISCONNECTED],
   [p \in Pad |-> IF p < 2 THEN {15, 4 + p} ELSE DISCONNECTED],
   [p \in Pad |-> {15 - p, 14, 8}]}

\* 10.0.0.7
PlayerAddress == {[g \in 0 .. 3 |-> IF g = 0 THEN 10 ELSE IF g = 3 THEN 7 ELSE 0]}

\* A card without files, a stick, and a disc; both names are cut to the second one.
PlayerFiles == {<<2, 7>>, <<3, 6>>}
PlayerDirs == {<<1, 5>>}
PlayerCuts == [n \in FileName |-> 7]

PlayerInit ==
  /\ device \in {"pads", "joypads", "browser", "network"}
  /\ KeysInit /\ IOInit
  /\ BrowserInit /\ NetworkInit
  /\ device # "browser" => dirs = {} /\ entries = CHOOSE e \in Listings(dirs, files, dir) : TRUE

PadsRun == device = "pads" /\ KeysNext /\ UNCHANGED <<ioVars, browserVars, networkVars>>
JoypadsRun == device = "joypads" /\ IONext /\ UNCHANGED <<keysVars, browserVars, networkVars>>
BrowserRuns == device = "browser" /\ BrowserNext /\ UNCHANGED <<keysVars, ioVars, networkVars>>
NetworkRuns == device = "network" /\ NetworkNext /\ UNCHANGED <<keysVars, ioVars, browserVars>>

PlayerNext == (PadsRun \/ JoypadsRun \/ BrowserRuns \/ NetworkRuns) /\ UNCHANGED device
PlayerSpec == PlayerInit /\ [][PlayerNext]_playerVars
=============================================================================
