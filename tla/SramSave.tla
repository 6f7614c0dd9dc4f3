------------------------------ MODULE SramSave ------------------------------
(* The battery-backed RAM of the game that is played, and the files in which *)
(* it is kept (mainloop.cpp: _MainLoopCheckSRAM, _MainLoopSaveSRAM,          *)
(* _MainLoopLoadSRAM, _MenuEnable, _MainLoopExecuteFile,                     *)
(* _MainLoopUnloadRom; mcsave_ee.c and memcard.cpp for the card).  The main  *)
(* loop compares a checksum of the RAM after every frame and writes the file *)
(* when nothing has changed for a while, or when the menu is opened.  A net  *)
(* game is loaded and unloaded by a callback, without its RAM, at any time:  *)
(* also while the main loop waits for the card.                              *)
EXTENDS Integers

CONSTANTS
  SramGame,        \* the games
  SameName,        \* those of them whose names are cut to the same one
  SramValue,       \* contents of the RAM: 0 is that of a console after a reset
  SUM_RANGE,       \* contents that are equal modulo this have the same checksum
  AutoSaveTime     \* frames without a change until the RAM is saved (480)

ASSUME SramAssumption ==
  /\ SramValue \subseteq Nat /\ 0 \in SramValue
  /\ SUM_RANGE \in Nat \ {0} /\ AutoSaveTime \in Nat \ {0}
  /\ SameName \subseteq SramGame

VARIABLES
  sramSystem,      \* the game _pSystem runs; "none": NULL
  romName,         \* _RomName, which the path of the file is made of
  sram,            \* m_SRam
  sramChecksum,    \* _MainLoop_SRAMChecksum
  sramUpdated,     \* _MainLoop_SRAMUpdated
  saveCounter,     \* _MainLoop_SaveCounter
  sramMenu,        \* _bMenu
  card,            \* what each file holds
  saving,          \* the file a save has opened, what it was for, and whether a net
                   \* game has been loaded since
  ramOf,           \* history: the game whose RAM m_SRam is
  written          \* history: what became of the last change the game has made to it
sramVars == <<sramSystem, romName, sram, sramChecksum, sramUpdated, saveCounter, sramMenu,
              card, saving, ramOf, written>>

NoFile == -1       \* no file of that name
Cut == -2          \* a file that was not written to its end
NoSave == [file |-> "none", for |-> "none", overtaken |-> FALSE]

\* PathTruncFileName: a long name is cut, and ends with a number made of all of it.
SaveName(game) == IF game \in SameName THEN CHOOSE g \in SameName : TRUE ELSE game
_CalcChecksum(ram) == ram % SUM_RANGE

\* GetSRAMBytes() > 0: every game here has such a RAM.
_MainLoopHasSRAM == sramSystem # "none"
Waiting == saving # NoSave

SramInit ==
  /\ sramSystem = "none" /\ romName = "none" /\ sram = 0 /\ ramOf = "none" /\ written = "no"
  /\ sramChecksum = 0 /\ sramUpdated = FALSE /\ saveCounter = 0
  /\ sramMenu = TRUE
  /\ card = [g \in SramGame |-> NoFile]
  /\ saving = NoSave

-----------------------------------------------------------------------------
(* _MainLoopSaveSRAM: the path is made and the file opened first, the RAM is *)
(* read when the card has answered.                                          *)
_MainLoopSaveSRAM(for) ==
  saving' = [file |-> SaveName(romName), for |-> for, overtaken |-> FALSE]

(* Whatever the card answers, the menu opens.                                *)
SaveDone ==
  /\ saving' = NoSave
  /\ sramMenu' = (sramMenu \/ saving.for = "menu")
  /\ UNCHANGED <<sramSystem, romName, sram, sramChecksum, sramUpdated, saveCounter, ramOf>>

SaveEnds ==
  /\ Waiting
  /\ card' = [card EXCEPT ![saving.file] = sram]
  /\ SaveDone /\ UNCHANGED written

(* The file is not opened, or opened, which empties it, and not written to   *)
(* its end.  Nothing is tried again until there is another change, or the    *)
(* menu is opened.                                                           *)
SaveFails ==
  /\ Waiting
  /\ card' = card \/ card' = [card EXCEPT ![saving.file] = Cut]
  /\ SaveDone
  /\ written' = IF written = "noted" THEN "lost" ELSE written

(* _MainLoopCheckSRAM after a frame that has left the RAM as it is now: a    *)
(* change starts the wait, and its end is the save.                          *)
Changed(ram) == sramChecksum # _CalcChecksum(ram)
\* Faulty: the checksum is not kept.
NotedForgetful(ram) == sramChecksum
Noted(ram) == _CalcChecksum(ram)

Countdown(ram) == IF Changed(ram) THEN AutoSaveTime ELSE saveCounter

_MainLoopCheckSRAM(ram) ==
  IF _MainLoopHasSRAM
  THEN /\ sramUpdated' = (sramUpdated \/ Changed(ram))
       /\ sramChecksum' = Noted(ram)
       /\ saveCounter' = IF Countdown(ram) > 0 THEN Countdown(ram) - 1 ELSE 0
       /\ IF Countdown(ram) = 1 THEN _MainLoopSaveSRAM("frame") ELSE UNCHANGED saving
  ELSE UNCHANGED <<sramUpdated, sramChecksum, saveCounter, saving>>

(* A frame of the main loop: the game runs unless the menu is open.          *)
RunSramFrame(ram) ==
  /\ ~ Waiting
  /\ ram # sram => _MainLoopHasSRAM /\ ~ sramMenu
  /\ sram' = ram
  /\ written' = IF ram = sram THEN written ELSE IF Changed(ram) THEN "noted" ELSE "unseen"
  /\ _MainLoopCheckSRAM(ram)
  /\ UNCHANGED <<sramSystem, romName, sramMenu, card, ramOf>>

(* _MenuEnable(TRUE): a RAM that has changed since it was loaded is saved.   *)
OpenMenu ==
  /\ ~ Waiting /\ ~ sramMenu
  /\ IF _MainLoopHasSRAM /\ sramUpdated
     THEN _MainLoopSaveSRAM("menu") /\ UNCHANGED sramMenu
     ELSE sramMenu' = TRUE /\ UNCHANGED saving
  /\ UNCHANGED <<sramSystem, romName, sram, sramChecksum, sramUpdated, saveCounter, card, ramOf, written>>

(* _MenuEnable(FALSE), of the main loop or of a net game that starts.         *)
CloseMenu ==
  /\ sramMenu
  /\ sramMenu' = FALSE
  /\ UNCHANGED <<sramSystem, romName, sram, sramChecksum, sramUpdated, saveCounter, card, saving, ramOf, written>>

-----------------------------------------------------------------------------
\* Faulty: the game that is given up stays the game that is played.
_MainLoopUnloadRomKept(system) == system
_MainLoopUnloadRom(system) == "none"

\* SnesSystem::Reset clears the RAM.
Starts(game) == sramSystem' = game /\ romName' = game /\ ramOf' = game /\ written' = "no"

(* A file that cannot be read, or not to its end, leaves the checksum of the *)
(* game before.                                                              *)
_MainLoopLoadSRAM(game) ==
  LET file == card[SaveName(game)] IN
  /\ sramUpdated' = FALSE /\ saveCounter' = 0
  /\ \/ file = NoFile /\ sram' = 0 /\ UNCHANGED sramChecksum
     \/ file # NoFile /\ sram' \in SramValue /\ UNCHANGED sramChecksum
     \/ file \in SramValue /\ sram' = file /\ sramChecksum' = _CalcChecksum(file)

(* _MainLoopExecuteFile from the menu: the old game is unloaded, the new one *)
(* started with what its file holds.                                         *)
LoadGame(game) ==
  /\ ~ Waiting /\ sramMenu
  /\ Starts(game)
  /\ _MainLoopLoadSRAM(game)
  /\ sramMenu' = FALSE
  /\ UNCHANGED <<card, saving>>

(* A file that turns out to be no game has given its name, and the old game  *)
(* is unloaded all the same.                                                 *)
LoadFails(game) ==
  /\ sramSystem' = _MainLoopUnloadRom(sramSystem)
  /\ romName' = game
  /\ UNCHANGED <<sram, sramChecksum, sramUpdated, saveCounter, sramMenu, card, saving, ramOf, written>>

LoadGameFails(game) == ~ Waiting /\ sramMenu /\ LoadFails(game)

(* The callbacks of the net client, on a thread of their own: they ask nobody *)
(* whether a save is under way.                                              *)
NetLoadGame(game) ==
  /\ Starts(game)
  /\ sram' = 0
  /\ saving' = IF Waiting THEN [saving EXCEPT !.overtaken = TRUE] ELSE saving
  /\ UNCHANGED <<sramChecksum, sramUpdated, saveCounter, sramMenu, card>>

NetLoadFails(game) == LoadFails(game)

NetUnloadGame ==
  /\ sramSystem' = _MainLoopUnloadRom(sramSystem)
  /\ UNCHANGED <<romName, sram, sramChecksum, sramUpdated, saveCounter, sramMenu, card, saving, ramOf, written>>

SramNext == \/ \E ram \in SramValue : RunSramFrame(ram)
            \/ SaveEnds \/ SaveFails \/ OpenMenu \/ CloseMenu
            \/ \E game \in SramGame : \/ LoadGame(game) \/ LoadGameFails(game)
                                        \/ NetLoadGame(game) \/ NetLoadFails(game)
            \/ NetUnloadGame
SramSpec == SramInit /\ [][SramNext]_sramVars
\* The main loop runs on, whether the game writes or not, and the card answers.
SramFairness == WF_sramVars(RunSramFrame(sram)) /\ WF_sramVars(SaveEnds \/ SaveFails)
FairSramSpec == SramSpec /\ SramFairness

-----------------------------------------------------------------------------
(* A file is only overwritten, or left half written, by a game whose name is *)
(* the file's, whatever is loaded and unloaded while a save is due or under  *)
(* way.  The one way for it to get the RAM of another game is a net game     *)
(* that is loaded while the save waits for the card: it is that save's file, *)
(* and no other (_MainLoopSaveSRAM, _MainLoopNetCallback).                   *)
FilesStayApart ==
  [][\A file \in SramGame : card'[file] # card[file] =>
       SaveName(ramOf) = file \/ (saving.overtaken /\ saving.file = file)]_sramVars

(* What a game has written to its RAM and left there is in its file in the   *)
(* end, unless the game is given up before.  A save that fails loses it, and *)
(* a change is not seen when the checksum is the kept one, be it that of the *)
(* game before (_MainLoopCheckSRAM, _MainLoopLoadSRAM).                      *)
NothingUnsaved ==
  \A g \in SramGame, r \in SramValue :
    ~ <>[](sramSystem = g /\ sram = r /\ written = "noted" /\ card[SaveName(g)] # r)
=============================================================================
