------------------------------ MODULE Browser -------------------------------
(***************************************************************************)
(* The screen in which the player chooses a game, and its menu of files    *)
(* (uiBrowser.cpp, uiMenu.cpp; mainloop.cpp: CopyFile).  A path is the     *)
(* sequence of the names that lead to it; the empty one shows the drives.  *)
(* A listing is read when a directory is entered, and after the screen has *)
(* written to it; nothing else writes to the files.  A disc cannot be      *)
(* written to, and any other drive may fail to read or to write.           *)
(***************************************************************************)
EXTENDS Integers, SequencesExt

CONSTANTS
  Drive,           \* the drives
  Disc,            \* those that cannot be written to
  Card,            \* those that are memory cards
  DirName,         \* names of directories
  FileName,        \* names of files
  FirstFiles,      \* the files there are at first
  FirstDirs,       \* the directories there may be
  CutName,         \* what PathTruncFileName makes of a name on a card
  MaxLines,        \* lines of the screen (18)
  MaxEntries,      \* room of a listing (6000)
  MaxTriggers      \* bound: buttons that are pressed in one frame

ASSUME BrowserAssumption ==
  /\ MaxLines \in Nat /\ MaxLines >= 2 /\ MaxEntries \in Nat \ {0} /\ MaxTriggers \in Nat
  /\ Drive \cup DirName \cup FileName \subseteq Nat /\ Disc \cup Card \subseteq Drive
  /\ DirName \cap FileName = {} /\ CutName \in [FileName -> FileName]
  /\ FirstFiles \subseteq {<<v, f>> : v \in Drive, f \in FileName}
  /\ FirstDirs \subseteq {<<v, n>> : v \in Drive, n \in DirName}

VARIABLES
  dirs,            \* the directories there are, beside the drives
  files,           \* what each file holds, of those there are
  dir,             \* m_Dir
  entries,         \* m_pDirEntries, as a sequence
  select, scroll,  \* m_iSelect, m_iScroll
  subMenu,         \* m_bSubMenu
  subSelect,       \* m_iSelect of the menu of files
  copied           \* its texts: the path of the file to copy
browserVars == <<dirs, files, dir, entries, select, scroll, subMenu, subSelect, copied>>

NoPath == << >>
Empty == << >>     \* what a file without contents holds; others: where they were first
Part == <<0>>      \* what a file holds that was not copied to its end
MenuEntries == <<"Copy File", "Paste File", "Delete file">>
PadButton == {"SELECT", "UP", "DOWN", "SQUARE", "CIRCLE", "TRIANGLE", "CROSS", "START"}

\* Entries, and the order they are shown in: by type, then by name.
Entry(type, name) == [type |-> type, name |-> name]
TypeOrder == [DIR |-> 0, DRIVE |-> 1, FILE |-> 2]
Before(a, b) ==
  IF a.type = b.type THEN a.name < b.name ELSE TypeOrder[a.type] < TypeOrder[b.type]

Under(paths, d) == {Last(p) : p \in {q \in paths : q # << >> /\ Front(q) = d}}
Directory(ds, fs, d) ==
  IF d = << >> THEN {Entry("DRIVE", n) : n \in Drive}
  ELSE {Entry("DIR", n) : n \in Under(ds, d)} \cup {Entry("FILE", n) : n \in Under(DOMAIN fs, d)}

\* AddEntry takes what there is room for, whatever the driver tells first; SortEntries.
Listings(ds, fs, d) ==
  LET all == Directory(ds, fs, d)
  IN UNION {{s \in [1 .. n -> all] : /\ \A i, j \in 1 .. n : i < j => Before(s[i], s[j])
                                     /\ n < MaxEntries => Range(s) = all} :
              n \in 0 .. MaxEntries}

BrowserInit ==
  /\ dirs \in SUBSET FirstDirs
  /\ files = [p \in FirstFiles |-> p]
  /\ dir = << >> /\ entries \in Listings(dirs, files, << >>) /\ select = 0 /\ scroll = 0
  /\ subMenu = FALSE /\ subSelect = 0 /\ copied = NoPath

-----------------------------------------------------------------------------
\* SetDir, and the view of a directory after it.
Opened(d, listing) == [dir |-> d, entries |-> listing, select |-> 0, scroll |-> 0]
Views(ds, fs, d) == {Opened(d, listing) : listing \in Listings(ds, fs, d)}
Here == [dir |-> dir, entries |-> entries, select |-> select, scroll |-> scroll]
Shows(view) ==
  /\ dir' = view.dir /\ entries' = view.entries
  /\ select' = view.select /\ scroll' = view.scroll

\* GetEntryPath fails where no entry is selected.
HasEntry(view) == 0 <= view.select /\ view.select < Len(view.entries)
EntryOf(view) == view.entries[view.select + 1]
EntryPath(view) == Append(view.dir, EntryOf(view).name)

Clamp(n, most) == LET low == IF n < 0 THEN 0 ELSE n IN IF low > most THEN most ELSE low
Is(b, pressed, n) == IF b \in pressed THEN n ELSE 0

\* UP, DOWN, and a page with SQUARE and CIRCLE; the selection stays on the list, and
\* the list is moved until it shows.
\* Faulty: one line too late.
ScrolledLate(from, at) ==
  IF at < from THEN at ELSE IF at > from + MaxLines THEN at - MaxLines + 1 ELSE from
Scrolled(from, at) ==
  IF at < from THEN at ELSE IF at >= from + MaxLines - 1 THEN at - MaxLines + 1 ELSE from

Moved(pressed) ==
  LET at == Clamp(select + Is("UP", pressed, -1) + Is("DOWN", pressed, 1)
                    + Is("SQUARE", pressed, 1 - MaxLines) + Is("CIRCLE", pressed, MaxLines - 1),
                  Len(entries) - 1)
  IN [Here EXCEPT !.select = at, !.scroll = Scrolled(scroll, at)]

\* Chdir("..") of the drives is that of nothing.
Parent(d) == IF d = << >> THEN d ELSE Front(d)

-----------------------------------------------------------------------------
\* PathTruncFileName: a card has room for 32 characters, and the name of what is copied
\* to it ends with a number made of the whole name when it has as many; others keep theirs.
PastedName(d, name) == IF Head(d) \in Card THEN CutName[name] ELSE name

Put(fs, to, content) == [p \in DOMAIN fs \cup {to} |-> IF p = to THEN content ELSE fs[p]]

\* CopyFile: a source that is not there leaves the destination alone, and so does a
\* destination that cannot be opened.  It is emptied before the source is read: a file
\* that is copied over itself is lost, and what fails to be read or written is left out.
\* Faulty: the destination is opened first.
CopyOpening(fs, to, from) == {fs, Put(fs, to, Empty)}
CopyFile(fs, to, from) ==
  IF from \notin DOMAIN fs \/ Head(to) \in Disc THEN {fs}
  ELSE {fs} \cup {Put(fs, to, content) :
                     content \in IF to = from THEN {Empty} ELSE {fs[from], Part, Empty}}

\* fioRemove and fioRmdir, which leaves a directory that is not empty; or they fail.
Removals(fs, path) ==
  IF path \in DOMAIN fs /\ Head(path) \notin Disc
  THEN {fs, [p \in DOMAIN fs \ {path} |-> fs[p]]} ELSE {fs}
DirRemovals(ds, path) ==
  IF path \in ds /\ Head(path) \notin Disc /\ Directory(ds, files, path) = {}
  THEN {ds, ds \ {path}} ELSE {ds}

CopyIt ==
  /\ copied' = IF EntryOf(Here).type = "FILE" THEN EntryPath(Here) ELSE copied
  /\ UNCHANGED <<dirs, files>> /\ Shows(Here)

PasteIt ==
  /\ IF copied = NoPath \/ dir = << >> THEN UNCHANGED files
     ELSE files' \in CopyFile(files, Append(dir, PastedName(dir, Last(copied))), copied)
  /\ UNCHANGED <<dirs, copied>>
  /\ \E view \in Views(dirs', files', dir) : Shows(view)

\* Faulty: the listing is not read again.
DeleteQuietly ==
  /\ files' \in Removals(files, EntryPath(Here))
  /\ dirs' \in DirRemovals(dirs, EntryPath(Here))
  /\ UNCHANGED copied /\ Shows(Here)
DeleteIt ==
  /\ files' \in Removals(files, EntryPath(Here))
  /\ dirs' \in DirRemovals(dirs, EntryPath(Here))
  /\ UNCHANGED copied
  /\ \E view \in Views(dirs', files', dir) : Shows(view)

\* The menu of files keeps its place from one time to the next.  MenuEvent does nothing
\* where no entry is selected, and leaves the menu open then.
SubInput(pressed) ==
  /\ subSelect' = Clamp(subSelect + Is("UP", pressed, -1) + Is("DOWN", pressed, 1),
                        Len(MenuEntries) - 1)
  /\ IF {"CROSS", "START"} \cap pressed = {} \/ ~HasEntry(Here)
     THEN subMenu' = TRUE /\ UNCHANGED <<dirs, files, copied>> /\ Shows(Here)
     ELSE /\ subMenu' = FALSE
          /\ \/ subSelect' = 0 /\ CopyIt
             \/ subSelect' = 1 /\ PasteIt
             \/ subSelect' = 2 /\ DeleteIt

\* A directory is entered; a file is given to the main loop, which loads it.
ListInput(pressed) ==
  /\ subMenu' = FALSE
  /\ UNCHANGED <<dirs, files, copied, subSelect>>
  /\ \E up \in (IF "TRIANGLE" \in pressed THEN Views(dirs, files, Parent(dir))
                ELSE {Moved(pressed)}) :
       IF {"CROSS", "START"} \cap pressed # {} /\ HasEntry(up) /\ EntryOf(up).type # "FILE"
       THEN \E view \in Views(dirs, files, EntryPath(up)) : Shows(view)
       ELSE Shows(up)

\* SELECT opens and closes the menu of files, and the other buttons are for what is
\* open then.
Input(pressed) ==
  IF subMenu # ("SELECT" \in pressed) THEN SubInput(pressed) ELSE ListInput(pressed)

BrowserNext == \E pressed \in SUBSET PadButton : Cardinality(pressed) <= MaxTriggers /\ Input(pressed)

BrowserSpec == BrowserInit /\ [][BrowserNext]_browserVars

-----------------------------------------------------------------------------
\* What is selected is an entry, and shown, as long as there is one (m_iSelect and
\* m_iScroll, which listings of any length begin anew).
SelectionIsShown ==
  /\ entries # << >> => HasEntry(Here) /\ 0 <= scroll
  /\ scroll <= select /\ select < scroll + MaxLines

\* What is selected is there: the listing is that of the directory, as it is now.
ListingIsTrue == entries \in Listings(dirs, files, dir)

\* The player acts on what there is and sees what it is (CBrowserScreen::Input).
ListIsRight == SelectionIsShown /\ ListingIsTrue

\* A file is lost in these ways only: it is the one that was selected and deleted; a
\* file was pasted over it that is there, and of its name, or on a card of a name that
\* is cut to it, be the copy whole or not; or it was pasted over itself (MenuEvent,
\* PathTruncFileName, CopyFile).
FilesAreKept ==
  [][\A p \in DOMAIN files :
       \/ p \in DOMAIN files' /\ files'[p] = files[p]
       \/ p \notin DOMAIN files' /\ HasEntry(Here) /\ p = EntryPath(Here)
       \/ /\ p \in DOMAIN files' /\ copied \in DOMAIN files /\ Front(p) = dir
          /\ \/ Last(p) = Last(copied) /\ Head(dir) \notin Card
             \/ Last(p) = CutName[Last(copied)] /\ Head(dir) \in Card
          /\ files'[p] \in IF p = copied THEN {Empty}
                           ELSE {files[copied], Part, Empty}]_browserVars
=============================================================================
