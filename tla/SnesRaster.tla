----------------------------- MODULE SnesRaster -----------------------------
(***************************************************************************)
(* Lines drawn while a game writes to the PPU (snppurender.cpp,            *)
(* snppublend_gs.cpp): between two lines it may scroll, move a window or   *)
(* write to the PPU's memories, and what the renderer keeps of the line    *)
(* before must not show where the registers say otherwise.                 *)
(***************************************************************************)
EXTENDS SnesPixel

CONSTANT DRAWN      \* lines that are drawn of each frame (224)

VARIABLES ppu,
          kept,         \* what the renderer keeps from line to line (SnesRender8pInfoT)
          line,         \* the next line
          shown         \* the line drawn last, until something is written

rasterVars == <<ppu, kept, line, shown>>

Nothing == << >>
NoPlane == [data |-> [c \in 0 .. 8 * TILES + 7 |-> 0], opaque |-> {}, pri |-> {}]

-----------------------------------------------------------------------------
(* Colours: red, green, blue of 0 to 255.  The calibrated table is scaling. *)

Colour15to32(c) == <<Bits(c, 0, 5) * 8, Bits(c, 5, 5) * 8, Bits(c, 10, 5) * 8>>

Scale(v, by) == (v * by) \div 128

\* The masks: main, to be added, and to be halved.
ColorMasks(regs, window, main, sub) ==
  LET inside == window[6]
      both(n) == Bits(regs.cgwsel, n, 2)
      first == <<Column, inside, Column \ inside, {}>>[both(6) + 1]
      second == main.addsub \cap <<Column, inside, Column \ inside, {}>>[both(4) + 1]
      half == IF Bits(regs.cgadsub, 6, 1) = 1 THEN sub.addsub \cap second \cap first ELSE {}
  IN <<first, second, half>>

\* Exec: the sub line has the fixed colour where it is transparent; both are
\* scaled by the masks, added or subtracted, and scaled by the brightness.
BlendPixel(main, sub, inMain, inSub, half, subtract, intensity) ==
  LET attr(in) == IF in THEN (IF half THEN 64 ELSE 128) ELSE 0
      a(n) == Scale(main[n], attr(inMain))
      b(n) == Scale(sub[n], attr(inSub))
      sum(n) == IF subtract THEN Max({a(n) - b(n), 0}) ELSE Min({a(n) + b(n), 255})
  IN [n \in 1 .. 3 |-> Scale(sum(n), (intensity * 128) \div 15)]

BlendLine(regs, palette, main, sub, mask) ==
  [x \in Column |->
     BlendPixel(palette[main.pix[x]],
                IF sub.pix[x] = 0 THEN Colour15to32(regs.coldata) ELSE palette[sub.pix[x]],
                x \in mask[1], x \in mask[2], x \in mask[3], regs.cgadsub >= 128, regs.inidisp % 16)]

Palette(cgram) == [c \in 0 .. 255 |-> Colour15to32(cgram[c])]

-----------------------------------------------------------------------------
(* A line *)

\* What the flags ask for is brought up to date; a new chr base asks for
\* nothing, and UPDATE_BGCHR stays set.
Updated(k, p) ==
  [k EXCEPT !.palette = IF "PAL" \in p.flags THEN Palette(p.cgram) ELSE @,
            !.objs = IF "OBJ" \in p.flags THEN UpdateOBJ(p) ELSE @,
            !.objFirst = IF "OBJ" \in p.flags THEN p.regs.oampri ELSE @,
            !.key = IF "BGSCR" \in p.flags THEN [i \in BG |-> NoKey] ELSE @,
            !.window = IF "WINDOW" \in p.flags THEN DecodeWindows(p.regs) ELSE @]

\* Whether BG i takes an offset for each tile, of BG 3's screen.
OffsetMode(p) == p.regs.bgmode % 8 \in {2, 4}

OffsetKey(info) == [addr |-> TileAddr(info.scrollX \div 8, info.scrollY \div 8), fineX |-> 0, fineY |-> 0]

\* The offsets are fetched again when BG 3's address differs from the key's.
WithOffsets(k, p) ==
  LET info == DecodeBGInfo(p, 3)
      key == OffsetKey(info)
  IN IF ~OffsetMode(p) THEN [k EXCEPT !.offset.or = 0]
     ELSE IF ~OffsetScreen(info) THEN [k EXCEPT !.offset.or = 0]
     ELSE IF k.key[3] = key THEN [k EXCEPT !.offset.or = k.offsetOr]
     ELSE LET o == FetchOffset(p.vram, info, p.regs.bgmode % 8 = 2)
          IN [k EXCEPT !.offset = o, !.offsetOr = o.or, !.key[3] = key, !.ofOffset = p.vram]

\* FetchBG and FetchBGOffset, then _FetchCHR_64 where they ask for it.
NeedTiles(k, i, key) == k.key[i].addr # key.addr
\* Faulty: the row of the patterns is not looked at.
NeedChrByTile(k, i, key) == NeedTiles(k, i, key)

NeedChr(k, i, key) == NeedTiles(k, i, key) \/ k.key[i].fineY # key.fineY

\* of: what the tiles and the patterns were fetched from, for Fresh.
ChrInputs(p, info) == <<p.vram, info.chrAddr, info.scrollX % 8, info.mosaic>>

WithPlane(k, p, i, tiles, row) ==
  [k EXCEPT !.plane[i] = FetchCHR(p.vram, DecodeBGInfo(p, i), tiles, row),
            !.ofChr[i] = ChrInputs(p, DecodeBGInfo(p, i))]

FetchLayer(k, p, l, i) ==
  LET info == DecodeBGInfo(p, i)
      key == FetchKey(info, l)
      offset == Bits(k.offset.or, 12 + i, 1) = 1
      tiles == IF NeedTiles(k, i, key) THEN FetchTiles(p.vram, info, key) ELSE k.tiles[i]
      keyed == [k EXCEPT !.tiles[i] = tiles, !.key[i] = key,
                         !.ofTiles[i] = IF NeedTiles(k, i, key) THEN p.vram ELSE @]
  IN CASE offset /\ info.depth = 0 -> [k EXCEPT !.key[i] = NoKey]
       [] offset /\ info.depth # 0 ->
            LET moved == IF info.chrSize = 1 THEN k.tiles[i]
                         ELSE FetchBGOffset(p.vram, info, k.offset, i - 1, p.regs.bgmode % 8 = 2, l)
            IN WithPlane([k EXCEPT !.tiles[i] = moved, !.key[i] = NoKey,
                                   !.ofTiles[i] = IF info.chrSize = 1 THEN Nothing ELSE k.ofOffset],
                         p, i, moved, 0)
       [] ~offset /\ info.depth = 0 -> k
       [] OTHER -> IF NeedChr(k, i, key) THEN WithPlane(keyed, p, i, tiles, key.fineY) ELSE keyed

\* RenderLine8's fetches; mode 7 has one plane and no keys.
Fetched(k, p, l) ==
  IF p.regs.bgmode % 8 = 7
    THEN [k EXCEPT !.plane[1] = FetchMode7(p.vram, p.regs, l)]
    ELSE FoldLeft(LAMBDA acc, i : FetchLayer(acc, p, l, i), WithOffsets(k, p), <<1, 2, 3, 4>>)

Draw(k, p, l) ==
  LET regs == p.regs
      chrs == FetchOBJ(p, k.objs, ObjsOfLine(k.objs, k.objFirst, l), l)
      subscreen == Bits(regs.cgwsel, 1, 1) = 1
      main == RenderScreen(p, k.plane, chrs, k.window, Layers(p, regs.tm), regs.tmw,
                           IF Bits(regs.cgadsub, 5, 1) = 1 THEN Column ELSE {}, regs.cgadsub, FALSE)
      sub == RenderScreen(p, k.plane, chrs, k.window, IF subscreen THEN Layers(p, regs.ts) ELSE 0,
                          regs.tsw, IF subscreen THEN {} ELSE Column, 31, TRUE)
  IN BlendLine(regs, k.palette, main, sub, ColorMasks(regs, k.window, main, sub))

Black == [x \in Column |-> <<0, 0, 0>>]

\* RenderLine32: a blanked line is black, and leaves the flags.
RenderLine ==
  /\ line <= DRAWN
  /\ IF ppu.regs.inidisp >= 128 THEN shown' = Black /\ UNCHANGED <<kept, ppu>>
     ELSE LET k == Fetched(Updated(kept, ppu), ppu, line)
          IN /\ kept' = k
             /\ shown' = Draw(k, ppu, line)
             /\ ppu' = [ppu EXCEPT !.flags = {"BGCHR"} \cap @]
  /\ line' = line + 1

\* A colour is in the palette at once.
WriteRegister(a, data) ==
  /\ ppu' = Write8(ppu, a, data)
  /\ kept' = IF a = 34 THEN [kept EXCEPT !.palette[CgIndex(ppu)] = Colour15to32(ppu'.cgram[CgIndex(ppu)])]
             ELSE kept
  /\ shown' = Nothing
  /\ UNCHANGED line

\* A word of a DMA.
WriteWord(dataL, dataH) ==
  /\ ppu' = WriteVMDATALH(ppu, dataL, dataH)
  /\ shown' = Nothing
  /\ UNCHANGED <<kept, line>>

\* EndFrame and the next BeginRender: everything is fetched again.
NextFrame ==
  /\ line = DRAWN + 1
  /\ ppu' = [EndFrameOam(ppu) EXCEPT !.flags = UpdateFlag]
  /\ line' = 1
  /\ shown' = Nothing
  /\ UNCHANGED kept

KeptAtReset ==
  [palette |-> Palette(ResetPPU.cgram), objs |-> UpdateOBJ(ResetPPU), objFirst |-> 0,
   key |-> [i \in BG |-> NoKey], window |-> [n \in 1 .. 6 |-> {}],
   tiles |-> [i \in BG |-> [c \in 0 .. TILES |-> DecodeTile(0, 0)]], plane |-> [i \in BG |-> NoPlane],
   offset |-> [or |-> 0, h |-> Nothing, v |-> Nothing], offsetOr |-> 0,
   ofTiles |-> [i \in BG |-> Nothing], ofChr |-> [i \in BG |-> Nothing], ofOffset |-> Nothing]

-----------------------------------------------------------------------------
(* What should be on a line *)

\* The front points of the main and of the sub screen, blended.
Blended(p, main, sub, x) ==
  LET regs == p.regs
      inside == x \in DecodeWindows(regs)[6]
      open(n) == CASE n = 0 -> TRUE [] n = 1 -> inside [] n = 2 -> ~inside [] OTHER -> FALSE
      adds == IF main.layer = 0 THEN Bits(regs.cgadsub, 5, 1) = 1
              ELSE main.addable /\ Bits(regs.cgadsub, main.layer - 1, 1) = 1
      inMain == open(Bits(regs.cgwsel, 6, 2))
      inSub == adds /\ open(Bits(regs.cgwsel, 4, 2))
      half == inMain /\ inSub /\ Bits(regs.cgadsub, 6, 1) = 1
              /\ (Bits(regs.cgwsel, 1, 1) = 0 \/ sub.layer # 0)
      colour(front, none) == IF front.layer = 0 THEN none ELSE Colour15to32(p.cgram[front.byte])
  IN BlendPixel(colour(main, Colour15to32(p.cgram[0])), colour(sub, Colour15to32(regs.coldata)),
                inMain, inSub, half, regs.cgadsub >= 128, regs.inidisp % 16)

PixelColour(p, l, x) ==
  LET regs == p.regs
      subOn == IF Bits(regs.cgwsel, 1, 1) = 1 THEN LayersOf(Layers(p, regs.ts)) ELSE {}
  IN IF regs.inidisp >= 128 THEN <<0, 0, 0>>
     ELSE Blended(p, FrontPixel(p, l, x, LayersOf(Layers(p, regs.tm)), LayersOf(regs.tmw)),
                  FrontPixel(p, l, x, subOn, LayersOf(regs.tsw)), x)

\* The layers of the picture that what was kept is still true of.
Fresh(k, p, i) ==
  LET info == DecodeBGInfo(p, i)
  IN \/ p.regs.bgmode % 8 = 7 \/ info.depth = 0
     \/ /\ k.ofTiles[i] = p.vram /\ k.ofChr[i] = ChrInputs(p, info)
        /\ OffsetMode(p) /\ OffsetScreen(DecodeBGInfo(p, 3)) => k.ofOffset = p.vram

OnScreen(p) == LayersOf(Layers(p, p.regs.tm)) \cup LayersOf(Layers(p, p.regs.ts))

AllFresh(k, p) ==
  /\ \A i \in OnScreen(p) \cap BG : Fresh(k, p, i)
  /\ 5 \in OnScreen(p) => k.objFirst = p.regs.oampri

\* In an offset mode the last tile has the offsets of all of them.
OwnOffset(p, x) ==
  OffsetMode(p) => \A i \in 1 .. 2 : x + (DecodeBGInfo(p, i).scrollX % 8) < WIDTH

\* Every pixel of a line that is drawn is the one that the registers and the
\* memories say, whatever was kept of the line before - unless the game changed
\* what the renderer is not told of (VRAM, the fine scroll alone, a chr base,
\* the mosaic, the first object).
LinesAreExact ==
  shown # Nothing /\ AllFresh(kept, ppu) =>
    \A x \in Column : OwnOffset(ppu, x) => shown[x] = PixelColour(ppu, line - 1, x)

\* A word that a DMA writes at once leaves VRAM and the address as its two
\* bytes do that are written to the ports.
WordsAreTwoBytes ==
  LET once == WriteVMDATALH(ppu, 18, 52)
      twice == WriteVMDATA(WriteVMDATA(ppu, FALSE, 18), TRUE, 52)
  IN once.vram = twice.vram /\ once.regs.vmaddr = twice.regs.vmaddr

-----------------------------------------------------------------------------
(***************************************************************************)
(* Pictures that a game sets up with writes to the PPU, and the writes     *)
(* that it may then make between lines.                                    *)
(***************************************************************************)

CONSTANTS Scene,        \* the pictures that are tried
          MAX_WRITES    \* writes between lines, in a behaviour

VARIABLES scene, toSetUp, writes   \* the writes that set it up, and those made since

scenesVars == <<rasterVars, scene, toSetUp, writes>>

\* A write is <<register, byte>>, or <<address, low, high>>: a word of a DMA.
AfterWrite(p, w) ==
  IF Len(w) = 3 THEN WriteVMDATALH(Write8(Write8(p, 22, Lo(w[1])), 23, Hi(w[1])), w[2], w[3])
  ELSE Write8(p, w[1], w[2])

\* Two patterns of two planes and of four, at bases 1000 and 2000; the second
\* pair of planes is where the second word of a pattern of four is.
Pattern(base, tile, words) ==
  [n \in 1 .. 8 * words |-> <<base + tile * 8 * words + n - 1,
                              (37 * n + 91 * tile + 11) % 256, (53 * n + 29 * tile) % 256>>]

\* Entries of a map: the columns that a line of two tiles and a half shows.
Cell(addr, tile, attr) == <<addr, tile, attr>>
Map(addr) ==
  <<Cell(addr, 1, 0), Cell(addr + 1, 2, 4 + 32), Cell(addr + 2, 1, 64), Cell(addr + 31, 2, 128),
    Cell(addr + 32, 2, 32), Cell(addr + 33, 1, 192 + 8), Cell(addr + 1024, 2, 32), Cell(addr + 1025, 1, 32)>>

Colours == <<<<33, 0>>>> \o FlattenSeq([n \in 1 .. 127 |-> <<<<34, (n * 37) % 256>>, <<34, (n * 11) % 128>>>>])
           \o <<<<33, 144>>>> \o FlattenSeq([n \in 1 .. 16 |-> <<<<34, (n * 29) % 256>>, <<34, 64 + n>>>>])

\* Objects: a small one, a large flipped one over it, one across the left edge.
Objects ==
  <<<<1, 1>>, <<2, 0>>, <<3, 0>>>>
    \o [n \in 1 .. 16 |-> <<4, <<3, 0, 1, 32 + 2,  5, 0, 1, 96 + 10,  252, 255, 2, 0,  10, 1, 2, 176 + 12>>[n]>>]
    \o <<<<2, (OBJ_NUM * 2) % 256>>, <<3, (OBJ_NUM * 2) \div 256>>, <<4, 8 + 16>>, <<2, 0>>, <<3, 0>>>>

Common == <<<<0, 15>>, <<21, 128>>>> \o Colours \o Objects
          \o Pattern(8192, 1, 2) \o Pattern(8192, 2, 2)

Setup ==
  [mode0 |-> Pattern(4096, 1, 1) \o Pattern(4096, 2, 1) \o Map(0) \o Map(2048) \o Map(3072)
             \o <<Cell(3072, 2, 32), Cell(3073, 1, 8)>>
             \o <<<<5, 0>>, <<7, 1>>, <<8, 9>>, <<9, 0>>, <<10, 13>>, <<11, 17>>, <<12, 17>>, <<44, 31>>>>,
   mode1 |-> Pattern(4096, 1, 1) \o Pattern(4096, 2, 1) \o Map(0) \o Map(2048)
             \o <<<<5, 9>>, <<7, 1>>, <<8, 9>>, <<9, 1>>, <<11, 34>>, <<12, 1>>, <<44, 23>>, <<45, 2>>,
                  <<48, 2>>, <<49, 97>>, <<50, 200>>>>,
   mode2 |-> Map(0) \o <<Cell(4096, 1, 32), Cell(4097, 3, 64), Cell(4128, 7, 32), Cell(4129, 2, 96)>>
             \o <<<<5, 2>>, <<7, 1>>, <<8, 1>>, <<9, 16>>, <<11, 34>>, <<44, 19>>>>,
   mode3 |-> Map(0) \o Pattern(8192, 17, 4) \o Pattern(8192, 18, 4)
             \o <<<<5, 16 + 32 + 3>>, <<6, 35>>, <<13, 21>>, <<13, 0>>, <<14, 8>>, <<14, 0>>, <<7, 1>>, <<8, 1>>, <<11, 34>>, <<44, 3>>, <<45, 16>>, <<48, 2>>, <<49, 129>> >>,
   mode7 |-> [n \in 1 .. 24 |-> <<n - 1, 0, n>>] \o [n \in 1 .. 16 |-> <<64 + n - 1, 1, n * 15>>]
             \o <<Cell(1, 1, 3), Cell(129, 1, 5)>>
             \o <<<<5, 7>>, <<27, 0>>, <<27, 1>>, <<28, 128>>, <<28, 0>>, <<29, 64>>, <<29, 255>>, <<30, 0>>, <<30, 1>>,
                  <<44, 17>>, <<51, 64>>>>]

MidFrame ==
  [mode0 |-> {<<13, 5>>, <<13, 248>>, <<13, 0>>, <<14, 7>>, <<7, 5>>, <<12, 33>>, <<44, 28>>, <<4, 6>>},
   mode1 |-> {<<35, 3>>, <<39, 9>>, <<48, 130>>, <<37, 178>>, <<5, 1>>, <<34, 99>>, <<50, 200>>},
   mode2 |-> {<<17, 8>>, <<13, 3>>, <<9, 18>>, <<21, 4>>},
   mode3 |-> {<<6, 0>>, <<13, 0>>, <<14, 7>>, <<0, 2, 64>>},
   mode7 |-> {<<26, 195>>, <<51, 0>>, <<13, 240>>, <<0, 128>>, <<3, 128>>}]

IsSetUp == toSetUp = << >>

ScenesInit ==
  /\ scene \in Scene /\ toSetUp = Common \o Setup[scene] /\ writes = 0
  /\ ppu = ResetPPU /\ kept = KeptAtReset /\ line = 1 /\ shown = Nothing

GameSetsUp ==
  /\ ~IsSetUp
  /\ toSetUp' = Tail(toSetUp)
  /\ ppu' = AfterWrite(ppu, Head(toSetUp))
  /\ UNCHANGED <<kept, line, shown, scene, writes>>

\* The game writes between two lines.
GameWrites ==
  /\ IsSetUp /\ writes < MAX_WRITES
  /\ writes' = writes + 1
  /\ \E w \in MidFrame[scene] :
       IF Len(w) = 3 THEN WriteWord(w[2], w[3]) ELSE WriteRegister(w[1], w[2])
  /\ UNCHANGED <<scene, toSetUp>>

Draws ==
  /\ IsSetUp
  /\ RenderLine \/ NextFrame
  /\ UNCHANGED <<scene, toSetUp, writes>>

ScenesNext == GameSetsUp \/ GameWrites \/ Draws

ScenesSpec == ScenesInit /\ [][ScenesNext]_scenesVars

PictureIsExact == LinesAreExact /\ WordsAreTwoBytes
=============================================================================
