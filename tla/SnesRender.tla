----------------------------- MODULE SnesRender -----------------------------
(***************************************************************************)
(* How the renderer makes a line of indexed pixels (snppubg.cpp,           *)
(* snppuobj.cpp, snppurender8.cpp): the fetch of the tiles and of their    *)
(* patterns, the objects, and the layers drawn over each other with masks. *)
(* A mask (SNMaskT) is the set of its columns.                             *)
(***************************************************************************)
EXTENDS SnesPPUPorts, FiniteSetsExt, SequencesExt

CONSTANTS WIDTH,        \* pixels of a line (256)
          MAXOBJ,       \* SNPPU_MAXOBJ (32): objects of a line
          MAXOBJCHR,    \* SNPPU_MAXOBJCHR (34): their patterns
          UNSET         \* what the stack holds where DecodeBGInfo sets nothing

ASSUME RenderAssumption == WIDTH \in {16 * n : n \in 1 .. 16} /\ MAXOBJ >= 1 /\ MAXOBJCHR >= 1

Column == 0 .. WIDTH - 1
TILES == WIDTH \div 8       \* and one more, for the fine scroll
BG == 1 .. 4

-----------------------------------------------------------------------------
(* DecodeBGInfo *)

BitDepth ==
  <<<<2, 2, 2, 2>>, <<4, 4, 2, 0>>, <<4, 4, 0, 0>>, <<8, 4, 0, 0>>,
    <<8, 2, 0, 0>>, <<4, 2, 0, 0>>, <<8, 0, UNSET, UNSET>>, <<8, 0, 0, 0>> >>

BGPriority(mode, i) ==
  IF mode <= 1 THEN 4 - i ELSE IF mode = 7 THEN 7 ELSE IF i <= 2 THEN 6 - i ELSE UNSET

DecodeBGInfo(ppu, i) ==
  LET regs == ppu.regs
      mode == regs.bgmode % 8
      sc == regs[<<"bg1sc", "bg2sc", "bg3sc", "bg4sc">>[i]]
      nba == IF i <= 2 THEN regs.bg12nba ELSE regs.bg34nba
      scroll(ofs) == IF mode = 7 /\ i = 1 THEN 0 ELSE regs[ofs[i]] % 2048
  IN [scrollX |-> scroll(<<"bg1hofs", "bg2hofs", "bg3hofs", "bg4hofs">>),
      scrollY |-> scroll(<<"bg1vofs", "bg2vofs", "bg3vofs", "bg4vofs">>),
      scrAddr |-> (sc \div 4) * 1024, scrSize |-> sc % 4,
      chrAddr |-> Bits(nba, 4 * ((i + 1) % 2), 4) * 4096,
      chrSize |-> Bits(regs.bgmode, 3 + i, 1),
      mosaic |-> IF Bits(regs.mosaic, i - 1, 1) = 1 THEN regs.mosaic \div 16 ELSE 0,
      depth |-> BitDepth[mode + 1][i],
      palBase |-> IF mode = 0 THEN i - 1 ELSE IF mode = 1 THEN 0 ELSE UNSET,
      priority |-> BGPriority(mode, i)]

\* The line that a mosaic shows on this one.
MosaicLine(info, line) == line - (line % (info.mosaic + 1))

-----------------------------------------------------------------------------
(* Tiles.  An address is ssyyyyyxxxxx: the screen, the row, the column.    *)

ScrSizeOffset == <<<<0, 0, 0, 0>>, <<0, 1024, 0, 1024>>, <<0, 0, 1024, 1024>>, <<0, 1024, 2048, 3072>> >>

ScreenWord(vram, info, addr) ==
  Word(vram, ((info.scrAddr + ScrSizeOffset[info.scrSize + 1][Bits(addr, 10, 2) + 1]) % 2^15) + (addr % 1024))

TileAddr(tileX, tileY) ==
  (tileX % 32) + (tileY % 32) * 32 + Bits(tileX, 5, 1) * 1024 + Bits(tileY, 5, 1) * 2048

\* The k-th address to the right: past column 31 it is in the other screen.
TileAddrAt(addr, k) ==
  LET column == (addr % 32) + k
      screen == IF (column \div 32) % 2 = 1 THEN addr ^^ 1024 ELSE addr
  IN screen - (addr % 32) + (column % 32)

DecodeTile(word, offsetY) ==
  [tile |-> word % 1024, pal |-> Bits(word, 10, 4), flipX |-> Bits(word, 14, 1),
   flipY |-> Bits(word, 15, 1), offsetY |-> offsetY]

FetchBG8x8(vram, info, addr) ==
  [k \in 0 .. TILES |-> DecodeTile(ScreenWord(vram, info, TileAddrAt(addr, k)), 0)]

\* The k-th pattern is half of a tile, and which half a flip decides.
FetchBG16x16(vram, info, addr, fx, fy) ==
  [k \in 0 .. TILES |->
     LET tile == DecodeTile(ScreenWord(vram, info, TileAddrAt(addr, (k + fx) \div 2)), 0)
         right == ((k + fx) % 2) # tile.flipX
         lower == fy # tile.flipY
     IN [tile EXCEPT !.tile = @ + (IF right THEN 1 ELSE 0) + (IF lower THEN 16 ELSE 0)]]

\* FetchBG: the tiles are fetched when their address differs from the last
\* line's, the patterns then and when the row of the patterns does.
FetchKey(info, line) ==
  LET y == info.scrollY + MosaicLine(info, line)
      x == info.scrollX
  IN [addr |-> IF info.chrSize = 0 THEN TileAddr(x \div 8, y \div 8)
               ELSE TileAddr(x \div 16, y \div 16) + Bits(x, 3, 1) * 4096 + Bits(y, 3, 1) * 8192,
      fineX |-> x % 8, fineY |-> y % 8]

NoKey == [addr |-> 65535, fineX |-> 7, fineY |-> 7]   \* 0xFFFFFFFF

FetchTiles(vram, info, key) ==
  IF info.chrSize = 0 THEN FetchBG8x8(vram, info, key.addr)
  ELSE FetchBG16x16(vram, info, key.addr % 4096, Bits(key.addr, 12, 1), Bits(key.addr, 13, 1))

\* FetchOffset: the offsets of the tiles after the first; all of them ORed
\* stands where the 33rd tile's would.  They do not scroll with the line.
OffsetScreen(info) == info.scrSize <= 1

FetchOffset(vram, info, vertical) ==
  LET addr == TileAddr(info.scrollX \div 8, info.scrollY \div 8)
      row(a) == [k \in 0 .. TILES - 1 |-> IF k = 0 THEN 0 ELSE ScreenWord(vram, info, TileAddrAt(a, k - 1))]
      h == row(addr)
      v == IF vertical THEN row((addr + 32) % 2^16) ELSE [k \in 0 .. TILES - 1 |-> 0]
      all == FoldFunction(LAMBDA w, acc : w | acc, FoldFunction(LAMBDA w, acc : w | acc, 0, v), h)
  IN IF ~OffsetScreen(info) THEN [or |-> 0, h |-> h, v |-> v]
     ELSE [or |-> all, h |-> h @@ (TILES :> all), v |-> v @@ (TILES :> UNSET)]

\* FetchBG8x8Offset, where h and v have a word each, and 8x8Offset2, where bit 15 says which.
TileScroll(info, h, v, bit, both) ==
  LET on(w) == Bits(w, 13 + bit, 1) = 1
      vertical == h >= 2^15
  IN IF both THEN [x |-> IF on(h) THEN h % 2048 ELSE info.scrollX,
                   y |-> IF on(v) THEN v % 2048 ELSE info.scrollY]
     ELSE [x |-> IF on(h) /\ ~vertical THEN h % 2048 ELSE info.scrollX,
           y |-> IF on(h) /\ vertical THEN h % 2048 ELSE info.scrollY]

FetchBGOffset(vram, info, offset, bit, both, line) ==
  [k \in 0 .. TILES |->
     LET scroll == TileScroll(info, offset.h[k], offset.v[k], bit, both)
         y == scroll.y + line
     IN DecodeTile(ScreenWord(vram, info, TileAddr((scroll.x + 8 * k) \div 8, y \div 8)), y % 8)]

-----------------------------------------------------------------------------
(* Patterns.  A plane is the line's pixels, which are not shifted, and its *)
(* masks, which are: by the fine scroll of the line that fetched them.     *)

\* The value of a pixel: a bit of each plane, two planes in a word.
ChrValue(vram, addr, depth, bit) ==
  MapThenSumSet(LAMBDA p : Bits(Word(vram, addr + 8 * (p \div 2)), 8 * (p % 2) + bit, 1) * 2^p,
                0 .. depth - 1)

TilePalette(info, pal) ==
  CASE info.depth = 2 -> info.palBase * 32 + (pal % 8) * 4
    [] info.depth = 4 -> (pal % 8) * 16
    [] OTHER -> 0

TileRow(tile, row) == IF tile.flipY = 1 THEN (row + tile.offsetY) ^^ 7 ELSE row + tile.offsetY

ChrPixel(vram, info, tile, row, x) ==
  LET addr == ((info.chrAddr + tile.tile * 4 * info.depth) % 2^15) + TileRow(tile, row)
  IN ChrValue(vram, addr, info.depth, IF tile.flipX = 1 THEN x ELSE 7 - x)

SNMaskSHL(mask, n) == {x \in Column : x + n \in mask}

\* The column that a mosaic shows in this one.
MosaicPixel(info, x) == x - (x % (info.mosaic + 1))

\* _FetchCHR_64, the masks' shift and the mosaic of all three.
FetchCHR(vram, info, tiles, row) ==
  LET fineX == info.scrollX % 8
      value == [c \in 0 .. 8 * TILES + 7 |-> ChrPixel(vram, info, tiles[c \div 8], row, c % 8)]
      byte(c) == TilePalette(info, tiles[c \div 8].pal) + value[c]
      opaque == {c \in DOMAIN value : value[c] # 0}
      planar(mask) == {x \in Column : MosaicPixel(info, x) \in SNMaskSHL(mask, fineX)}
  IN [data |-> [c \in DOMAIN value |->
                  IF info.mosaic > 0 /\ c - fineX \in Column
                    THEN byte(fineX + MosaicPixel(info, c - fineX)) ELSE byte(c)],
      opaque |-> planar(opaque),
      pri |-> planar({c \in opaque : tiles[c \div 8].pal >= 8})]

-----------------------------------------------------------------------------
(* Mode 7 *)

SignedBits(w, n) == LET v == w % 2^n IN IF v >= 2^(n - 1) THEN v - 2^n ELSE v

\* Where the first pixel of a line is in the field, and how far the next one is.
Mode7Start(regs, line) ==
  LET a == Signed16(regs.m7a)  b == Signed16(regs.m7b)
      c == Signed16(regs.m7c)  d == Signed16(regs.m7d)
      m7x == SignedBits(regs.m7x, 13)
      m7y == SignedBits(regs.m7y, 13)
      dx == SignedBits(regs.bg1hofs, 13) - m7x
      dy == SignedBits(regs.bg1vofs, 13) + line - m7y
      mirrorX == Bits(regs.m7sel, 0, 1) = 1
      mirrorY == Bits(regs.m7sel, 1, 1) = 1
      moved(origin, across, down) ==
        dx * across + dy * down + origin * 256 + (IF mirrorX THEN 256 * across ELSE 0)
          + (IF mirrorY THEN 262 * down ELSE 0)
  IN [x |-> moved(m7x, a, b), y |-> moved(m7y, c, d),
      dx |-> IF mirrorX THEN -a ELSE a, dy |-> IF mirrorX THEN -c ELSE c]

Mode7Pixel(vram, sel, x, y) ==
  LET outside == x \notin 0 .. 1023 \/ y \notin 0 .. 1023
      tile == Lo(Word(vram, ((y % 1024) \div 8) * 128 + ((x % 1024) \div 8)))
      pixel(t) == Hi(Word(vram, t * 64 + (y % 8) * 8 + (x % 8)))
  IN CASE ~outside \/ sel = 0 -> pixel(tile)
       [] outside /\ sel = 3 -> pixel(0)
       [] OTHER -> 0

\* Bit 7 is the priority when setini says so; else all of the line has it.
FetchMode7(vram, regs, line) ==
  LET start == Mode7Start(regs, line)
      pixel == [x \in Column |-> Mode7Pixel(vram, regs.m7sel \div 64, (start.x + x * start.dx) \div 256,
                                            (start.y + x * start.dy) \div 256)]
      extbg == Bits(regs.setini, 6, 1) = 1
      byte == [x \in Column |-> IF extbg THEN pixel[x] % 128 ELSE pixel[x]]
  IN [data |-> [c \in 0 .. 8 * TILES + 7 |-> IF c \in Column THEN byte[c] ELSE 0],
      opaque |-> {x \in Column : byte[x] # 0},
      pri |-> IF extbg THEN {x \in Column : pixel[x] >= 128} ELSE Column]

-----------------------------------------------------------------------------
(* Windows *)

SNMaskRange(left, right) == (left .. right) \cap Column

\* SetBGMask: one window, its inverse, or both by the layer's operation.
SetBGMask(window, sel, log) ==
  LET one(n) == IF Bits(sel, 2 * n, 1) = 1 THEN Column \ window[n + 1] ELSE window[n + 1]
      on(n) == Bits(sel, 2 * n + 1, 1) = 1
      xor == (one(0) \ one(1)) \cup (one(1) \ one(0))
  IN CASE on(0) /\ on(1) -> <<one(0) \cup one(1), one(0) \cap one(1), xor, Column \ xor>>[log + 1]
       [] on(0) /\ ~on(1) -> one(0)
       [] ~on(0) /\ on(1) -> one(1)
       [] OTHER -> {}

\* For the four BGs, the objects and the colours.
DecodeWindows(regs) ==
  LET window == <<SNMaskRange(regs.wh0, regs.wh1), SNMaskRange(regs.wh2, regs.wh3)>>
      sel == <<regs.w12sel % 16, regs.w12sel \div 16, regs.w34sel % 16, regs.w34sel \div 16,
               regs.wobjsel % 16, regs.wobjsel \div 16>>
      log == <<Bits(regs.wbglog, 0, 2), Bits(regs.wbglog, 2, 2), Bits(regs.wbglog, 4, 2),
               Bits(regs.wbglog, 6, 2), Bits(regs.wobjlog, 0, 2), Bits(regs.wobjlog, 2, 2)>>
  IN [n \in 1 .. 6 |-> SetBGMask(window, sel[n], log[n])]

-----------------------------------------------------------------------------
(* Objects *)

OAMSize == <<<<0, 1>>, <<0, 2>>, <<0, 3>>, <<1, 2>>, <<1, 3>>, <<2, 3>>, <<0, 0>>, <<0, 0>> >>

\* UpdateOBJ: four bytes of an object and two bits of the table after them.
DecodeOBJ(ppu, i) ==
  LET byte(n) == ppu.oam[i * 4 + n]
      ex == Bits(ppu.oam[OBJ_NUM * 4 + (i \div 4)], 2 * (i % 4), 2)
      attr == byte(3)
      size == 8 * 2^(OAMSize[(ppu.regs.obsel \div 32) + 1][(ex \div 2) + 1])
  IN [x |-> SignedBits((ex % 2) * 256 + byte(0), 9), y |-> (byte(1) + 1) % 256,
      tile |-> byte(2) + (attr % 2) * 256, pal |-> Bits(attr, 1, 3), pri |-> Bits(attr, 4, 2),
      hflip |-> Bits(attr, 6, 1) = 1, vflip |-> attr >= 128, size |-> size]

UpdateOBJ(ppu) == [i \in 0 .. OBJ_NUM - 1 |-> DecodeOBJ(ppu, i)]

\* UpdateOBJVisibility: the objects of a line, from the first in priority, no more than MAXOBJ.
ObjsOfLine(objs, first, line) ==
  LET order == [n \in 1 .. OBJ_NUM |-> (first + n - 1) % OBJ_NUM]
      here(i) == (line - objs[i].y) % 256 < objs[i].size
      visible == SelectSeq(order, here)
  IN SubSeq(visible, 1, Min({MAXOBJ, Len(visible)}))

\* The patterns of one object on a line, in the order they are fetched.
ObjChrs(vram, obsel, obj, line) ==
  LET y == (line - obj.y) % obj.size
      row == IF obj.vflip THEN obj.size - 1 - y ELSE y
      tile == obj.tile + (row \div 8) * 16
      addr == (obsel % 4) * 2^13 + tile * 16 + (IF Bits(tile, 8, 1) = 1 THEN Bits(obsel, 3, 2) * 2^12 ELSE 0)
      left(n) == obj.x + (IF obj.hflip THEN obj.size - 8 - 8 * n ELSE 8 * n)
      value(n, c) == ChrValue(vram, (addr % 2^15) + (row % 8) + n * 16, 4, IF obj.hflip THEN c ELSE 7 - c)
      chr(n) == [x |-> left(n), pri |-> obj.pri, pal |-> obj.pal, value |-> [c \in 0 .. 7 |-> value(n, c)]]
      shown == SelectSeq([n \in 1 .. obj.size \div 8 |-> n - 1],
                         LAMBDA n : left(n) >= -8 /\ left(n) < WIDTH)
  IN [n \in 1 .. Len(shown) |-> chr(shown[n])]

\* FetchOBJ: from the last object to the first, no more than MAXOBJCHR patterns.
FetchOBJ(ppu, objs, list, line) ==
  LET chrs == FlattenSeq([n \in 1 .. Len(list) |->
                ObjChrs(ppu.vram, ppu.regs.obsel, objs[list[Len(list) + 1 - n]], line)])
  IN SubSeq(chrs, 1, Min({MAXOBJCHR, Len(chrs)}))

-----------------------------------------------------------------------------
(* Layers.  A line is its pixels, two planes that tell the layer of a      *)
(* pixel to the objects, and the mask of the pixels to add to.             *)

EmptyLine(addsub) == [pix |-> [x \in Column |-> 0], layer0 |-> {}, layer1 |-> {}, addsub |-> addsub]

Put(mask, columns, on) == IF on THEN mask \cup columns ELSE mask \ columns   \* SNMaskBool

\* RenderBG8, by the priority of the layer: what it hides and the planes it leaves.
LayerMask(line, mask, pri, priority) ==
  CASE priority = 1 -> (mask \ line.layer0) \cup pri
    [] priority = 3 -> (mask \ (line.layer0 \cap line.layer1)) \cup pri
    [] priority = 5 -> (mask \ line.layer1) \cup pri
    [] OTHER -> mask

LayerPlanes(line, drawn, pri, priority) ==
  CASE priority \in {0, 1} -> [line EXCEPT !.layer0 = @ \cup pri]
    [] priority \in {2, 3} -> [line EXCEPT !.layer0 = (@ \ drawn) \cup pri, !.layer1 = @ \cup drawn]
    [] priority \in {4, 7} -> [line EXCEPT !.layer0 = {}, !.layer1 = pri]
    [] priority = 5 -> [line EXCEPT !.layer0 = @ \cup drawn, !.layer1 = (@ \ drawn) \cup pri]
    [] OTHER -> line

RenderBG8(line, info, plane, hidden, addsub) ==
  LET mask == plane.opaque \ hidden
      pri == mask \cap plane.pri
      drawn == LayerMask(line, mask, pri, info.priority)
      planes == LayerPlanes(line, drawn, pri, info.priority)
      fineX == info.scrollX % 8
  IN IF info.depth = 0 THEN line
     ELSE [planes EXCEPT !.addsub = Put(@, drawn, addsub),
                         !.pix = [x \in Column |-> IF x \in drawn THEN plane.data[x + fineX] ELSE @[x]]]

\* RenderOBJ8: an opaque pixel keeps those after it out, also where it is behind a BG.
Claimant(chrs, x) ==
  LET opaque == {n \in 1 .. Len(chrs) : /\ chrs[n].x > -8 /\ x - chrs[n].x \in 0 .. 7
                                        /\ chrs[n].value[x - chrs[n].x] # 0}
  IN IF opaque = {} THEN 0 ELSE Max(opaque)

BehindLayers(line, pri) ==
  CASE pri = 0 -> line.layer0 \cup line.layer1
    [] pri = 1 -> line.layer1
    [] pri = 2 -> line.layer0 \cap line.layer1
    [] OTHER -> {}

\* Objects of palettes 4 to 7 are added to, or all (on the sub screen).
RenderOBJ8(line, chrs, hidden, addsub, all) ==
  LET top == [x \in Column |-> Claimant(chrs, x)]
      drawn == {x \in Column : top[x] # 0 /\ x \notin hidden /\ x \notin BehindLayers(line, chrs[top[x]].pri)}
      added == {x \in drawn : addsub /\ (all \/ chrs[top[x]].pal >= 4)}
      byte(x) == 128 + chrs[top[x]].pal * 16 + chrs[top[x]].value[x - chrs[top[x]].x]
  IN [line EXCEPT !.pix = [x \in Column |-> IF x \in drawn THEN byte(x) ELSE @[x]],
                  !.addsub = (@ \ drawn) \cup added]

\* One screen: the BGs from the fourth, then the objects.  shown and windowed
\* are tm and tmw or ts and tsw; BG 3 may be in front of all in mode 1.
RenderScreen(ppu, planes, chrs, window, shown, windowed, start, addsub, allObjs) ==
  LET on(byte, n) == Bits(byte, n - 1, 1) = 1
      hidden(n) == IF on(windowed, n) THEN window[n] ELSE {}
      bg3Front == Bits(ppu.regs.bgmode, 3, 1) = 1 /\ ppu.regs.bgmode % 8 = 1 /\ on(shown, 3)
      bg3Pri == IF bg3Front THEN (planes[3].opaque \ hidden(3)) \cap planes[3].pri ELSE {}
      draw(line, i) ==
        IF on(shown, i)
          THEN RenderBG8(line, DecodeBGInfo(ppu, i), planes[i],
                         hidden(i) \cup (IF i <= 2 THEN bg3Pri ELSE {}), on(addsub, i))
          ELSE line
      bgs == FoldLeft(draw, EmptyLine(start), <<4, 3, 2, 1>>)
  IN IF on(shown, 5) THEN RenderOBJ8(bgs, chrs, hidden(5) \cup bg3Pri, on(addsub, 5), allObjs) ELSE bgs

\* In mode 7 the first BG is drawn where the game asks for the first or the second.
Layers(p, byte) ==
  IF p.regs.bgmode % 8 = 7 /\ byte % 4 # 0 THEN 1 + (byte \div 16) * 16 ELSE byte
=============================================================================
