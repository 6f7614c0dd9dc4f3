----------------------------- MODULE SnesPixel ------------------------------
(***************************************************************************)
(* What one pixel of the picture should be, said of the pixel alone: the   *)
(* point of each layer that is there, and which of them is in front by the *)
(* order of snppurender.cpp:21-55.  There are no lines, tiles that were    *)
(* fetched before, or masks.                                               *)
(***************************************************************************)
EXTENDS SnesRender

Transparent == [value |-> 0, byte |-> 0, pri |-> 0]

\* The point (px, py) of BG i's field.
FieldPoint(p, info, px, py) ==
  LET side == IF info.chrSize = 0 THEN 8 ELSE 16
      tile == DecodeTile(ScreenWord(p.vram, info, TileAddr((px \div side) % 64, (py \div side) % 64)), 0)
      inX == IF tile.flipX = 1 THEN side - 1 - (px % side) ELSE px % side
      inY == IF tile.flipY = 1 THEN side - 1 - (py % side) ELSE py % side
      chr == tile.tile + (inX \div 8) + 16 * (inY \div 8)
      value == ChrValue(p.vram, ((info.chrAddr + chr * 4 * info.depth) % 2^15) + (inY % 8), info.depth, 7 - (inX % 8))
  IN [value |-> value, byte |-> TilePalette(info, tile.pal) + value, pri |-> tile.pal \div 8]

\* The offset of a tile is in BG 3's screen, from the column before it.
OffsetScroll(p, info, i, column) ==
  LET table == DecodeBGInfo(p, 3)
      both == p.regs.bgmode % 8 = 2
      at(row) == ScreenWord(p.vram, table,
                   TileAddrAt(TileAddr(table.scrollX \div 8, (table.scrollY \div 8) + row), column - 1))
  IN IF column = 0 \/ table.scrSize > 1 THEN [x |-> info.scrollX, y |-> info.scrollY]
     ELSE TileScroll(info, at(0), IF both THEN at(1) ELSE 0, i - 1, both)

BGPoint(p, i, l, x) ==
  LET info == DecodeBGInfo(p, i)
      fineX == info.scrollX % 8
      shown == x - (x % (info.mosaic + 1))
      column == (shown + fineX) \div 8
      scroll == OffsetScroll(p, info, i, column)
  IN CASE info.depth = 0 -> Transparent
       [] info.depth # 0 /\ p.regs.bgmode % 8 \in {2, 4} ->
            FieldPoint(p, info, (scroll.x - (scroll.x % 8)) + shown + fineX, scroll.y + l)
       [] OTHER -> FieldPoint(p, info, info.scrollX + shown, info.scrollY + MosaicLine(info, l))

Mode7Point(p, l, x) ==
  LET start == Mode7Start(p.regs, l)
      pixel == Mode7Pixel(p.vram, p.regs.m7sel \div 64, (start.x + x * start.dx) \div 256,
                          (start.y + x * start.dy) \div 256)
      extbg == Bits(p.regs.setini, 6, 1) = 1
      byte == IF extbg THEN pixel % 128 ELSE pixel
  IN [value |-> byte, byte |-> byte, pri |-> IF extbg THEN pixel \div 128 ELSE 1]

-----------------------------------------------------------------------------
\* The objects in the order of their priority, and the places in it of those of
\* a line that are not too many.
InOrder(objs, first) == [n \in 0 .. OBJ_NUM - 1 |-> objs[(first + n) % OBJ_NUM]]

PlaceOnLine(objs, l) ==
  LET all == {n \in 0 .. OBJ_NUM - 1 : (l - objs[n].y) % 256 < objs[n].size}
  IN {n \in all : Cardinality({m \in all : m < n}) < MAXOBJ}

\* The patterns of an object that are on the screen, by their place in the tile row.
ChrsShown(obj) ==
  {c \in 0 .. (obj.size \div 8) - 1 :
     LET left == obj.x + (IF obj.hflip THEN obj.size - 8 - 8 * c ELSE 8 * c) IN left >= -8 /\ left < WIDTH}

ObjPoint(p, obj, l, x) ==
  LET inX == IF obj.hflip THEN obj.size - 1 - (x - obj.x) ELSE x - obj.x
      dy == (l - obj.y) % 256
      inY == IF obj.vflip THEN obj.size - 1 - dy ELSE dy
      chr == obj.tile + 16 * (inY \div 8)
      names == IF Bits(chr, 8, 1) = 1 THEN Bits(p.regs.obsel, 3, 2) * 2^12 ELSE 0
      addr == (((p.regs.obsel % 4) * 2^13 + chr * 16 + names) % 2^15) + (inX \div 8) * 16 + (inY % 8)
  IN IF x - obj.x \notin 0 .. obj.size - 1 THEN 0 ELSE ChrValue(p.vram, addr, 4, 7 - (inX % 8))

\* The patterns that are fetched before the one of obj, in place n, that has x.
ChrsBefore(objs, places, n, x) ==
  LET column == (IF objs[n].hflip THEN objs[n].size - 1 - (x - objs[n].x) ELSE x - objs[n].x) \div 8
  IN MapThenSumSet(LAMBDA m : Cardinality(ChrsShown(objs[m])), {m \in places : m > n})
       + Cardinality({c \in ChrsShown(objs[n]) : c < column})

PixelOf(obj, value) ==
  [value |-> value, pri |-> obj.pri, pal |-> obj.pal, byte |-> 128 + obj.pal * 16 + value]

FirstOf(p, objs, here, l, x) ==
  IF here = {} THEN Transparent @@ [pal |-> 0]
  ELSE PixelOf(objs[Min(here)], ObjPoint(p, objs[Min(here)], l, x))

\* The first object with a point there; of the patterns, the last ones in the
\* order that were too many have none.
FrontObj(p, objs, places, l, x) ==
  FirstOf(p, objs, {n \in places : ObjPoint(p, objs[n], l, x) # 0
                                    /\ ChrsBefore(objs, places, n, x) < MAXOBJCHR}, l, x)

ObjsInOrder(p) == InOrder(UpdateOBJ(p), p.regs.oampri)

ObjPixel(p, l, x) == FrontObj(p, ObjsInOrder(p), PlaceOnLine(ObjsInOrder(p), l), l, x)

-----------------------------------------------------------------------------
\* From the back to the front: <<layer, priority>>, the objects being layer 5.
RenderOrder(regs) ==
  LET bg3 == IF regs.bgmode % 16 >= 8 /\ regs.bgmode % 8 = 1 THEN <<<<3, 1>>>> ELSE << >>
      middle == <<<<5, 1>>, <<2, 0>>, <<1, 0>>, <<5, 2>>, <<2, 1>>, <<1, 1>>, <<5, 3>>>>
  IN CASE regs.bgmode % 8 \in {0, 1} ->
            <<<<4, 0>>, <<3, 0>>, <<5, 0>>, <<4, 1>>>> \o (IF bg3 = << >> THEN <<<<3, 1>>>> ELSE << >>)
              \o middle \o bg3
       [] regs.bgmode % 8 = 7 -> <<<<1, 0>>, <<5, 0>>, <<5, 1>>, <<1, 1>>, <<5, 2>>, <<5, 3>>>>
       [] OTHER -> <<<<2, 0>>, <<5, 0>>, <<1, 0>>, <<5, 1>>, <<2, 1>>, <<5, 2>>, <<1, 1>>, <<5, 3>>>>

LayerPoint(p, layer, l, x) ==
  CASE layer = 5 -> ObjPixel(p, l, x)
    [] layer = 1 /\ p.regs.bgmode % 8 = 7 -> Mode7Point(p, l, x)
    [] layer \in 2 .. 4 /\ p.regs.bgmode % 8 = 7 -> Transparent
    [] OTHER -> BGPoint(p, layer, l, x)

\* The front point of a screen, and its layer (0: there is none).
FrontOf(point, order) ==
  LET there == {n \in DOMAIN order : /\ order[n][1] \in DOMAIN point
                                     /\ point[order[n][1]].value # 0
                                     /\ point[order[n][1]].pri = order[n][2]}
      front == order[Max(there)][1]
  IN IF there = {} THEN [layer |-> 0, byte |-> 0, addable |-> FALSE]
     ELSE [layer |-> front, byte |-> point[front].byte,
           addable |-> front # 5 \/ point[front].pal >= 4]

Open(regs, x, on, windowed) ==
  {layer \in on : ~(layer \in windowed /\ x \in DecodeWindows(regs)[layer])}

FrontPixel(p, l, x, on, windowed) ==
  FrontOf([layer \in Open(p.regs, x, on, windowed) |-> LayerPoint(p, layer, l, x)], RenderOrder(p.regs))

LayersOf(byte) == {n \in 1 .. 5 : Bits(byte, n - 1, 1) = 1}
=============================================================================
