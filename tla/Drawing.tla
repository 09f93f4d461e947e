---- MODULE Drawing ----
(***************************************************************************)
(* How the bot compiles what it is given into a blueprint: text art, an    *)
(* image or neither, with shapes drawn over it (internal/bot: blueprint.go,*)
(* shapes.go, image.go, palette.go), where on the canvas that goes, and    *)
(* the forms it is shown in (-inspect, -preview).                          *)
(*                                                                         *)
(* Points are <<x, y>>.  A blueprint's placements are a function from      *)
(* points to colours: a point has one placement, and scanline order is not *)
(* represented.  Characters are small numbers, 0 the ones that skip a      *)
(* cell; pixels are palette indices, or ClearPixel.  What does not parse   *)
(* as a number or a colour is left out.                                    *)
(***************************************************************************)
EXTENDS Codec, Sequences, FiniteSetsExt

Ok(bp) == [ok |-> TRUE, bp |-> bp]
Blank == [w |-> 0, h |-> 0, cells |-> [p \in {} |-> 0]]
Error == [ok |-> FALSE, bp |-> Blank]

AbsInt(v) == IF v < 0 THEN -v ELSE v

(***************************************************************************)
(* Palette.                                                                *)
(***************************************************************************)
palette == <<
    <<255, 255, 255>>, <<228, 228, 228>>, <<136, 136, 136>>, <<34, 34, 34>>,
    <<255, 180, 112>>, <<154, 99, 36>>, <<128, 0, 0>>, <<186, 45, 45>>,
    <<255, 214, 0>>, <<128, 128, 0>>, <<70, 153, 144>>, <<66, 212, 244>>,
    <<67, 99, 216>>, <<0, 0, 117>>, <<240, 50, 230>>, <<250, 190, 212>> >>

PaletteIndices == 0..MaxColor
RGB(c) == palette[c + 1]

Distance(u, v) ==
    LET d(i) == (u[i] - v[i]) * (u[i] - v[i]) IN 2 * d(1) + 4 * d(2) + 3 * d(3)

(* The first of the nearest.                                               *)
NearestColor(rgb) ==
    LET far(c) == Distance(rgb, RGB(c))
        nearest == Min({far(c) : c \in PaletteIndices})
    IN  Min({c \in PaletteIndices : far(c) = nearest})

(***************************************************************************)
(* Shapes.                                                                 *)
(***************************************************************************)
FillRect(x, y, w, h) == (x..x + w - 1) \X (y..y + h - 1)
Rect(x, y, w, h) ==
    ((x..x + w - 1) \X {y, y + h - 1}) \cup ({x, x + w - 1} \X (y + 1..y + h - 2))

(* Mutated form of CircleStep: the error term is tested after it is set.   *)
CircleStepLate(s) ==
    LET y == s.y + 1
        err == s.err + 2 * y + 1
    IN IF err < 0 THEN [x |-> s.x, y |-> y, err |-> err]
       ELSE [x |-> s.x - 1, y |-> y, err |-> s.err + 2 * (y - s.x + 1) + 1]

CircleStep(s) ==
    LET y == s.y + 1 IN
    IF s.err < 0 THEN [x |-> s.x, y |-> y, err |-> s.err + 2 * y + 1]
    ELSE [x |-> s.x - 1, y |-> y, err |-> s.err + 2 * (y - s.x + 1) + 1]

(* setToScanline starts at row 0: what lies above is dropped.              *)
Scanline(ps) == {p \in ps : p[2] >= 0}

CirclePoints(cx, cy, r) ==
    LET walk[k \in 0..r] == IF k = 0 THEN [x |-> r, y |-> 0, err |-> 1 - r]
                            ELSE CircleStep(walk[k - 1])
        octant == {walk[k] : k \in {k \in 0..r : walk[k].x >= walk[k].y}}
        around == UNION {{<<s.x, s.y>>, <<s.y, s.x>>} : s \in octant}
    IN  Scanline({<<cx + i * p[1], cy + j * p[2]>> : p \in around, i \in {-1, 1}, j \in {-1, 1}})

LineStep(s, dx, dy, sx, sy) ==
    LET right == 2 * s.e >= dy
        down == 2 * s.e <= dx
    IN  [x |-> IF right THEN s.x + sx ELSE s.x,
         y |-> IF down THEN s.y + sy ELSE s.y,
         e |-> s.e + (IF right THEN dy ELSE 0) + (IF down THEN dx ELSE 0)]

LinePoints(x0, y0, x1, y1) ==
    LET dx == AbsInt(x1 - x0)
        dy == -AbsInt(y1 - y0)
        sx == IF x0 > x1 THEN -1 ELSE 1
        sy == IF y0 > y1 THEN -1 ELSE 1
        walk[k \in 0..(dx - dy)] ==
            IF k = 0 THEN [x |-> x0, y |-> y0, e |-> dx + dy]
            ELSE LET s == walk[k - 1] IN
                 IF s.x = x1 /\ s.y = y1 THEN s ELSE LineStep(s, dx, dy, sx, sy)
    IN  {<<walk[k].x, walk[k].y>> : k \in 0..(dx - dy)}

(* A glyph of the font and the characters it does not have, one of them of *)
(* two bytes.                                                              *)
Dash == 1
Unknown == 2
Umlaut == 3
fontGlyphs(ch) == IF ch = Dash THEN (1..3) \X {3} ELSE {}
Bytes(ch) == IF ch = Umlaut THEN 2 ELSE 1

glyphAdvance == 6
maxTextGlyph == 32

(* The index of a Go range loop counts bytes, and so does the column.      *)
RenderText(x, y, text) ==
    LET end[k \in 0..Len(text)] == IF k = 0 THEN 0 ELSE end[k - 1] + Bytes(text[k])
    IN  UNION {{<<x + end[k - 1] * glyphAdvance + g[1], y + g[2]>> : g \in fontGlyphs(text[k])}
               : k \in 1..Len(text)}

(* What parseShape takes: nothing negative, nothing empty.                 *)
ShapeOK(s) ==
    /\ \A i \in 1..Len(s.args) : s.args[i] >= 0
    /\ s.name \in {"rect", "fillrect"} => s.args[3] > 0 /\ s.args[4] > 0
    /\ s.name = "circle" => s.args[3] > 0
    /\ s.name = "text" => s.text # <<>> /\ Len(s.text) <= maxTextGlyph

ShapePoints(s) ==
    LET a == s.args IN
    CASE s.name = "rect" -> Rect(a[1], a[2], a[3], a[4])
      [] s.name = "fillrect" -> FillRect(a[1], a[2], a[3], a[4])
      [] s.name = "circle" -> CirclePoints(a[1], a[2], a[3])
      [] s.name = "line" -> LinePoints(a[1], a[2], a[3], a[4])
      [] s.name = "text" -> RenderText(a[1], a[2], s.text)

(***************************************************************************)
(* Text art and images.                                                    *)
(***************************************************************************)
ArtCells(rows) == UNION {{<<i - 1, j - 1>> : i \in 1..Len(rows[j])} : j \in 1..Len(rows)}

ParseTextArt(legend, rows) ==
    LET char(p) == rows[p[2] + 1][p[1] + 1]
        inked == {p \in ArtCells(rows) : char(p) # 0}
    IN  IF \E p \in inked : char(p) \notin DOMAIN legend THEN Error
        ELSE Ok([w |-> Max({0} \cup {Len(rows[k]) : k \in 1..Len(rows)}),
                 h |-> Len(rows),
                 cells |-> [p \in inked |-> NearestColor(legend[char(p)])]])

(* Within the box, in proportion, never enlarged, never of no size.        *)
FitScale(w, h, maxW, maxH) ==
    LET size == IF w <= maxW /\ h <= maxH THEN <<w, h>>
                ELSE IF w * maxH > h * maxW THEN <<maxW, (h * maxW) \div w>>
                ELSE <<(w * maxH) \div h, maxH>>
    IN  <<Max({size[1], 1}), Max({size[2], 1})>>

(* The source rows or columns that the i-th of m averages.                 *)
Span(i, n, m) == (i * n) \div m .. ((i + 1) * n) \div m - 1

ClearPixel == -1
Channel(px, i) == IF px = ClearPixel THEN 0 ELSE RGB(px)[i]
Alpha(px) == IF px = ClearPixel THEN 0 ELSE 255

emptyCanvas == 28
Blend(v, a) == IF a = 255 THEN v ELSE v + (emptyCanvas * (255 - a) + 127) \div 255

Mean(f) == FoldFunction(+, 0, f) \div Cardinality(DOMAIN f)

ImageToBlueprint(img, maxW, maxH) ==
    LET size == FitScale(img.w, img.h, maxW, maxH)
        box(p) == Span(p[1], img.w, size[1]) \X Span(p[2], img.h, size[2])
        alpha(p) == Mean([q \in box(p) |-> Alpha(img.pixels[q])])
        shade(p, i) == Blend(Mean([q \in box(p) |-> Channel(img.pixels[q], i)]), alpha(p))
        inked == {p \in FillRect(0, 0, size[1], size[2]) : box(p) # {} /\ alpha(p) >= 26}
    IN  IF img.w = 0 \/ img.h = 0 THEN Error
        ELSE Ok([w |-> size[1], h |-> size[2], cells |-> [p \in inked |-> NearestColor(<<shade(p, 1), shade(p, 2), shade(p, 3)>>)]])

(***************************************************************************)
(* LoadPaint.                                                              *)
(***************************************************************************)
(* Mutated form of Overlay: the earlier placement wins.                    *)
Underlay(cells, s) ==
    [p \in DOMAIN cells \cup ShapePoints(s) |-> IF p \in DOMAIN cells THEN cells[p] ELSE s.color]

(* The later placement wins.                                               *)
Overlay(cells, s) ==
    [p \in DOMAIN cells \cup ShapePoints(s) |-> IF p \in ShapePoints(s) THEN s.color ELSE cells[p]]

(* The size grows with every placement; those at negative coordinates are  *)
(* then not among the cells gone through.                                  *)
Compose(base, draws) ==
    LET over[i \in 0..Len(draws)] ==
            IF i = 0 THEN base.cells ELSE Overlay(over[i - 1], draws[i])
        all == over[Len(draws)]
    IN
    [w |-> Max({base.w} \cup {p[1] + 1 : p \in DOMAIN all}),
     h |-> Max({base.h} \cup {p[2] + 1 : p \in DOMAIN all}),
     cells |-> [p \in {q \in DOMAIN all : q[1] >= 0 /\ q[2] >= 0} |-> all[p]]]

(* The box is the -grid flag's unless there is a size.                     *)
PaintTarget(in) == IF in.size = <<>> THEN in.grid ELSE in.size

LoadFile(in) ==
    CASE in.file = "none" -> Ok(Blank)
      [] in.file = ".txt" -> ParseTextArt(in.legend, in.rows)
      [] in.file = ".png" -> ImageToBlueprint(in.image, PaintTarget(in)[1], PaintTarget(in)[2])
      [] OTHER -> Error

LoadPaint(in) ==
    LET base == LoadFile(in) IN
    IF ~base.ok \/ in.draws = <<>> THEN base
    ELSE IF \E i \in 1..Len(in.draws) : ~ShapeOK(in.draws[i]) THEN Error
    ELSE Ok(Compose(base.bp, in.draws))

(***************************************************************************)
(* Where it goes, and what it is shown as.                                 *)
(***************************************************************************)
(* Integer division truncates, and the offset is a uint32.                 *)
Centered(grid, size) ==
    (IF size > grid THEN -((size - grid) \div 2) ELSE (grid - size) \div 2) % Word

Offset(grid, in, bp) ==
    IF in.offset # <<>> THEN in.offset ELSE <<Centered(grid[1], bp.w), Centered(grid[2], bp.h)>>

ValidateBounds(grid, bp, off) == bp.w + off[1] <= grid[1] /\ bp.h + off[2] <= grid[2]

(* The placements paintRun queues.                                         *)
PlacementsAt(bp, off) ==
    LET at(p) == <<p[1] - off[1], p[2] - off[2]>> IN
    [p \in {<<q[1] + off[1], q[2] + off[2]>> : q \in DOMAIN bp.cells} |-> bp.cells[at(p)]]

(* FormatTextArt: characters by how often their colour is used.            *)
FormatTextArt(bp) ==
    LET count(c) == Cardinality({p \in DOMAIN bp.cells : bp.cells[p] = c})
        before(d, c) == count(d) > count(c) \/ (count(d) = count(c) /\ d < c)
        used == {bp.cells[p] : p \in DOMAIN bp.cells}
        char(c) == 1 + Cardinality({d \in used : before(d, c)})
    IN  [legend |-> [ch \in {char(c) : c \in used} |-> RGB(CHOOSE c \in used : char(c) = ch)],
         rows |-> [y \in 1..bp.h |-> [x \in 1..bp.w |->
                      IF <<x - 1, y - 1>> \in DOMAIN bp.cells
                      THEN char(bp.cells[<<x - 1, y - 1>>]) ELSE 0]]]

(* Letters are small for what is there and for what is to be painted.      *)
RenderPreview(bmp, bp, off) ==
    [p \in FillRect(0, 0, GridW, GridH) |->
        LET at == <<p[1] - off[1], p[2] - off[2]>> IN
        IF at \in DOMAIN bp.cells
        THEN IF bmp[p] = 0 THEN <<"small", bp.cells[at]>> ELSE <<"X", 0>>
        ELSE IF bmp[p] = 0 THEN <<".", 0>> ELSE <<"small", (bmp[p] - 1) % 16>>]
====
