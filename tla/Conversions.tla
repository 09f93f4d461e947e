---- MODULE Conversions ----
(***************************************************************************)
(* One conversion per behaviour: a claim, from the request to the entries  *)
(* it leaves in the ledger and the bytes they become (Codec); or the bot's *)
(* input, compiled, placed and shown (Drawing: LoadPaint,                  *)
(* resolvePaintOffset, -inspect, Preview).  What was converted stands next *)
(* to what it became, so each property relates the two to a definition of  *)
(* its own.                                                                *)
(***************************************************************************)
EXTENDS Drawing

CONSTANTS
    Claims,     \* claim requests: [kind, x, y, color]
    Drawings    \* the bot's inputs, as LoadPaint has them, each with a canvas to preview on

(* The server's; the bot has its own in the -grid flag.                    *)
ServerGrid == <<GridW, GridH>>
Grid == FillRect(0, 0, GridW, GridH)
Uint32 == 0..Word - 1
Colors24 == (0..255) \X (0..255) \X (0..255)

(* What the request's JSON and the flags' and files' parsers let through;  *)
(* a shape has as many numbers as its name asks for.                       *)
ClaimRequests == [kind : {"claim"}, x : Uint32, y : Uint32, color : 0..ColorRange - 1]

Shapes == [name : {"rect", "fillrect", "line", "circle", "text"}, args : Seq(Int),
           color : PaletteIndices, text : Seq(Nat)]
Arity(name) == CASE name = "circle" -> 3 [] name = "text" -> 2 [] OTHER -> 4

IsImage(img) ==
    /\ img.w \in Nat /\ img.h \in Nat
    /\ img.pixels \in [FillRect(0, 0, img.w, img.h) -> PaletteIndices \cup {ClearPixel}]

IsDrawing(d) ==
    /\ d.kind = "drawing"
    /\ d.draws \in Seq(Shapes) /\ \A i \in 1..Len(d.draws) : Len(d.draws[i].args) = Arity(d.draws[i].name)
    /\ d.rows \in Seq(Seq(Nat)) /\ \A ch \in DOMAIN d.legend : d.legend[ch] \in Colors24
    /\ IsImage(d.image)
    /\ d.grid \in (Uint32 \ {0}) \X (Uint32 \ {0})
    /\ d.size = <<>> \/ d.size \in (Uint32 \ {0}) \X (Uint32 \ {0})
    /\ d.offset = <<>> \/ d.offset \in Uint32 \X Uint32
    /\ d.canvas \in [Grid -> 0..MaxColor + 1]

ASSUME ConversionsAssumption ==
    /\ ColorRange > MaxColor
    /\ Claims \subseteq ClaimRequests
    /\ \A d \in Drawings : IsDrawing(d)

VARIABLES given, made
convVars == <<given, made>>

Nothing == [kind |-> "nothing"]
Refused == [kind |-> "refused"]

ConvTypeOK ==
    /\ made.kind \in {"nothing", "refused", "entries", "blueprint", "display"}
    /\ made.kind = "entries" => given.kind = "claim"
    /\ made.kind \in {"blueprint", "display"} => given.kind = "drawing"

Inputs == Claims \cup Drawings

ConvInit == made = Nothing

Entry == {"funded", "pending", "posted", "refunded", "voided"}

(* handleClaim, and what each later step writes; Confirm paints the colour *)
(* that the registry has.                                                  *)
Record ==
    LET t == ClaimTransfer(given.x, given.y, given.color) IN
    /\ made = Nothing /\ given.kind = "claim"
    /\ made' = IF ~Accepts(given.x, given.y, given.color) THEN Refused
               ELSE [kind |-> "entries", byte |-> ByteOf(given.color),
                     of |-> [e \in Entry |->
                        CASE e = "funded" -> FundTransfer(given.x, given.y)
                          [] e = "pending" -> t
                          [] e = "posted" -> Posted(t)
                          [] e = "refunded" -> Refund(given.x, given.y)
                          [] e = "voided" -> Voided(t)]]
    /\ UNCHANGED given

(* LoadPaint and resolvePaintOffset, as paintRun calls it; a drawing that  *)
(* runs off the grid of the flag is refused before anything is claimed.    *)
Compile ==
    LET loaded == LoadPaint(given)
        off == Offset(given.grid, given, loaded.bp)
    IN
    /\ made = Nothing /\ given.kind = "drawing"
    /\ made' = IF ~loaded.ok THEN Refused
               ELSE [kind |-> "blueprint", bp |-> loaded.bp, off |-> off,
                     fits |-> ValidateBounds(given.grid, loaded.bp, off)]
    /\ UNCHANGED given

(* Mutated form of Show: the preview keeps the offset that painting has.   *)
ShowWherePainted ==
    /\ made.kind = "blueprint"
    /\ made' = [kind |-> "display", bp |-> made.bp, off |-> made.off, fits |-> made.fits,
                art |-> FormatTextArt(made.bp), at |-> made.off,
                shows |-> ValidateBounds(ServerGrid, made.bp, made.off),
                shown |-> IF ValidateBounds(ServerGrid, made.bp, made.off)
                          THEN RenderPreview(given.canvas, made.bp, made.off) ELSE <<>>]
    /\ UNCHANGED given

(* -inspect, which prints a blueprint that does not fit, too; and Preview, *)
(* which takes the server's grid for the flag's and places the blueprint   *)
(* again.                                                                  *)
Show ==
    LET at == Offset(ServerGrid, given, made.bp)
        shows == ValidateBounds(ServerGrid, made.bp, at)
    IN
    /\ made.kind = "blueprint"
    /\ made' = [kind |-> "display", bp |-> made.bp, off |-> made.off, fits |-> made.fits,
                art |-> FormatTextArt(made.bp), at |-> at, shows |-> shows,
                shown |-> IF shows THEN RenderPreview(given.canvas, made.bp, at) ELSE <<>>]
    /\ UNCHANGED given

ConvNext == Record \/ Compile \/ Show

(* The cells a run paints.                                                 *)
ToPaint(m) == IF m.kind = "blueprint" /\ m.fits THEN DOMAIN PlacementsAt(m.bp, m.off) ELSE {}

(***************************************************************************)
(* Properties.                                                             *)
(***************************************************************************)
(* A claim that the server accepts shows as the same byte whichever way it *)
(* reaches a canvas, by its confirm, by a fold of the ledger or by the     *)
(* change stream; on its own cell, whose account no other cell has; and no *)
(* other entry it leaves behind, its refund with the code of a claim       *)
(* included, paints anything (comment on MaxColor: "disambiguated by       *)
(* transfer flags").                                                       *)
ColoursAgree ==
    made.kind = "entries" =>
        LET at == <<given.x, given.y>>
            posted == made.of["posted"]
            paints == {e \in Entry : IsPostedClaim(made.of[e])}
            paintsElsewhere == {e \in Entry : EventOf(made.of[e]).type = "two_phase_posted"}
        IN
        /\ paints = {"posted"} /\ paintsElsewhere = {"posted"}
        /\ UnpackPixelID(posted.debit) = at /\ EventOf(posted).cell = at
        /\ made.byte = given.color + 1
        /\ ByteOf(ColorOfCode(posted)) = made.byte
        /\ ByteOf(EventOf(posted).color) = made.byte
        /\ \A p \in Grid : PixelID(p[1], p[2]) = posted.debit => p = at
        /\ posted.debit # FundID(at[1], at[2]) /\ posted.debit # SystemPoolID

(* One point in each column, or row, of the longer extent, none more than  *)
(* half a cell off the segment, the ends among them.                       *)
IsLine(ps, a) ==
    LET dx == a[3] - a[1]
        dy == a[4] - a[2]
        long == Max({AbsInt(dx), AbsInt(dy)})
        along == IF AbsInt(dx) >= AbsInt(dy) THEN 1 ELSE 2
    IN  /\ <<a[1], a[2]>> \in ps /\ <<a[3], a[4]>> \in ps
        /\ Cardinality(ps) = long + 1
        /\ {p[along] : p \in ps} = Min({a[along], a[along + 2]})..Max({a[along], a[along + 2]})
        /\ \A p \in ps : 2 * AbsInt((p[1] - a[1]) * dy - (p[2] - a[2]) * dx) <= long

(* A point nearest to the circle, measured along the row or column that    *)
(* crosses it more steeply.                                                *)
OnCircle(p, a) ==
    LET far == Max({AbsInt(p[1] - a[1]), AbsInt(p[2] - a[2])})
        near == Min({AbsInt(p[1] - a[1]), AbsInt(p[2] - a[2])})
        on == a[3] * a[3] - near * near
    IN far * far - far < on /\ on <= far * far + far

(* As far as they are on the blueprint.                                    *)
IsCircle(ps, a) == ps = {p \in (0..a[1] + a[3]) \X (0..a[2] + a[3]) : OnCircle(p, a)}

(* What has a neighbour outside.                                           *)
IsOutline(ps, a) ==
    LET full == FillRect(a[1], a[2], a[3], a[4]) IN
    ps = {p \in full : \E i \in {-1, 1} : <<p[1] + i, p[2]>> \notin full \/ <<p[1], p[2] + i>> \notin full}

(* Every glyph whole, clear of the next; in columns of their own where the *)
(* characters are of one byte.                                             *)
IsText(ps, a, text) ==
    LET known == {k \in 1..Len(text) : fontGlyphs(text[k]) # {}}
        glyph(k, x) == {<<x + g[1], a[2] + g[2]>> : g \in fontGlyphs(text[k])}
    IN  /\ Cardinality(ps) = MapThenSumSet(LAMBDA k : Cardinality(fontGlyphs(text[k])), known)
        /\ (\A k \in 1..Len(text) : Bytes(text[k]) = 1) =>
              ps = UNION {glyph(k, a[1] + (k - 1) * glyphAdvance) : k \in known}

(* Each shape is what it is called: integer error terms that run ahead or  *)
(* lag show as a point too many, a gap, or a bulge (shapes.go).            *)
ShapesAreExact ==
    made.kind = "blueprint" /\ given.file = "none" /\ Len(given.draws) = 1 =>
        LET s == given.draws[1]
            ps == DOMAIN made.bp.cells
        IN  CASE s.name = "line" -> IsLine(ps, s.args)
              [] s.name = "circle" -> IsCircle(ps, s.args)
              [] s.name = "rect" -> IsOutline(ps, s.args)
              [] s.name = "fillrect" -> ps = FillRect(s.args[1], s.args[2], s.args[3], s.args[4])
              [] s.name = "text" -> IsText(ps, s.args, s.text)

(* The last of the shapes over a cell gives its colour, else the file; and *)
(* no cell is dropped but at a negative coordinate.                        *)
LastDrawWins ==
    LET n == Len(given.draws)
        base == LoadFile(given).bp.cells
        over(p) == {i \in 1..n : p \in ShapePoints(given.draws[i])}
        all == DOMAIN base \cup UNION {ShapePoints(given.draws[i]) : i \in 1..n}
    IN  /\ DOMAIN made.bp.cells = {p \in all : p[1] >= 0 /\ p[2] >= 0}
        /\ \A p \in DOMAIN made.bp.cells :
              made.bp.cells[p] = IF over(p) = {} THEN base[p] ELSE given.draws[Max(over(p))].color

(* An image is scaled into the box it is given; each of its pixels counts  *)
(* in exactly one cell; a cell is left out exactly where the mean alpha is *)
(* below 26 of 255; and a box of one colour keeps it.                      *)
ImageIsWhole ==
    LET img == given.image
        w == made.bp.w
        h == made.bp.h
        box(p) == Span(p[1], img.w, w) \X Span(p[2], img.h, h)
        cells == FillRect(0, 0, w, h)
    IN  /\ w <= PaintTarget(given)[1] /\ h <= PaintTarget(given)[2]
        /\ \A q \in FillRect(0, 0, img.w, img.h) : Cardinality({p \in cells : q \in box(p)}) = 1
        /\ \A p \in cells :
              LET px == {img.pixels[q] : q \in box(p)}
                  opaque == {q \in box(p) : img.pixels[q] # ClearPixel}
              IN
              /\ p \in DOMAIN made.bp.cells <=> 255 * Cardinality(opaque) >= 26 * Cardinality(box(p))
              /\ Cardinality(px) = 1 /\ px # {ClearPixel} => made.bp.cells[p] \in px

(* Centred to a cell, and on the grid.                                     *)
IsPlaced(grid, off) ==
    LET right == grid[1] - made.bp.w - off[1]
        below == grid[2] - made.bp.h - off[2]
        placed == PlacementsAt(made.bp, off)
    IN  /\ given.offset = <<>> => right - off[1] \in {0, 1} /\ below - off[2] \in {0, 1}
        /\ DOMAIN placed \subseteq FillRect(0, 0, grid[1], grid[2])
        /\ Cardinality(DOMAIN placed) = Cardinality(DOMAIN made.bp.cells)

(* The blueprint has what its sources say, but for what is at a negative   *)
(* coordinate: blueprint.go 199 calls a drawing that runs off the canvas   *)
(* "not something to clip silently", but a circle loses the points left of *)
(* the grid and above it.  It reads back from the text that -inspect       *)
(* prints; and what of it is left is refused or lands whole on the grid of *)
(* the flag (compose, imageToBlueprint, FormatTextArt, ValidateBounds).    *)
BlueprintIsFaithful ==
    /\ made.kind = "blueprint" =>
          /\ LastDrawWins
          /\ given.file = ".png" /\ given.draws = <<>> => ImageIsWhole
          /\ made.fits => IsPlaced(given.grid, made.off)
    /\ made.kind = "display" => ParseTextArt(made.art.legend, made.art.rows) = Ok(made.bp)

(* The preview is the server's canvas after a run that is placed by the    *)
(* server's grid: an empty cell stays empty, a letter is the colour that   *)
(* the cell will have (a small one, where line 16 says "uppercase" for     *)
(* what will be painted), and an X stands on exactly the cells that are    *)
(* painted over.  A run that has that grid in its flag is placed there and *)
(* refused with it (Preview: "Server dims win: resolution + bounds         *)
(* validation must match the canvas that will actually receive the         *)
(* paints").                                                               *)
PreviewIsPainting ==
    made.kind = "display" =>
        LET placed == PlacementsAt(made.bp, made.at)
            after(p) == IF p \in DOMAIN placed THEN ByteOf(placed[p]) ELSE given.canvas[p]
        IN
        /\ made.shows =>
              /\ IsPlaced(ServerGrid, made.at)
              /\ \A p \in Grid :
                    made.shown[p] = IF p \in DOMAIN placed /\ given.canvas[p] # 0 THEN <<"X", 0>>
                                    ELSE IF after(p) = 0 THEN <<".", 0>>
                                    ELSE <<"small", after(p) - 1>>
        /\ given.grid = ServerGrid => made.at = made.off /\ made.shows = made.fits

====
