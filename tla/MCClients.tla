---- MODULE MCClients ----
(***************************************************************************)
(* Model-checking instance of Clients: what is given to the conversions.   *)
(***************************************************************************)
EXTENDS Clients
LOCAL INSTANCE TLC

Board == [p \in Grid |-> IF (p[1] + p[2]) % 3 = 0 THEN 0 ELSE ((p[1] * p[2]) % 16) + 1]

Input(file, draws) ==
    [kind |-> "drawing", file |-> file, legend |-> <<>>, rows |-> <<>>,
     image |-> [w |-> 0, h |-> 0, pixels |-> <<>>],
     draws |-> draws, grid |-> ServerGrid, size |-> <<>>, offset |-> <<>>, canvas |-> Board]
Shape(name, args, color) == [name |-> name, args |-> args, color |-> color, text |-> <<>>]
Lettering(text) == [Shape("text", <<0, 0>>, 5) EXCEPT !.text = text]
TextArt(rows) ==
    [Input(".txt", <<>>) EXCEPT !.legend = (1 :> RGB(9)) @@ (2 :> <<30, 30, 30>>), !.rows = rows]
Picture(w, h, pixels, size) ==
    [Input(".png", <<>>) EXCEPT !.image = [w |-> w, h |-> h, pixels |-> pixels], !.size = size]

(* Single shapes, the ones that do not parse included: all lines of a 6x6  *)
(* square, boxes from nothing up, circles that cross the edges, texts.     *)
Lines == {Shape("line", a, 2) : a \in (0..5) \X (0..5) \X (0..5) \X (0..5)}
Boxes == {Shape(n, a, 3) : n \in {"rect", "fillrect"}, a \in (0..1) \X (0..1) \X (0..4) \X (0..4)}
Circles == {Shape("circle", a, 1) : a \in {0, 3, 7} \X {1, 8} \X (0..12)}
Texts == {Lettering(t) : t \in UNION {[1..n -> {Dash, Unknown, Umlaut}] : n \in 0..3}}
Singles == {Input("none", <<s>>) : s \in Lines \cup Boxes \cup Circles \cup Texts}

(* Up to two shapes over a text, at offsets that fit, barely, and not.     *)
Stack == {Shape("line", <<0, 0, 3, 3>>, 1), Shape("rect", <<1, 1, 3, 2>>, 7),
          Shape("circle", <<1, 1, 2>>, 15), Shape("fillrect", <<0, 2, 2, 2>>, 4)}
Rows == {<<>>, <<<<>>>>, <<<<0, 1>>, <<2>>>>, <<<<1, 2, 1>>, <<>>, <<0, 0, 0, 1>>>>, <<<<1, 3>>>>}
Overlays == {[TextArt(r) EXCEPT !.draws = d, !.offset = o] :
    r \in Rows, d \in {<<>>} \cup {<<s>> : s \in Stack} \cup (Stack \X Stack),
    o \in {<<>>, <<0, 0>>, <<13, 3>>, <<7, 9>>}}

(* All 3x2 images of three pixels; larger ones with a pattern.             *)
Images ==
    {Picture(3, 2, px, z) : px \in [FillRect(0, 0, 3, 2) -> {ClearPixel, 0, 3}], z \in {<<>>, <<2, 1>>}}
    \cup {Picture(s[1], s[2], [p \in FillRect(0, 0, s[1], s[2]) |-> ((p[1] + 2 * p[2]) % 5) - 1], z) :
            z \in {<<>>, <<4, 4>>, <<3, 7>>}, s \in {1, 5, 17} \X {0, 1, 7, 13}}
    \cup {Picture(8, 8, [p \in FillRect(0, 0, 8, 8) |-> IF p[1] \in 1..n /\ p[2] = 2 * p[1] THEN 2 ELSE ClearPixel],
                  <<2, 2>>) : n \in 1..3}

(* A flag that has another grid than the server.                           *)
Elsewhere ==
    {[in EXCEPT !.grid = g] :
        in \in {TextArt(<<<<0, 1>>, <<2>>>>), [TextArt(<<<<0, 1>>, <<2>>>>) EXCEPT !.offset = <<13, 3>>],
                [TextArt(<<<<0, 1>>, <<2>>>>) EXCEPT !.offset = <<15, 12>>], Input("none", <<Shape("circle", <<7, 8, 7>>, 1)>>),
                Picture(17, 13, [p \in FillRect(0, 0, 17, 13) |-> 4], <<>>)},
        g \in {<<20, 10>>, <<17, 13>>, <<40, 40>>, <<6, 5>>}}

(* Three cells, one, none; one that does not parse, one that does not fit. *)
MCPaintings ==
    {Input("none", <<Shape("line", <<0, 0, 2, 1>>, 2)>>), [TextArt(<<<<0, 1>>, <<2>>>>) EXCEPT !.offset = <<0, 0>>],
     TextArt(<<<<>>>>), TextArt(<<<<1, 3>>>>), [TextArt(<<<<0, 1>>, <<2>>>>) EXCEPT !.offset = <<7, 11>>]}

MCDrawings == Singles \cup Overlays \cup Images \cup Elsewhere \cup MCPaintings \cup {Input(".svg", <<>>)}
MCClaims == [kind : {"claim"}, x : {0, 1, 5, 15, 16}, y : {0, 3, 11, 12},
             color : {0, 1, 2, 14, 15, 16, 17, 255}]
====
