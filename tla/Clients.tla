---- MODULE Clients ----
(***************************************************************************)
(* The programs on the user's side: the two pages of the web client        *)
(* (PaintPage, Timelapse), the bot generating load (LoadBot) or painting a *)
(* blueprint (Conversions, then PaintBot), and the conversions alone, as   *)
(* -inspect, -preview and the server's handlers make them.  They share     *)
(* nothing but the server, so one behaviour looks at one of them.          *)
(***************************************************************************)
EXTENDS PaintPage, Timelapse, LoadBot, PaintBot, Conversions

CONSTANT Paintings      \* the drawings that are painted, some of Drawings

ASSUME ClientsAssumption == Paintings \subseteq Drawings

VARIABLE client

vars == <<client, paintVars, seekVars, loadVars, botVars, convVars>>

Kinds == {"/", "/history", "load", "paint", "convert"}

GivenTo(c) ==
    CASE c = "convert" -> Inputs
      [] c = "paint" -> Paintings
      [] OTHER -> {Nothing}

Init ==
    /\ client \in Kinds
    /\ PaintInit /\ SeekInit /\ LoadInit /\ BotInit
    /\ client # "load" => hotspot = Origin
    /\ given \in GivenTo(client) /\ ConvInit

(* paintRun queues what LoadPaint and the offset came to.                  *)
Start ==
    /\ made.kind = "blueprint" /\ made.fits /\ queue = {}
    /\ Begin(ToPaint(made))
    /\ UNCHANGED convVars

PaintMode ==
    \/ Compile /\ UNCHANGED botVars
    \/ Start
    \/ BotNext /\ UNCHANGED convVars

Next ==
    /\ UNCHANGED client
    /\ \/ client = "/" /\ PaintNext /\ UNCHANGED <<seekVars, loadVars, botVars, convVars>>
       \/ client = "/history" /\ SeekNext /\ UNCHANGED <<paintVars, loadVars, botVars, convVars>>
       \/ client = "load" /\ LoadNext /\ UNCHANGED <<paintVars, seekVars, botVars, convVars>>
       \/ client = "paint" /\ PaintMode /\ UNCHANGED <<paintVars, seekVars, loadVars>>
       \/ client = "convert" /\ ConvNext /\ UNCHANGED <<paintVars, seekVars, loadVars, botVars>>

FairSpec == Init /\ [][Next]_vars /\ PaintFairness /\ LoadFairness /\ BotFairness

TypeOK ==
    /\ client \in Kinds
    /\ PaintTypeOK /\ SeekTypeOK /\ LoadTypeOK /\ BotTypeOK /\ ConvTypeOK

(* Both kinds of run of the bot end, whatever fails on the way: painting   *)
(* when every placement is painted or given up, load when its time is up   *)
(* and with no cell left reserved (paintRun: "runs until every placement   *)
(* is painted (or given up), or ctx ends"; Run: "blocks until Duration     *)
(* elapses or ctx cancels").                                               *)
RunsEnd ==
    over \/ queue # {} ~> IF client = "load" THEN LoadIsOver ELSE left = Workers
====
